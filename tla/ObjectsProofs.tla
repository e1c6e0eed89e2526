---------------------------- MODULE ObjectsProofs ----------------------------
(***************************************************************************)
(* The invariants of the event and the message queue, for every number of  *)
(* threads, flags and messages, every size of the queue and both orders of *)
(* the suspend lists; that a flag is given once; and the proof that the    *)
(* queue implements a bounded queue whose messages are copied.             *)
(***************************************************************************)
EXTENDS Objects, KernelProofs

-----------------------------------------------------------------------------
(* The inductive invariant *)

Waiting == {"blocking", "blocked"}
Emptying == {"reset", "detach", "detach2"}
Copying == {"copyin", "urgent", "copyout"}
ObjectList == {event, receivers, senders}

\* A suspended thread is in a blocking call and in the list of that call.
ThreadInv(u) ==
    /\ Suspended(k, u) => pc[u] \in Waiting /\ Linked(k, at[u], u) /\ k.err[u] = "EINTR"
    /\ at[u] \in ObjectList \cup {NoList}
    /\ pc[u] \in Waiting \cup Emptying => at[u] # NoList

\* Nobody locks the scheduler, and the running thread is suspended only between
\* putting itself on a list and calling rt_schedule.
RunInv == k.lock = 0 /\ (Suspended(k, k.cur) => pc[k.cur] = "blocking")

CallInv ==
    /\ CallsTypeOK /\ KernelOK(k)
    /\ (\A u \in Thread : ThreadInv(u)) /\ RunInv

\* A thread waits for some flag, and not for what it could have.
EventInv ==
    /\ EventTypeOK
    /\ \A u \in Thread : Linked(k, event, u) => want[u].set # {} /\ ~ Satisfied(want[u], set)

\* The threads that copy have a message, and the ones that wait to send.
HoldInv ==
    \A u \in Thread :
        /\ hold[u] # NoMsg <=> pc[u] \in Copying
        /\ pc[u] \in Waiting /\ at[u] = senders => call[u].msg \in Msg

\* While a list has threads, n of its threads have been woken at least.
Served(q, n) == (\E u : Linked(k, q, u)) => n <= Cardinality(Woken(q))

Held == {u \in Thread : hold[u] # NoMsg}

CountInv ==
    /\ Served(receivers, Len(mq.msgs)) /\ Served(senders, mq.free)
    /\ mq.free + Len(mq.msgs) + Cardinality(Held) = Size

\* u empties the lists of the queue in rt_mq_detach or rt_mq_delete.
DetachesQueue(u) == pc[u] \in {"detach", "detach2"} /\ at[u] \in {receivers, senders}

\* A queue that is in use is not being detached; in one that is not, nobody copies or
\* is on the way to look at it again, and no sender stays behind.
LifeInv ==
    /\ receivers \in alive => \A u \in Thread : ~ DetachesQueue(u)
    /\ receivers \notin alive =>
           /\ Woken(receivers) = {} /\ Woken(senders) = {}
           /\ \A u \in Thread : hold[u] = NoMsg
           /\ (\E u \in Thread : DetachesQueue(u)) \/ \A u : ~ Linked(k, senders, u)

QueueInv == MessageQueueTypeOK /\ HoldInv /\ CountInv /\ LifeInv

ObjInv == CallInv /\ EventInv /\ QueueInv

LEMMA ObjectLists ==
    /\ event \in Queue /\ receivers \in Queue /\ senders \in Queue
    /\ event # receivers /\ event # senders /\ receivers # senders
    /\ ObjectList \subseteq Queue /\ NoList \notin Queue
    /\ Following[event] = event /\ Following[receivers] = senders /\ Following[senders] = senders
  BY CallsAssumption, EventAssumption, MessageQueueAssumption, ObjectsAssumption DEF ObjectList

LEMMA CallFacts ==
    ASSUME CallInv
    PROVE  /\ Sound(k) /\ k \in KernelState /\ k.cur \in Thread /\ k.lock = 0 /\ RunInv
           /\ \A u \in Thread : ThreadInv(u)
           /\ pc \in [Thread -> Location] /\ at \in [Thread -> Queue \cup {NoList}]
           /\ alive \subseteq Queue
<1>1. k \in KernelState
  BY DEF CallInv, CallsTypeOK
<1>2. k.cur \in Thread
  BY <1>1 DEF KernelState
<1> QED
  BY <1>1, <1>2 DEF CallInv, CallsTypeOK, Sound, RunInv

LEMMA CallInvNext ==
    ASSUME Sound(k'), pc' \in [Thread -> Location], at' \in [Thread -> Queue \cup {NoList}],
           alive' \subseteq Queue, \A u \in Thread : ThreadInv(u)', RunInv'
    PROVE  CallInv'
  BY DEF CallInv, CallsTypeOK, Sound

\* Who waits and who has been woken, in terms of the lists of the kernel.
LEMMA WokenFacts ==
    ASSUME NEW q
    PROVE  /\ \A u : u \in Woken(q) <=> /\ u \in Thread /\ pc[u] \in Waiting /\ at[u] = q
                                        /\ ~ Linked(k, q, u) /\ k.err[u] = "EOK"
           /\ \A u : u \in Woken(q)' <=> /\ u \in Thread /\ pc'[u] \in Waiting /\ at'[u] = q
                                         /\ ~ Linked(k', q, u) /\ k'.err[u] = "EOK"
  BY DEF Woken, Waiters, Linked, Waiting

LEMMA WokenFinite ==
    ASSUME NEW q
    PROVE  /\ IsFiniteSet(Woken(q)) /\ Cardinality(Woken(q)) \in Nat
           /\ IsFiniteSet(Woken(q)') /\ Cardinality(Woken(q)') \in Nat
<1>1. Woken(q) \subseteq Thread /\ Woken(q)' \subseteq Thread
  BY DEF Woken
<1>2. IsFiniteSet(Woken(q)) /\ IsFiniteSet(Woken(q)')
  BY <1>1, KernelAssumption, FS_Subset
<1> QED
  BY <1>2, FS_CardinalityType

LEMMA EmptyFacts ==
    ASSUME CallInv, NEW q \in Queue
    PROVE  /\ IsEmpty(q) <=> \A u : ~ Linked(k, q, u)
           /\ IsEmpty(q) <=> \A u \in Thread : ~ Linked(k, q, u)
           /\ \A u : Linked(k, q, u) => u \in Thread /\ Suspended(k, u)
<1>1. Sound(k) /\ k \in KernelState /\ q \in Prio \cup Queue
  BY CallFacts
<1>2. /\ k.list[q] = <<>> <=> \A u \in Thread : ~ Linked(k, q, u)
      /\ \A u : Linked(k, q, u) => u \in Thread
  BY <1>1, ListTypes
<1>3. \A u \in Thread : Linked(k, q, u) => Suspended(k, u)
  BY <1>1, SoundFacts DEF ThreadOK
<1> QED
  BY <1>2, <1>3 DEF IsEmpty

-----------------------------------------------------------------------------
(* What a step of the kernel does to those who wait *)

\* From s to r the suspended threads H are resumed, and thread->error of no threads
\* but those and the ones in E changes.
Releases(s, r, H, E) ==
    /\ Sound(r) /\ r.lock = s.lock
    /\ H \subseteq Thread /\ \A u \in H : Suspended(s, u)
    /\ \A q \in Queue : \A u : Linked(r, q, u) <=> Linked(s, q, u) /\ u \notin H
    /\ \A u \in Thread : Suspended(r, u) <=> Suspended(s, u) /\ u \notin H
    /\ \A u \in Thread \ (H \cup E) : r.err[u] = s.err[u]

LEMMA FreesNobody ==
    ASSUME NEW s, NEW r, Sound(r), Calm(s, r), NEW E,
           \A u \in Thread \ E : r.err[u] = s.err[u]
    PROVE  Releases(s, r, {}, E)
<1>1. /\ \A q \in Queue : \A u : Linked(r, q, u) <=> Linked(s, q, u)
      /\ \A u \in Thread : Suspended(r, u) <=> Suspended(s, u)
  BY CalmLinks
<1> QED
  BY <1>1 DEF Releases, Calm

LEMMA CalmSame == ASSUME NEW s PROVE Calm(s, s)
  BY DEF Calm, SameActivity

LEMMA FreesOne ==
    ASSUME NEW s, Sound(s), NEW r, Sound(r), NEW h \in Thread, Wakes(s, r, h), Suspended(s, h)
    PROVE  Releases(s, r, {h}, {})
<1>1. /\ \A q \in Queue : \A u : Linked(r, q, u) <=> Linked(s, q, u) /\ u # h
      /\ \A u \in Thread : Suspended(r, u) <=> Suspended(s, u) /\ u # h
  BY WakesLinks
<1>2. r.lock = s.lock /\ \A u \in Thread \ {h} : r.err[u] = s.err[u]
  BY DEF Wakes, OthersKeep
<1> QED
  BY <1>1, <1>2 DEF Releases

\* A thread that did not wait is started.
LEMMA FreesNone ==
    ASSUME NEW s, Sound(s), NEW r, Sound(r), NEW h \in Thread, Wakes(s, r, h),
           ~ Suspended(s, h), r.err = s.err
    PROVE  Releases(s, r, {}, {})
<1>1. /\ \A q \in Queue : \A u : Linked(r, q, u) <=> Linked(s, q, u) /\ u # h
      /\ \A u \in Thread : Suspended(r, u) <=> Suspended(s, u) /\ u # h
  BY WakesLinks
<1>2. \A q \in Queue : ~ Linked(s, q, h)
  BY SoundFacts DEF ThreadOK
<1>3. r.lock = s.lock
  BY DEF Wakes
<1>4. \A q \in Queue : \A u : Linked(r, q, u) <=> Linked(s, q, u)
  BY <1>1, <1>2
<1>5. \A u \in Thread : Suspended(r, u) <=> Suspended(s, u)
  BY <1>1
<1> QED
  BY <1>3, <1>4, <1>5 DEF Releases

LEMMA FreesThenCalm ==
    ASSUME NEW s, NEW m, NEW r, NEW H, NEW E, Releases(s, m, H, E), Sound(r), Calm(m, r), r.err = m.err
    PROVE  Releases(s, r, H, E)
<1>1. /\ \A q \in Queue : \A u : Linked(r, q, u) <=> Linked(m, q, u)
      /\ \A u \in Thread : Suspended(r, u) <=> Suspended(m, u)
  BY CalmLinks
<1> QED
  BY <1>1 DEF Releases, Calm

LEMMA FreesError ==
    ASSUME NEW s, Sound(s), NEW t \in Thread, NEW e \in Error, NEW r, r = SetError(s, t, e)
    PROVE  Releases(s, r, {}, {t}) /\ r.cur = s.cur /\ r.stat = s.stat /\ r.err[t] = e
<1>1. /\ Sound(r) /\ r.list = s.list /\ r.stat = s.stat /\ r.cur = s.cur /\ r.lock = s.lock
      /\ r.err[t] = e /\ \A u \in Thread \ {t} : r.err[u] = s.err[u]
  BY SetErrorFrame DEF SetError
<1>2. Calm(s, r)
  BY <1>1 DEF Calm, SameActivity
<1> QED
  BY <1>1, <1>2, FreesNobody

\* The first thread of a list is resumed, with e for its error.
FirstResumed(q, e) == rt_thread_resume([k EXCEPT !.err[Head(k.list[q])] = e], Head(k.list[q]))

LEMMA FreesFirst ==
    ASSUME CallInv, NEW q \in Queue, ~ IsEmpty(q), NEW e \in Error, NEW r, r = FirstResumed(q, e)
    PROVE  \E h \in Thread : /\ Linked(k, q, h) /\ Suspended(k, h)
                             /\ Releases(k, r, {h}, {}) /\ r.err[h] = e /\ r.cur = k.cur
<1>1. Sound(k) /\ k \in KernelState
  BY CallFacts
<1>2. k.list[q] \in Seq(Thread) /\ k.list[q] # <<>>
  BY <1>1 DEF KernelState, IsEmpty
<1>3. PICK h : h = Head(k.list[q])
  OBVIOUS
<1>4. h \in Thread /\ Linked(k, q, h)
  BY <1>2, <1>3, HeadInList DEF Linked
<1>5. Suspended(k, h)
  BY <1>4, EmptyFacts
<1>6. Wakes(k, r, h) /\ r.err[h] = e /\ r.cur = k.cur
  BY <1>1, <1>3, <1>4, <1>5, WakeFrame DEF FirstResumed
<1>7. Sound(r)
  BY <1>1, <1>3, <1>4, WakeSound DEF FirstResumed
<1> QED
  BY <1>1, <1>4, <1>5, <1>6, <1>7, FreesOne

LEMMA ResumeFirst ==
    ASSUME CallInv, NEW q \in Queue, ~ IsEmpty(q), NEW r, r = rt_ipc_list_resume(k, q)
    PROVE  \E h \in Thread : /\ Linked(k, q, h) /\ Suspended(k, h)
                             /\ Releases(k, r, {h}, {}) /\ r.err[h] = "EOK" /\ r.cur = k.cur
<1>1. r = FirstResumed(q, "EOK")
  BY DEF rt_ipc_list_resume, FirstResumed
<1>2. "EOK" \in Error
  BY DEF Error
<1> QED
  BY <1>1, <1>2, FreesFirst

LEMMA RoundFirst ==
    ASSUME CallInv, NEW q \in Queue, ~ IsEmpty(q), NEW r, r = ResumeAllRound(k, q)
    PROVE  \E h \in Thread : /\ Linked(k, q, h) /\ Suspended(k, h)
                             /\ Releases(k, r, {h}, {}) /\ r.err[h] = "ERROR" /\ r.cur = k.cur
<1>1. r = FirstResumed(q, "ERROR")
  BY DEF ResumeAllRound, FirstResumed
<1>2. "ERROR" \in Error
  BY DEF Error
<1> QED
  BY <1>1, <1>2, FreesFirst

-----------------------------------------------------------------------------
(* What a step does to the threads *)

\* t is the only thread that goes on, and it enters no wait: it stays in its wait, or
\* it leaves it, not being suspended.
Goes(t) ==
    /\ \A u \in Thread \ {t} : pc'[u] = pc[u] /\ at'[u] = at[u]
    /\ pc'[t] \in Waiting => pc[t] \in Waiting /\ at'[t] = at[t]
    /\ Suspended(k, t) => pc'[t] \in Waiting
    /\ at'[t] \in ObjectList \cup {NoList}
    /\ pc'[t] \in Emptying => at'[t] # NoList

\* The running thread is not found suspended anywhere but at "blocking".
CurrentStays ==
    \/ k'.cur = k.cur /\ pc'[k.cur] = pc[k.cur]
    \/ k'.stat[k'.cur] = "RUNNING"
    \/ k'.cur = k.cur /\ ~ Suspended(k, k.cur)

CallTypes ==
    /\ pc' \in [Thread -> Location] /\ at' \in [Thread -> Queue \cup {NoList}]
    /\ alive' \subseteq Queue

\* Who waits and who has been woken after a step of t that resumes H.
Moves(H, t) ==
    \A q \in Queue :
        /\ \A u : Linked(k', q, u) <=> Linked(k, q, u) /\ u \notin H
        /\ \A u : u \in Woken(q)' <=>
               \/ u \in Woken(q) /\ (u # t \/ pc'[t] \in Waiting)
               \/ u \in H /\ Linked(k, q, u) /\ k'.err[u] = "EOK"

\* A suspended thread has not been woken, and waits in the list of its call.
LEMMA SuspendedFacts ==
    ASSUME CallInv, NEW u \in Thread, Suspended(k, u)
    PROVE  /\ pc[u] \in Waiting /\ at[u] \in Queue /\ Linked(k, at[u], u) /\ k.err[u] = "EINTR"
           /\ \A q : u \notin Woken(q)
           /\ \A q \in Queue : Linked(k, q, u) <=> q = at[u]
<1>1. pc[u] \in Waiting /\ Linked(k, at[u], u) /\ k.err[u] = "EINTR"
      /\ at[u] \in ObjectList \cup {NoList} /\ at[u] # NoList
  BY CallFacts DEF ThreadInv
<1>2. at[u] \in Queue
  BY <1>1, ObjectLists
<1>3. NodesLinkedOnce(k)
  BY CallFacts, SoundFacts
<1>4. \A q \in Queue : Linked(k, q, u) <=> q = at[u]
  BY <1>1, <1>2, <1>3 DEF NodesLinkedOnce
<1>5. \A q : u \notin Woken(q)
  BY <1>1, WokenFacts
<1> QED
  BY <1>1, <1>2, <1>4, <1>5

LEMMA FreeStep ==
    ASSUME CallInv, NEW t \in Thread, Goes(t), CurrentStays, CallTypes,
           NEW H, NEW E, Releases(k, k', H, E), E \subseteq {t}, pc'[t] \in Waiting => E = {}
    PROVE  CallInv' /\ Moves(H, t)
<1>0. /\ Sound(k) /\ k.lock = 0 /\ k.cur \in Thread /\ RunInv
      /\ \A u \in Thread : ThreadInv(u)
  BY CallFacts
<1>1. /\ Sound(k') /\ k'.lock = k.lock /\ H \subseteq Thread /\ \A u \in H : Suspended(k, u)
      /\ \A q \in Queue : \A u : Linked(k', q, u) <=> Linked(k, q, u) /\ u \notin H
      /\ \A u \in Thread : Suspended(k', u) <=> Suspended(k, u) /\ u \notin H
      /\ \A u \in Thread : u \in H \/ u \in E \/ k'.err[u] = k.err[u]
  BY DEF Releases
<1>2. ASSUME NEW u \in Thread PROVE ThreadInv(u)'
  <2>1. ThreadInv(u)
    BY <1>0
  <2>2. pc'[u] \in Waiting => pc[u] \in Waiting /\ at'[u] = at[u]
    BY DEF Goes
  <2>3. Suspended(k, u) => pc'[u] \in Waiting
    BY <2>1 DEF Goes, ThreadInv
  <2>4. ASSUME Suspended(k', u)
        PROVE  pc'[u] \in Waiting /\ Linked(k', at'[u], u) /\ k'.err[u] = "EINTR"
    <3>1. Suspended(k, u) /\ u \notin H
      BY <2>4, <1>1
    <3>2. pc'[u] \in Waiting /\ at'[u] = at[u]
      BY <3>1, <2>2, <2>3
    <3>3. at[u] \in Queue /\ Linked(k, at[u], u) /\ k.err[u] = "EINTR"
      BY <3>1, SuspendedFacts
    <3>4. u \notin E
      BY <3>2
    <3> QED
      BY <3>1, <3>2, <3>3, <3>4, <1>1
  <2>5. at'[u] \in ObjectList \cup {NoList}
    BY <2>1 DEF Goes, ThreadInv
  <2>6. pc'[u] \in Waiting \cup Emptying => at'[u] # NoList
    BY <2>1, <2>2 DEF Goes, ThreadInv
  <2> QED
    BY <2>4, <2>5, <2>6 DEF ThreadInv
<1>3. RunInv'
  <2>1. k'.lock = 0
    BY <1>0, <1>1
  <2>2. Suspended(k', k'.cur) => pc'[k'.cur] = "blocking"
    BY <1>0, <1>1 DEF CurrentStays, RunInv, Suspended, SuspendFlag
  <2> QED
    BY <2>1, <2>2 DEF RunInv
<1>4. CallInv'
  BY <1>1, <1>2, <1>3, CallInvNext DEF CallTypes
<1>5. ASSUME NEW q \in Queue, NEW u
      PROVE  u \in Woken(q)' <=> \/ u \in Woken(q) /\ (u # t \/ pc'[t] \in Waiting)
                                 \/ u \in H /\ Linked(k, q, u) /\ k'.err[u] = "EOK"
  <2>1. ASSUME u \in Woken(q)'
        PROVE  \/ u \in Woken(q) /\ (u # t \/ pc'[t] \in Waiting)
               \/ u \in H /\ Linked(k, q, u) /\ k'.err[u] = "EOK"
    <3>1. /\ u \in Thread /\ pc'[u] \in Waiting /\ at'[u] = q
          /\ ~ Linked(k', q, u) /\ k'.err[u] = "EOK"
      BY <2>1, WokenFacts
    <3>2. pc[u] \in Waiting /\ at[u] = q
      BY <3>1 DEF Goes
    <3>3. CASE u \in H
      BY <3>3, <3>1, <3>2, <1>1, SuspendedFacts
    <3>4. CASE u \notin H
      <4>1. ~ Linked(k, q, u)
        BY <3>1, <3>4, <1>1
      <4>2. k.err[u] = "EOK"
        BY <3>1, <3>4, <1>1
      <4> QED
        BY <4>1, <4>2, <3>1, <3>2, WokenFacts
    <3> QED
      BY <3>3, <3>4
  <2>2. ASSUME u \in Woken(q), u # t \/ pc'[t] \in Waiting PROVE u \in Woken(q)'
    <3>1. /\ u \in Thread /\ pc[u] \in Waiting /\ at[u] = q
          /\ ~ Linked(k, q, u) /\ k.err[u] = "EOK"
      BY <2>2, WokenFacts
    <3>2. pc'[u] \in Waiting /\ at'[u] = at[u]
      BY <3>1, <2>2 DEF Goes
    <3>3. u \notin H
      BY <3>1, <2>2, <1>1, SuspendedFacts
    <3>4. u \notin E
      BY <2>2
    <3> QED
      BY <3>1, <3>2, <3>3, <3>4, <1>1, WokenFacts
  <2>3. ASSUME u \in H, Linked(k, q, u), k'.err[u] = "EOK" PROVE u \in Woken(q)'
    <3>1. u \in Thread /\ Suspended(k, u) /\ ~ Linked(k', q, u)
      BY <2>3, <1>1
    <3>2. pc[u] \in Waiting /\ at[u] = q
      BY <2>3, <3>1, SuspendedFacts
    <3>3. pc'[u] \in Waiting /\ at'[u] = at[u]
      BY <3>1, <3>2 DEF Goes
    <3> QED
      BY <2>3, <3>1, <3>2, <3>3, WokenFacts
  <2> QED
    BY <2>1, <2>2, <2>3
<1>6. Moves(H, t)
  BY <1>1, <1>5 DEF Moves
<1> QED
  BY <1>4, <1>6

\* t suspends itself in the list q.
Joins(q, t) ==
    /\ \A n \in Queue : \A u : Linked(k', n, u) <=> Linked(k, n, u) \/ (n = q /\ u = t)
    /\ \A n \in Queue : \A u : u \in Woken(n)' <=> u \in Woken(n) /\ u # t
    /\ pc'[t] = "blocking" /\ at'[t] = q
    /\ \A u \in Thread \ {t} : pc'[u] = pc[u] /\ at'[u] = at[u]
    /\ alive' = alive

LEMMA BlockStep ==
    ASSUME CallInv, NEW t \in App, k.cur = t, ~ Suspended(k, t), NEW q \in ObjectList,
           NEW time, NEW flag \in SuspendFlag, SuspendsOn(t, q, time, flag)
    PROVE  CallInv' /\ Joins(q, t)
<1>0. /\ t \in Thread /\ Sound(k) /\ k.lock = 0 /\ RunInv /\ q \in Queue /\ q # NoList
      /\ \A u \in Thread : ThreadInv(u)
      /\ pc \in [Thread -> Location] /\ at \in [Thread -> Queue \cup {NoList}]
      /\ alive \subseteq Queue
  BY CallFacts, ObjectLists DEF App
<1>1. PICK s : s = SetError(k, t, "EINTR")
  OBVIOUS
<1>2. "EINTR" \in Error /\ "blocking" \in Location /\ "blocking" \in Waiting
  BY DEF Error, Location, Waiting
<1>3. /\ Sound(s) /\ s.list = k.list /\ s.stat = k.stat /\ s.cur = k.cur /\ s.lock = k.lock
      /\ s.err[t] = "EINTR" /\ \A u \in Thread \ {t} : s.err[u] = k.err[u]
  BY <1>0, <1>1, <1>2, SetErrorFrame DEF SetError
<1>4. PICK r : r = rt_ipc_list_suspend(s, q, t, Order, flag)
  OBVIOUS
<1>5. s.stat[t] \in {"READY", "RUNNING"} /\ s.stat[t] \in Active
  BY <1>3 DEF SuspendsOn, MaySuspend, Active
<1>6. /\ Sound(r) /\ Suspended(r, t) /\ r.err = s.err
      /\ \A n \in Queue : \A u : Linked(r, n, u) <=> Linked(s, n, u) \/ (n = q /\ u = t)
  BY <1>0, <1>3, <1>4, <1>5, ListSuspendSound
<1>7. OthersKeep(s, r, t) /\ r.cur = s.cur /\ r.lock = s.lock
  BY <1>0, <1>3, <1>4, <1>5, ListSuspendFrame
<1>8. /\ k' = r \/ k' = StartThreadTimer(r, t)
      /\ Turn(t, q) /\ Goto(t, "blocking") /\ alive' = alive
  BY <1>1, <1>4 DEF SuspendsOn
<1>9. /\ Sound(k') /\ k'.list = r.list /\ k'.stat = r.stat /\ k'.err = r.err
      /\ k'.cur = r.cur /\ k'.lock = r.lock
  <2>1. CASE k' = r
    BY <2>1, <1>6
  <2>2. CASE k' = StartThreadTimer(r, t)
    BY <2>2, <1>0, <1>6, StartTimerSound, StartTimerFrame DEF Sound
  <2> QED
    BY <1>8, <2>1, <2>2
<1>10. \A n \in Queue : \A u : Linked(k', n, u) <=> Linked(k, n, u) \/ (n = q /\ u = t)
  BY <1>3, <1>6, <1>9 DEF Linked
<1>11. Suspended(k', t) /\ \A u \in Thread \ {t} : Suspended(k', u) <=> Suspended(k, u)
  <2>1. \A u \in Thread \ {t} : SameActivity(k, k', u)
    BY <1>3, <1>7, <1>9 DEF OthersKeep, SameActivity
  <2> QED
    BY <2>1, <1>6, <1>9 DEF SameActivity, Suspended, SuspendFlag, Active
<1>12. /\ k'.err[t] = "EINTR" /\ \A u \in Thread \ {t} : k'.err[u] = k.err[u]
       /\ k'.cur = t /\ k'.lock = 0
  BY <1>0, <1>3, <1>6, <1>7, <1>9
<1>13. /\ pc'[t] = "blocking" /\ at'[t] = q
       /\ \A u \in Thread \ {t} : pc'[u] = pc[u] /\ at'[u] = at[u]
       /\ pc' \in [Thread -> Location] /\ at' \in [Thread -> Queue \cup {NoList}]
  BY <1>0, <1>2, <1>8 DEF Goto, Turn
<1>14. ASSUME NEW u \in Thread PROVE ThreadInv(u)'
  <2>1. CASE u = t
    BY <2>1, <1>0, <1>2, <1>10, <1>12, <1>13 DEF ThreadInv
  <2>2. CASE u # t
    <3>1. Suspended(k', u) => pc'[u] \in Waiting /\ Linked(k', at'[u], u) /\ k'.err[u] = "EINTR"
      BY <2>2, <1>10, <1>11, <1>12, <1>13, SuspendedFacts
    <3> QED
      BY <2>2, <3>1, <1>0, <1>13 DEF ThreadInv
  <2> QED
    BY <2>1, <2>2
<1>15. RunInv'
  BY <1>12, <1>13 DEF RunInv
<1>16. CallInv'
  BY <1>0, <1>8, <1>9, <1>13, <1>14, <1>15, CallInvNext
<1>17. ASSUME NEW n \in Queue, NEW u PROVE u \in Woken(n)' <=> u \in Woken(n) /\ u # t
  <2>1. CASE u = t
    BY <2>1, <1>12, WokenFacts
  <2>2. CASE u # t
    BY <2>2, <1>10, <1>12, <1>13, WokenFacts
  <2> QED
    BY <2>1, <2>2
<1> QED
  BY <1>8, <1>10, <1>13, <1>16, <1>17 DEF Joins

-----------------------------------------------------------------------------
(* The message queue in a step *)

Hands == [u \in Thread |-> [role |-> IF hold[u] = NoMsg THEN "none" ELSE pc[u], msg |-> hold[u]]]

\* A step of the queue is a step of the abstract queue, or leaves it alone.
AbstractStep == Abstract!Next \/ UNCHANGED Abstract!vars

LEMMA SameAbstract ==
    ASSUME mq'.msgs = mq.msgs, Hands' = Hands
    PROVE  AbstractStep
  BY DEF AbstractStep, Abstract!vars, Hands

NoMoreWait(q) == \A u : Linked(k', q, u) => Linked(k, q, u)

\* The list q is left alone but for threads that go without a message.
Untouched(q) == NoMoreWait(q) /\ Woken(q)' = Woken(q)

\* The cardinalities.
LEMMA ServedSame ==
    ASSUME NEW q, NEW n \in Int, NEW m \in Int, Served(q, n), m <= n,
           NoMoreWait(q), Woken(q) \subseteq Woken(q)'
    PROVE  (\E u : Linked(k', q, u)) => m <= Cardinality(Woken(q)')
<1>1. Cardinality(Woken(q)) <= Cardinality(Woken(q)')
  BY WokenFinite, FS_Subset
<1>2. (\E u : Linked(k', q, u)) => n <= Cardinality(Woken(q))
  BY DEF Served, NoMoreWait
<1> QED
  BY <1>1, <1>2, WokenFinite

LEMMA ServedLess ==
    ASSUME NEW q, NEW n \in Int, NEW m \in Int, Served(q, n), m <= n - 1,
           NoMoreWait(q), NEW t, Woken(q) \ {t} \subseteq Woken(q)'
    PROVE  (\E u : Linked(k', q, u)) => m <= Cardinality(Woken(q)')
<1>1. /\ IsFiniteSet(Woken(q) \ {t})
      /\ Cardinality(Woken(q) \ {t}) \in Nat
      /\ Cardinality(Woken(q) \ {t}) >= Cardinality(Woken(q)) - 1
  <2>1. Cardinality(Woken(q) \ {t})
            = IF t \in Woken(q) THEN Cardinality(Woken(q)) - 1 ELSE Cardinality(Woken(q))
    BY WokenFinite, FS_RemoveElement
  <2>2. IsFiniteSet(Woken(q) \ {t})
    BY WokenFinite, FS_RemoveElement
  <2>3. Cardinality(Woken(q) \ {t}) \in Nat
    BY <2>2, FS_CardinalityType
  <2> QED
    BY <2>1, <2>2, <2>3, WokenFinite
<1>2. Cardinality(Woken(q) \ {t}) <= Cardinality(Woken(q)')
  BY <1>1, WokenFinite, FS_Subset
<1>3. (\E u : Linked(k', q, u)) => n <= Cardinality(Woken(q))
  BY DEF Served, NoMoreWait
<1> QED
  BY <1>1, <1>2, <1>3, WokenFinite

LEMMA ServedMore ==
    ASSUME NEW q, NEW n \in Int, NEW m \in Int, Served(q, n), m <= n + 1,
           NoMoreWait(q), NEW h, h \notin Woken(q), Woken(q) \cup {h} \subseteq Woken(q)'
    PROVE  (\E u : Linked(k', q, u)) => m <= Cardinality(Woken(q)')
<1>1. /\ IsFiniteSet(Woken(q) \cup {h})
      /\ Cardinality(Woken(q) \cup {h}) = Cardinality(Woken(q)) + 1
  BY WokenFinite, FS_AddElement
<1>2. Cardinality(Woken(q) \cup {h}) <= Cardinality(Woken(q)')
  BY <1>1, WokenFinite, FS_Subset
<1>3. (\E u : Linked(k', q, u)) => n <= Cardinality(Woken(q))
  BY DEF Served, NoMoreWait
<1> QED
  BY <1>1, <1>2, <1>3, WokenFinite

LEMMA ServedNone ==
    ASSUME NEW q, NEW m \in Int, m <= 0
    PROVE  (\E u : Linked(k', q, u)) => m <= Cardinality(Woken(q)')
  BY WokenFinite

LEMMA HeldFinite ==
    /\ IsFiniteSet(Held) /\ Cardinality(Held) \in Nat
    /\ IsFiniteSet(Held') /\ Cardinality(Held') \in Nat
<1>1. Held \subseteq Thread /\ Held' \subseteq Thread
  BY DEF Held
<1>2. IsFiniteSet(Held) /\ IsFiniteSet(Held')
  BY <1>1, KernelAssumption, FS_Subset
<1> QED
  BY <1>2, FS_CardinalityType

CallRecord ==
    [time : {"zero", "ticks", "forever"}, flag : SuspendFlag, msg : Msg \cup {NoMsg}]

LEMMA QueueFacts ==
    ASSUME QueueInv
    PROVE  /\ mq \in [msgs : Seq(Msg), free : 0 .. Size]
           /\ mq.msgs \in Seq(Msg) /\ mq.free \in Nat /\ Len(mq.msgs) \in Nat
           /\ hold \in [Thread -> Msg \cup {NoMsg}] /\ call \in [Thread -> CallRecord]
           /\ HoldInv /\ CountInv /\ LifeInv
           /\ Size \in Nat \ {0} /\ NoMsg \notin Msg
<1>1. mq \in [msgs : Seq(Msg), free : 0 .. Size] /\ Size \in Nat \ {0}
  BY MessageQueueAssumption DEF QueueInv, MessageQueueTypeOK
<1>2. mq.msgs \in Seq(Msg) /\ mq.free \in 0 .. Size
  BY <1>1
<1>3. mq.free \in Nat /\ Len(mq.msgs) \in Nat
  BY <1>1, <1>2
<1> QED
  BY <1>1, <1>2, <1>3, MessageQueueAssumption DEF QueueInv, MessageQueueTypeOK, CallRecord

\* The invariant of the queue in the next state, from its parts.  The free list is
\* not too long because the messages are all accounted for.
LEMMA QueueInvNext ==
    ASSUME NEW s \in Seq(Msg), NEW n \in Nat, mq' = [msgs |-> s, free |-> n],
           hold' \in [Thread -> Msg \cup {NoMsg}], call' \in [Thread -> CallRecord],
           HoldInv', LifeInv',
           (\E u : Linked(k', receivers, u)) => Len(s) <= Cardinality(Woken(receivers)'),
           (\E u : Linked(k', senders, u)) => n <= Cardinality(Woken(senders)'),
           n + Len(s) + Cardinality(Held') = Size
    PROVE  QueueInv'
<1>1. n \in 0 .. Size
  <2>1. Len(s) \in Nat /\ Cardinality(Held') \in Nat /\ Size \in Nat
    BY HeldFinite, MessageQueueAssumption
  <2> QED
    BY <2>1
<1>2. MessageQueueTypeOK'
  BY <1>1 DEF MessageQueueTypeOK, CallRecord
<1>3. mq'.msgs = s /\ mq'.free = n
  OBVIOUS
<1>4. CountInv'
  BY <1>3 DEF CountInv, Served
<1> QED
  BY <1>2, <1>4 DEF QueueInv

\* A step outside rt_mq_detach; while the queue is detached it adds nobody.
LEMMA LifeAside ==
    ASSUME QueueInv, NEW t \in Thread, (receivers \in alive') <=> (receivers \in alive),
           \A u \in Thread \ {t} : pc'[u] = pc[u] /\ at'[u] = at[u],
           DetachesQueue(t)' => DetachesQueue(t),
           DetachesQueue(t) => DetachesQueue(t)' \/ \A u : ~ Linked(k', senders, u),
           \/ receivers \in alive
           \/ /\ NoMoreWait(senders) /\ Woken(receivers)' \subseteq Woken(receivers)
              /\ Woken(senders)' \subseteq Woken(senders) /\ hold' = hold
    PROVE  LifeInv'
<1>1. \A u \in Thread : DetachesQueue(u)' => DetachesQueue(u)
  BY DEF DetachesQueue
<1>2. (\E u \in Thread : DetachesQueue(u)) =>
          (\E u \in Thread : DetachesQueue(u)') \/ \A u : ~ Linked(k', senders, u)
  <2>1. \A u \in Thread \ {t} : DetachesQueue(u) => DetachesQueue(u)'
    BY DEF DetachesQueue
  <2> QED
    BY <2>1
<1>3. LifeInv
  BY DEF QueueInv
<1>4. CASE receivers \in alive
  <2>1. \A u \in Thread : ~ DetachesQueue(u)'
    BY <1>1, <1>3, <1>4 DEF LifeInv
  <2> QED
    BY <2>1, <1>4 DEF LifeInv
<1>5. CASE receivers \notin alive
  <2>1. /\ NoMoreWait(senders) /\ Woken(receivers)' \subseteq Woken(receivers)
        /\ Woken(senders)' \subseteq Woken(senders) /\ hold' = hold
    BY <1>5
  <2>2. /\ Woken(receivers) = {} /\ Woken(senders) = {} /\ \A u \in Thread : hold[u] = NoMsg
        /\ (\E u \in Thread : DetachesQueue(u)) \/ \A u : ~ Linked(k, senders, u)
    BY <1>3, <1>5 DEF LifeInv
  <2>3. (\E u \in Thread : DetachesQueue(u)') \/ \A u : ~ Linked(k', senders, u)
    BY <2>1, <2>2, <1>2 DEF NoMoreWait
  <2>4. Woken(receivers)' = {} /\ Woken(senders)' = {} /\ \A u \in Thread : hold'[u] = NoMsg
    BY <2>1, <2>2
  <2> QED
    BY <2>3, <2>4, <1>5 DEF LifeInv
<1> QED
  BY <1>4, <1>5

\* A step that leaves the queue alone.
LEMMA QueueAside ==
    ASSUME QueueInv, NEW t \in Thread, mqvars' = mqvars, LifeInv',
           \A u \in Thread \ {t} : pc'[u] = pc[u] /\ at'[u] = at[u],
           pc'[t] = pc[t] \/ (pc[t] \notin Copying /\ pc'[t] \notin Copying),
           pc'[t] \in Waiting /\ at'[t] = senders => pc[t] \in Waiting /\ at[t] = senders,
           Untouched(receivers), Untouched(senders)
    PROVE  QueueInv' /\ AbstractStep
<1>0. /\ mq' = mq /\ hold' = hold /\ call' = call
      /\ mq \in [msgs : Seq(Msg), free : 0 .. Size]
      /\ mq.msgs \in Seq(Msg) /\ mq.free \in Nat /\ Len(mq.msgs) \in Nat
      /\ hold \in [Thread -> Msg \cup {NoMsg}] /\ call \in [Thread -> CallRecord]
      /\ HoldInv /\ CountInv
  BY QueueFacts DEF mqvars
<1>1. HoldInv'
  BY <1>0 DEF HoldInv
<1>2. (\E u : Linked(k', receivers, u)) => Len(mq.msgs) <= Cardinality(Woken(receivers)')
  <2>1. NoMoreWait(receivers) /\ Woken(receivers)' = Woken(receivers)
    BY DEF Untouched
  <2> QED
    BY <2>1, <1>0 DEF CountInv, Served, NoMoreWait
<1>3. (\E u : Linked(k', senders, u)) => mq.free <= Cardinality(Woken(senders)')
  <2>1. NoMoreWait(senders) /\ Woken(senders)' = Woken(senders)
    BY DEF Untouched
  <2> QED
    BY <2>1, <1>0 DEF CountInv, Served, NoMoreWait
<1>4. Held' = Held /\ mq.free + Len(mq.msgs) + Cardinality(Held) = Size
  BY <1>0 DEF CountInv, Held
<1>5. mq' = [msgs |-> mq.msgs, free |-> mq.free]
  BY <1>0
<1>6. QueueInv'
  BY <1>0, <1>1, <1>2, <1>3, <1>4, <1>5, QueueInvNext
<1>7. \A u \in Thread : hold[u] # NoMsg => pc'[u] = pc[u]
  BY <1>0 DEF HoldInv
<1>8. Hands' = Hands
  BY <1>0, <1>7 DEF Hands
<1> QED
  BY <1>0, <1>6, <1>8, SameAbstract

-----------------------------------------------------------------------------
(* The event in a step *)

WantRecord == [set : SUBSET EventFlag, option : {"AND", "OR", "AND_CLEAR", "OR_CLEAR"}]

\* What FlagGivenOnce says of a step
FlagStep ==
    \A t \in Thread : Cleared(t) =>
        /\ want'[t].set \subseteq want[t].set
        /\ want'[t].set \cap set' = {}
        /\ \A u \in Thread \ {t} : Cleared(u) => want'[t].set \cap want'[u].set = {}

LEMMA ClearedFacts ==
    ASSUME NEW u, Cleared(u)
    PROVE  /\ Linked(k, event, u) /\ ~ Linked(k', event, u) /\ k'.err[u] = "EOK"
           /\ Clears(want[u].option)
  BY DEF Cleared, Waiters, Linked

LEMMA EventFacts ==
    ASSUME EventInv
    PROVE  /\ set \subseteq EventFlag /\ want \in [Thread -> WantRecord]
           /\ \A u \in Thread : Linked(k, event, u) =>
                  want[u].set # {} /\ ~ Satisfied(want[u], set)
  BY DEF EventInv, EventTypeOK, WantRecord

LEMMA EventInvNext ==
    ASSUME set' \subseteq EventFlag, want' \in [Thread -> WantRecord],
           \A u \in Thread : Linked(k', event, u) =>
                  want'[u].set # {} /\ ~ Satisfied(want'[u], set')
    PROVE  EventInv'
  BY DEF EventInv, EventTypeOK, WantRecord, Satisfied, IsAnd

\* With fewer flags nobody is satisfied who was not.
LEMMA FewerFlags ==
    ASSUME NEW w, NEW X, NEW Y, Y \subseteq X, ~ Satisfied(w, X)
    PROVE  ~ Satisfied(w, Y)
  BY DEF Satisfied

\* A step in which no flags are given to a waiting thread.
LEMMA EventAside ==
    ASSUME EventInv, set' \subseteq set, want' \in [Thread -> WantRecord],
           \A u : Linked(k', event, u) => Linked(k, event, u),
           \A u \in Thread : Linked(k', event, u) => want'[u] = want[u],
           \A u \in Thread : Linked(k, event, u) /\ ~ Linked(k', event, u) => k'.err[u] # "EOK"
    PROVE  EventInv' /\ FlagStep
<1>1. /\ set \subseteq EventFlag
      /\ \A u \in Thread : Linked(k, event, u) => want[u].set # {} /\ ~ Satisfied(want[u], set)
  BY EventFacts
<1>2. ASSUME NEW u \in Thread, Linked(k', event, u)
      PROVE  want'[u].set # {} /\ ~ Satisfied(want'[u], set')
  BY <1>1, <1>2, FewerFlags
<1>3. EventInv'
  BY <1>1, <1>2, EventInvNext
<1>4. FlagStep
  BY ClearedFacts DEF FlagStep
<1> QED
  BY <1>3, <1>4

-----------------------------------------------------------------------------
(* Steps that give nobody anything *)

\* What is to be shown of every step
StepOK == ObjInv' /\ FlagStep /\ AbstractStep

\* Threads are resumed, if at all, with an error; the queue is left alone.
LEMMA PlainStep ==
    ASSUME ObjInv, NEW t \in Thread, Goes(t), CurrentStays, CallTypes,
           NEW H, NEW E, Releases(k, k', H, E), E \subseteq {t}, pc'[t] \in Waiting => E = {},
           \A u \in H : k'.err[u] # "EOK",
           set' \subseteq set, want' \in [Thread -> WantRecord],
           \A u \in Thread : Linked(k', event, u) => want'[u] = want[u],
           mqvars' = mqvars, (receivers \in alive') <=> (receivers \in alive),
           DetachesQueue(t)' => DetachesQueue(t),
           DetachesQueue(t) => DetachesQueue(t)' \/ \A u : ~ Linked(k', senders, u),
           pc'[t] = pc[t] \/ (pc[t] \notin Copying /\ pc'[t] \notin Copying),
           pc'[t] \in Waiting \/ (t \notin Woken(receivers) /\ t \notin Woken(senders))
    PROVE  StepOK
<1>0. CallInv /\ EventInv /\ QueueInv
  BY DEF ObjInv
<1>1. CallInv' /\ Moves(H, t)
  BY <1>0, FreeStep
<1>2. ASSUME NEW q \in {receivers, senders} PROVE Untouched(q)
  <2>1. q \in Queue
    BY ObjectLists
  <2>2. /\ \A u : Linked(k', q, u) <=> Linked(k, q, u) /\ u \notin H
        /\ \A u : u \in Woken(q)' <=>
               \/ u \in Woken(q) /\ (u # t \/ pc'[t] \in Waiting)
               \/ u \in H /\ Linked(k, q, u) /\ k'.err[u] = "EOK"
    BY <2>1, <1>1 DEF Moves
  <2>3. \A u : u \in Woken(q)' <=> u \in Woken(q)
    BY <2>2
  <2> QED
    BY <2>2, <2>3 DEF Untouched, NoMoreWait
<1>3. \A u \in Thread \ {t} : pc'[u] = pc[u] /\ at'[u] = at[u]
  BY DEF Goes
<1>4. LifeInv'
  <2>1. hold' = hold
    BY DEF mqvars
  <2> QED
    BY <1>0, <1>2, <1>3, <2>1, LifeAside DEF Untouched
<1>5. pc'[t] \in Waiting /\ at'[t] = senders => pc[t] \in Waiting /\ at[t] = senders
  BY DEF Goes
<1>6. QueueInv' /\ AbstractStep
  BY <1>0, <1>2, <1>3, <1>4, <1>5, QueueAside
<1>7. EventInv' /\ FlagStep
  <2>1. \A u : Linked(k', event, u) <=> Linked(k, event, u) /\ u \notin H
    BY <1>1, ObjectLists DEF Moves
  <2> QED
    BY <2>1, <1>0, EventAside
<1> QED
  BY <1>1, <1>6, <1>7 DEF StepOK, ObjInv

\* A thread that runs and is not at "blocking" is not suspended.
LEMMA RunnerFacts ==
    ASSUME CallInv, NEW t \in Thread, NEW l, l # "blocking", At(t, l)
    PROVE  /\ k.cur = t /\ pc[t] = l /\ ~ Suspended(k, t)
           /\ \A q \in Queue : ~ Linked(k, q, t)
           /\ l \notin Waiting => \A q : t \notin Woken(q)
<1>1. k.cur = t /\ pc[t] = l /\ ~ Suspended(k, t)
  BY CallFacts DEF At, RunInv
<1>2. \A q \in Queue : ~ Linked(k, q, t)
  BY <1>1, EmptyFacts
<1> QED
  BY <1>1, <1>2, WokenFacts

\* t goes on at l, and deals with the list q from now on, or with none.
LEMMA TurnsTo ==
    ASSUME CallInv, NEW t \in Thread, ~ Suspended(k, t), NEW l \in Location \ Waiting,
           NEW q \in ObjectList \cup {NoList}, l \in Emptying => q # NoList,
           Goto(t, l), Turn(t, q), alive' \subseteq Queue
    PROVE  Goes(t) /\ CallTypes /\ pc'[t] = l /\ at'[t] = q
<1>1. pc \in [Thread -> Location] /\ at \in [Thread -> Queue \cup {NoList}]
  BY CallFacts
<1>2. q \in Queue \cup {NoList}
  BY ObjectLists
<1>3. /\ pc'[t] = l /\ at'[t] = q /\ \A u \in Thread \ {t} : pc'[u] = pc[u] /\ at'[u] = at[u]
      /\ pc' \in [Thread -> Location] /\ at' \in [Thread -> Queue \cup {NoList}]
  BY <1>1, <1>2 DEF Goto, Turn
<1> QED
  BY <1>3 DEF Goes, CallTypes

\* t goes on at l and deals with the same list.
LEMMA GoesTo ==
    ASSUME CallInv, NEW t \in Thread, NEW l \in Location, Goto(t, l), at' = at, alive' = alive,
           l \in Waiting <=> pc[t] \in Waiting, l \in Emptying => pc[t] \in Emptying
    PROVE  Goes(t) /\ CallTypes /\ pc'[t] = l
<1>1. /\ pc \in [Thread -> Location] /\ at \in [Thread -> Queue \cup {NoList}]
      /\ alive \subseteq Queue /\ ThreadInv(t)
  BY CallFacts
<1>2. /\ pc'[t] = l /\ \A u \in Thread \ {t} : pc'[u] = pc[u]
      /\ pc' \in [Thread -> Location]
  BY <1>1 DEF Goto
<1> QED
  BY <1>1, <1>2 DEF Goes, CallTypes, ThreadInv

LEMMA NobodyGoes ==
    ASSUME CallInv, NEW t \in Thread, pc' = pc, at' = at, alive' = alive
    PROVE  Goes(t) /\ CallTypes /\ pc'[t] = pc[t] /\ at'[t] = at[t]
<1>1. /\ pc \in [Thread -> Location] /\ at \in [Thread -> Queue \cup {NoList}]
      /\ alive \subseteq Queue /\ ThreadInv(t)
  BY CallFacts
<1> QED
  BY <1>1 DEF Goes, CallTypes, ThreadInv

\* The same with both objects in the state they were in.
LEMMA AsideStep ==
    ASSUME ObjInv, NEW t \in Thread, Goes(t), CurrentStays, CallTypes,
           NEW H, Releases(k, k', H, {}), \A u \in H : k'.err[u] # "EOK",
           eventvars' = eventvars, mqvars' = mqvars, alive' = alive,
           DetachesQueue(t)' => DetachesQueue(t),
           DetachesQueue(t) => DetachesQueue(t)' \/ \A u : ~ Linked(k', senders, u),
           pc'[t] = pc[t] \/ (pc[t] \notin Copying /\ pc'[t] \notin Copying),
           pc'[t] \in Waiting \/ pc[t] \notin Waiting
    PROVE  StepOK
<1>1. set' = set /\ want' = want /\ want \in [Thread -> WantRecord]
  BY EventFacts DEF ObjInv, eventvars
<1>2. pc'[t] \in Waiting \/ (t \notin Woken(receivers) /\ t \notin Woken(senders))
  BY WokenFacts
<1>3. {} \subseteq {t}
  OBVIOUS
<1> QED
  BY <1>1, <1>2, <1>3, PlainStep

-----------------------------------------------------------------------------
(* The steps that concern no object *)

LEMMA Locations ==
    /\ {"run", "resched", "reset", "detach", "detach2"} \subseteq Location \ (Waiting \cup Copying)
    /\ {"blocking", "blocked"} \subseteq Location \ (Copying \cup Emptying)
    /\ Copying \subseteq Location \ (Waiting \cup Emptying)
    /\ {"run", "resched"} \cap Emptying = {} /\ {"detach", "detach2"} \subseteq Emptying
    /\ "reset" \in Emptying /\ "blocked" \in Waiting /\ "blocking" \in Waiting
  BY DEF Location, Waiting, Copying, Emptying

LEMMA SchedulesStep ==
    ASSUME ObjInv, NEW t \in App, BlockedSchedules(t) \/ Reschedule(t),
           eventvars' = eventvars, mqvars' = mqvars
    PROVE  StepOK
<1>0. t \in Thread /\ CallInv /\ Sound(k) /\ k.lock = 0
  BY CallFacts DEF App, ObjInv
<1>1. PICK l \in {"blocked", "run"} :
           /\ k' = rt_schedule(k) /\ Goto(t, l) /\ at' = at /\ alive' = alive
           /\ pc[t] \in {"blocking", "resched"} /\ (l \in Waiting <=> pc[t] \in Waiting)
  BY DEF BlockedSchedules, Reschedule, At, Waiting
<1>2. l \in Location /\ l \notin Emptying /\ l \notin Copying
  BY Locations DEF Copying
<1>3. Goes(t) /\ CallTypes /\ pc'[t] = l
  BY <1>0, <1>1, <1>2, GoesTo
<1>4. Sound(k') /\ Calm(k, k') /\ k'.err = k.err /\ k'.stat[k'.cur] = "RUNNING"
  BY <1>0, <1>1, ScheduleSound, ScheduleFrame, ScheduleRuns
<1>5. Releases(k, k', {}, {}) /\ CurrentStays
  BY <1>4, FreesNobody DEF CurrentStays
<1>6. ~ DetachesQueue(t) /\ ~ DetachesQueue(t)'
  BY <1>1, <1>3 DEF DetachesQueue
<1>7. pc[t] \notin Copying
  BY <1>1 DEF Copying
<1> QED
  BY <1>0, <1>1, <1>2, <1>3, <1>5, <1>6, <1>7, AsideStep

\* The first thread of a list is resumed with an error, or nobody is.
LEMMA ErrorRound ==
    ASSUME CallInv, NEW q \in Queue, NEW r,
           r = IF IsEmpty(q) THEN k ELSE ResumeAllRound(k, q)
    PROVE  \E H : Releases(k, r, H, {}) /\ (\A u \in H : r.err[u] # "EOK") /\ r.cur = k.cur
<1>0. Sound(k)
  BY CallFacts
<1>1. CASE IsEmpty(q)
  <2>1. Releases(k, r, {}, {})
    BY <1>0, <1>1, CalmSame, FreesNobody
  <2> QED
    BY <2>1, <1>1
<1>2. CASE ~ IsEmpty(q)
  <2>1. r = ResumeAllRound(k, q)
    BY <1>2
  <2>2. PICK h \in Thread : Releases(k, r, {h}, {}) /\ r.err[h] = "ERROR" /\ r.cur = k.cur
    BY <2>1, <1>2, RoundFirst
  <2>3. \A u \in {h} : r.err[u] # "EOK"
    BY <2>2
  <2> QED
    BY <2>2, <2>3
<1> QED
  BY <1>1, <1>2

LEMMA EmptyingStep ==
    ASSUME ObjInv, NEW t \in App, ResetResumes(t) \/ DetachTests(t) \/ DetachResumes(t),
           eventvars' = eventvars, mqvars' = mqvars
    PROVE  StepOK
<1>0. /\ t \in Thread /\ CallInv /\ Sound(k) /\ alive \subseteq Queue
      /\ pc \in [Thread -> Location] /\ at \in [Thread -> Queue \cup {NoList}]
  BY CallFacts DEF App, ObjInv
<1>1. /\ alive' = alive /\ k.cur = t /\ pc[t] \in Emptying
      /\ ~ Suspended(k, t) /\ pc[t] \notin Waiting /\ pc[t] \notin Copying
  <2>1. \E l \in Emptying : At(t, l)
    BY DEF ResetResumes, DetachTests, DetachResumes, Emptying
  <2>2. PICK l \in Emptying : At(t, l)
    BY <2>1
  <2>3. l # "blocking" /\ l \notin Waiting /\ l \notin Copying
    BY DEF Emptying, Waiting, Copying
  <2> QED
    BY <2>2, <2>3, <1>0, RunnerFacts DEF ResetResumes, DetachTests, DetachResumes
<1>2. at[t] \in ObjectList /\ at[t] \in Queue
  <2>1. at[t] # NoList /\ at[t] \in ObjectList \cup {NoList}
    BY <1>0, <1>1, CallFacts DEF ThreadInv
  <2> QED
    BY <2>1, ObjectLists
<1>3. CASE ResetResumes(t)
  <2>1. pc[t] = "reset" /\ pc' = pc
    BY <1>3 DEF ResetResumes, At
  <2>2. ~ DetachesQueue(t) /\ ~ DetachesQueue(t)'
    BY <2>1 DEF DetachesQueue
  <2>3. Goto(t, "reset")
    BY <2>1, <1>0 DEF Goto
  <2>4. CASE IsEmpty(at[t])
    <3>1. k' = k /\ Turn(t, Following[at[t]])
      BY <1>3, <2>4 DEF ResetResumes
    <3>2. Following[at[t]] \in ObjectList /\ Following[at[t]] # NoList
      BY <1>2, ObjectLists DEF ObjectList
    <3>3. "reset" \in Location \ Waiting /\ "reset" \notin Copying
      BY Locations
    <3>4. Goes(t) /\ CallTypes /\ pc'[t] = "reset"
      BY <3>1, <3>2, <3>3, <2>3, <1>0, <1>1, TurnsTo
    <3>5. Releases(k, k', {}, {}) /\ CurrentStays
      BY <3>1, <1>0, <1>1, CalmSame, FreesNobody DEF CurrentStays
    <3> QED
      BY <3>3, <3>4, <3>5, <2>2, <1>0, <1>1, AsideStep
  <2>5. CASE ~ IsEmpty(at[t])
    <3>1. k' = ResumeAllRound(k, at[t]) /\ at' = at
      BY <1>3, <2>5 DEF ResetResumes
    <3>2. PICK H : Releases(k, k', H, {}) /\ (\A u \in H : k'.err[u] # "EOK") /\ k'.cur = k.cur
      BY <3>1, <2>5, <1>0, <1>2, ErrorRound
    <3>3. Goes(t) /\ CallTypes
      BY <3>1, <2>1, <1>0, <1>1, NobodyGoes
    <3>4. CurrentStays
      BY <3>2, <1>1 DEF CurrentStays
    <3> QED
      BY <3>2, <3>3, <3>4, <2>1, <2>2, <1>0, <1>1, AsideStep
  <2> QED
    BY <2>4, <2>5
<1>4. CASE DetachTests(t)
  <2>1. pc[t] = "detach" /\ k' = k
    BY <1>4 DEF DetachTests, At
  <2>2. Releases(k, k', {}, {}) /\ CurrentStays
    BY <2>1, <1>0, <1>1, CalmSame, FreesNobody DEF CurrentStays
  <2>3. CASE ~ IsEmpty(at[t])
    <3>1. Goto(t, "detach2") /\ at' = at
      BY <1>4, <2>3 DEF DetachTests
    <3>2. "detach2" \in Location /\ "detach2" \notin Waiting /\ "detach2" \notin Copying
      BY Locations
    <3>3. Goes(t) /\ CallTypes /\ pc'[t] = "detach2"
      BY <3>1, <3>2, <1>0, <1>1, GoesTo
    <3>4. DetachesQueue(t)' <=> DetachesQueue(t)
      BY <3>1, <3>3, <2>1 DEF DetachesQueue
    <3> QED
      BY <3>2, <3>3, <3>4, <2>2, <1>0, <1>1, AsideStep
  <2>4. CASE IsEmpty(at[t]) /\ Following[at[t]] = at[t]
    <3>1. Goto(t, "run") /\ Turn(t, NoList)
      BY <1>4, <2>4 DEF DetachTests, LeavesList
    <3>2. "run" \in Location \ Waiting /\ "run" \notin Copying /\ "run" \notin Emptying
      BY Locations DEF Emptying
    <3>3. Goes(t) /\ CallTypes /\ pc'[t] = "run" /\ at'[t] = NoList
      BY <3>1, <3>2, <1>0, <1>1, TurnsTo
    <3>4. ~ DetachesQueue(t)'
      BY <3>3 DEF DetachesQueue
    <3>5. DetachesQueue(t) => at[t] = senders
      BY <2>4, ObjectLists DEF DetachesQueue
    <3>6. at[t] = senders => \A u : ~ Linked(k', senders, u)
      BY <2>1, <2>4, <1>0, ObjectLists, EmptyFacts
    <3> QED
      BY <3>2, <3>3, <3>4, <3>5, <3>6, <2>2, <1>0, <1>1, AsideStep
  <2>5. CASE IsEmpty(at[t]) /\ Following[at[t]] # at[t]
    <3>1. Turn(t, Following[at[t]]) /\ pc' = pc
      BY <1>4, <2>5 DEF DetachTests
    <3>2. at[t] = receivers /\ Following[at[t]] = senders
      BY <2>5, <1>2, ObjectLists DEF ObjectList
    <3>3. Goto(t, "detach") /\ Turn(t, senders)
      BY <3>1, <3>2, <2>1, <1>0 DEF Goto
    <3>4. "detach" \in Location \ Waiting /\ "detach" \notin Copying
      BY Locations
    <3>5. senders \in ObjectList \cup {NoList} /\ senders # NoList
      BY ObjectLists DEF ObjectList
    <3>6. Goes(t) /\ CallTypes /\ pc'[t] = "detach" /\ at'[t] = senders
      BY <3>3, <3>4, <3>5, <1>0, <1>1, TurnsTo
    <3>7. DetachesQueue(t)' <=> DetachesQueue(t)
      BY <3>2, <3>6, <2>1 DEF DetachesQueue
    <3> QED
      BY <3>4, <3>6, <3>7, <2>2, <1>0, <1>1, AsideStep
  <2> QED
    BY <2>3, <2>4, <2>5
<1>5. CASE DetachResumes(t)
  <2>1. pc[t] = "detach2" /\ Goto(t, "detach") /\ at' = at
    BY <1>5 DEF DetachResumes, At
  <2>2. k' = IF IsEmpty(at[t]) THEN k ELSE ResumeAllRound(k, at[t])
    BY <1>5 DEF DetachResumes
  <2>3. PICK H : Releases(k, k', H, {}) /\ (\A u \in H : k'.err[u] # "EOK") /\ k'.cur = k.cur
    BY <2>2, <1>0, <1>2, ErrorRound
  <2>4. "detach" \in Location /\ "detach" \notin Waiting /\ "detach" \notin Copying
    BY Locations
  <2>5. Goes(t) /\ CallTypes /\ pc'[t] = "detach"
    BY <2>1, <2>4, <1>0, <1>1, GoesTo
  <2>6. CurrentStays
    BY <2>3, <1>1 DEF CurrentStays
  <2>7. DetachesQueue(t)' <=> DetachesQueue(t)
    BY <2>1, <2>5 DEF DetachesQueue
  <2> QED
    BY <2>3, <2>4, <2>5, <2>6, <2>7, <1>0, <1>1, AsideStep
<1> QED
  BY <1>3, <1>4, <1>5

LEMMA CodeStep ==
    ASSUME ObjInv, NEW t \in App,
           \/ Deliver(t)
           \/ \E u \in App : Startup(t, u)
           \/ \E u \in Process, s \in Sig : Kill(t, u, s),
           eventvars' = eventvars, mqvars' = mqvars
    PROVE  StepOK
<1>0. /\ t \in Thread /\ CallInv /\ Sound(k) /\ k \in KernelState /\ k.lock = 0
      /\ \A u \in Thread : ThreadInv(u)
  BY CallFacts DEF App, ObjInv
<1>1. k.cur = t /\ pc[t] = "run" /\ ~ Suspended(k, t) /\ alive' = alive /\ at' = at
  <2>1. At(t, "run") /\ alive' = alive /\ at' = at
    BY DEF Deliver, Startup, Kill
  <2> QED
    BY <2>1, <1>0, RunnerFacts
<1>2. /\ "run" \notin Waiting /\ "run" \notin Copying
      /\ "resched" \in Location /\ "resched" \notin Waiting
      /\ "resched" \notin Copying /\ "resched" \notin Emptying
  BY Locations DEF Emptying
<1>3. ~ DetachesQueue(t)
  BY <1>1 DEF DetachesQueue
<1>4. CASE Deliver(t)
  <2>1. PICK s \in k.sig[t] : k' = [k EXCEPT !.sig[t] = @ \ {s}]
    BY <1>4 DEF Deliver
  <2>2. pc' = pc
    BY <1>4 DEF Deliver
  <2>3. k.sig \in [Thread -> SUBSET Signal]
    BY <1>0 DEF KernelState
  <2>4. [k.sig EXCEPT ![t] = @ \ {s}] \in [Thread -> SUBSET Signal]
    BY <2>3, <1>0
  <2>5. /\ k' \in KernelState /\ k'.list = k.list /\ k'.group = k.group /\ k'.stat = k.stat
        /\ k'.cur = k.cur /\ k'.prio = k.prio /\ k'.timer = k.timer /\ k'.err = k.err
        /\ k'.lock = k.lock
    BY <2>1, <2>4, <1>0 DEF KernelState
  <2>6. Sound(k')
    BY <2>5, <1>0, MiscSound
  <2>7. Calm(k, k') /\ CurrentStays
    BY <2>2, <2>5 DEF Calm, SameActivity, CurrentStays
  <2>8. Releases(k, k', {}, {})
    BY <2>5, <2>6, <2>7, FreesNobody
  <2>9. Goes(t) /\ CallTypes /\ pc'[t] = pc[t]
    BY <2>2, <1>0, <1>1, NobodyGoes
  <2>10. ~ DetachesQueue(t)'
    BY <2>9, <1>1 DEF DetachesQueue
  <2> QED
    BY <2>7, <2>8, <2>9, <2>10, <1>0, <1>1, <1>2, <1>3, AsideStep
<1>5. ASSUME NEW u \in App, Startup(t, u) PROVE StepOK
  <2>1. k.stat[u] = "INIT" /\ k' = rt_thread_startup(k, u) /\ Goto(t, "resched") /\ u \in Thread
    BY <1>5 DEF Startup, App
  <2>2. Sound(k') /\ Wakes(k, k', u) /\ k'.err = k.err /\ k'.cur = k.cur
    BY <2>1, <1>0, StartupSound, StartupFrame
  <2>3. ~ Suspended(k, u)
    BY <2>1 DEF Suspended, SuspendFlag
  <2>4. Releases(k, k', {}, {}) /\ CurrentStays
    BY <2>1, <2>2, <2>3, <1>0, <1>1, FreesNone DEF CurrentStays
  <2>5. Goes(t) /\ CallTypes /\ pc'[t] = "resched"
    BY <2>1, <1>0, <1>1, <1>2, GoesTo
  <2>6. ~ DetachesQueue(t)'
    BY <2>5 DEF DetachesQueue
  <2> QED
    BY <2>4, <2>5, <2>6, <1>0, <1>1, <1>2, <1>3, AsideStep
<1>6. ASSUME NEW u \in Process, NEW s \in Sig, Kill(t, u, s) PROVE StepOK
  <2>1. k' = lwp_thread_kill(k, u, s) /\ pc' = pc
    BY <1>6 DEF Kill
  <2>2. u \in Thread /\ s \in Signal
    BY CallsAssumption DEF App
  <2>3. Sound(k') /\ k'.err = k.err
    BY <2>1, <2>2, <1>0, KillSound, KillFrame
  <2>4. Dispatches(k, k') /\ (Calm(k, k') \/ (Suspended(k, u) /\ Wakes(k, k', u)))
    BY <2>1, <2>2, <1>0, KillFrame
  <2>5. Goes(t) /\ CallTypes /\ pc'[t] = pc[t]
    BY <2>1, <1>0, <1>1, NobodyGoes
  <2>6. CurrentStays
    BY <2>1, <2>4, <1>0 DEF CurrentStays, Dispatches
  <2>7. \E H : Releases(k, k', H, {}) /\ \A v \in H : k'.err[v] # "EOK"
    <3>1. CASE Calm(k, k')
      <4>1. Releases(k, k', {}, {})
        BY <3>1, <2>3, FreesNobody
      <4> QED
        BY <4>1
    <3>2. CASE Suspended(k, u) /\ Wakes(k, k', u)
      <4>1. Releases(k, k', {u}, {})
        BY <3>2, <2>2, <2>3, <1>0, FreesOne
      <4>2. k'.err[u] # "EOK"
        BY <3>2, <2>2, <2>3, <1>0 DEF ThreadInv
      <4> QED
        BY <4>1, <4>2
    <3> QED
      BY <2>4, <3>1, <3>2
  <2>8. ~ DetachesQueue(t)'
    BY <2>5, <1>1 DEF DetachesQueue
  <2> QED
    BY <2>5, <2>6, <2>7, <2>8, <1>0, <1>1, <1>2, <1>3, AsideStep
<1> QED
  BY <1>4, <1>5, <1>6

LEMMA ThreadStepOK ==
    ASSUME ObjInv, NEW t \in App, ThreadStep(t), eventvars' = eventvars, mqvars' = mqvars
    PROVE  StepOK
<1>1. CASE BlockedSchedules(t) \/ Reschedule(t)
  BY <1>1, SchedulesStep
<1>2. CASE ResetResumes(t) \/ DetachTests(t) \/ DetachResumes(t)
  BY <1>2, EmptyingStep
<1>3. CASE \/ Deliver(t)
           \/ \E u \in App : Startup(t, u)
           \/ \E u \in Process, s \in Sig : Kill(t, u, s)
  BY <1>3, CodeStep
<1> QED
  BY <1>1, <1>2, <1>3 DEF ThreadStep

LEMMA InterruptStepOK ==
    ASSUME ObjInv, InterruptStep, eventvars' = eventvars, mqvars' = mqvars
    PROVE  StepOK
<1>0. CallInv /\ Sound(k) /\ k.lock = 0 /\ k.cur \in Thread
  BY CallFacts DEF ObjInv
<1>1. pc' = pc /\ at' = at /\ alive' = alive
  BY DEF InterruptStep, TimeSlice, ThreadTimer
<1>2. \E H : Releases(k, k', H, {}) /\ (\A u \in H : k'.err[u] # "EOK") /\ Dispatches(k, k')
  <2>1. CASE TimeSlice
    <3>1. k' = TimeSliceEnds(k)
      BY <2>1 DEF TimeSlice
    <3>2. Sound(k') /\ Calm(k, k') /\ Dispatches(k, k') /\ k'.err = k.err
      BY <3>1, <1>0, TimeSliceSound, TimeSliceFrame
    <3>3. Releases(k, k', {}, {})
      BY <3>2, FreesNobody
    <3> QED
      BY <3>2, <3>3
  <2>2. ASSUME NEW t \in App, ThreadTimer(t)
        PROVE  \E H : /\ Releases(k, k', H, {}) /\ (\A u \in H : k'.err[u] # "EOK")
                      /\ Dispatches(k, k')
    <3>1. t \in Thread /\ t \in k.timer /\ k' = rt_thread_timeout(k, t)
      BY <2>2 DEF ThreadTimer, App
    <3>2. Sound(k') /\ Wakes(k, k', t) /\ Dispatches(k, k') /\ k'.err[t] = "ETIMEOUT"
      BY <3>1, <1>0, TimeoutSound, TimeoutFrame
    <3>3. Suspended(k, t)
      BY <3>1, <1>0, SoundFacts DEF ThreadOK
    <3>4. Releases(k, k', {t}, {})
      BY <3>1, <3>2, <3>3, <1>0, FreesOne
    <3>5. \A u \in {t} : k'.err[u] # "EOK"
      BY <3>2
    <3> QED
      BY <3>2, <3>4, <3>5
  <2> QED
    BY <2>1, <2>2 DEF InterruptStep
<1>3. PICK t \in Thread : t = k.cur
  BY <1>0
<1>4. Goes(t) /\ CallTypes /\ pc'[t] = pc[t] /\ at'[t] = at[t]
  BY <1>0, <1>1, NobodyGoes
<1>5. CurrentStays
  BY <1>0, <1>1, <1>2 DEF CurrentStays, Dispatches
<1>6. DetachesQueue(t)' <=> DetachesQueue(t)
  BY <1>4 DEF DetachesQueue
<1> QED
  BY <1>1, <1>2, <1>4, <1>5, <1>6, AsideStep

-----------------------------------------------------------------------------
(* The calls of the event but rt_event_send *)

LEMMA UserFacts ==
    ASSUME ObjInv, NEW t \in App, At(t, "run")
    PROVE  /\ t \in Thread /\ CallInv /\ EventInv /\ QueueInv /\ Sound(k)
           /\ k.cur = t /\ pc[t] = "run" /\ ~ Suspended(k, t)
           /\ (\A q \in Queue : ~ Linked(k, q, t)) /\ \A q : t \notin Woken(q)
           /\ ~ DetachesQueue(t)
           /\ "run" \notin Copying /\ "run" \notin Waiting /\ "run" # "blocking"
           /\ "run" \in Location \ Waiting /\ "run" \notin Emptying
<1>1. t \in Thread /\ CallInv /\ EventInv /\ QueueInv
  BY DEF App, ObjInv
<1>2. /\ "run" \notin Copying /\ "run" \notin Waiting /\ "run" # "blocking"
      /\ "run" \in Location \ Waiting /\ "run" \notin Emptying
  BY DEF Copying, Waiting, Location, Emptying
<1>3. /\ k.cur = t /\ pc[t] = "run" /\ ~ Suspended(k, t)
      /\ (\A q \in Queue : ~ Linked(k, q, t)) /\ \A q : t \notin Woken(q)
  BY <1>1, <1>2, RunnerFacts
<1> QED
  BY <1>1, <1>2, <1>3, CallFacts DEF DetachesQueue

\* A call of t ends with an error code in thread->error, or touches the event only.
LEMMA EventCallEnds ==
    ASSUME ObjInv, NEW t \in App, At(t, "run"),
           k' = k \/ \E e \in Error : k' = SetError(k, t, e),
           NEW l \in Location \ (Waiting \cup Copying), NEW q \in {event, NoList},
           l \in Emptying => q # NoList,
           Goto(t, l), Turn(t, q) \/ at' = at, l \in Emptying => Turn(t, q),
           alive' \subseteq Queue, (receivers \in alive') <=> (receivers \in alive),
           set' \subseteq set, want' = want, mqvars' = mqvars
    PROVE  StepOK
<1>0. /\ t \in Thread /\ CallInv /\ EventInv /\ QueueInv /\ Sound(k)
      /\ k.cur = t /\ pc[t] = "run" /\ ~ Suspended(k, t) /\ \A n : t \notin Woken(n)
      /\ ~ DetachesQueue(t) /\ "run" \notin Copying
  BY UserFacts
<1>1. Releases(k, k', {}, {t}) /\ k'.cur = k.cur
  <2>1. CASE k' = k
    BY <2>1, <1>0, CalmSame, FreesNobody
  <2>2. ASSUME NEW e \in Error, k' = SetError(k, t, e)
        PROVE  Releases(k, k', {}, {t}) /\ k'.cur = k.cur
    BY <2>2, <1>0, FreesError
  <2> QED
    BY <2>1, <2>2
<1>2. CurrentStays
  BY <1>0, <1>1 DEF CurrentStays
<1>3. q \in ObjectList \cup {NoList} /\ q \notin {receivers, senders}
  BY ObjectLists DEF ObjectList
<1>4. Goes(t) /\ CallTypes /\ pc'[t] = l /\ ~ DetachesQueue(t)'
  <2>1. CASE Turn(t, q)
    <3>1. Goes(t) /\ CallTypes /\ pc'[t] = l /\ at'[t] = q
      BY <2>1, <1>0, <1>3, TurnsTo
    <3> QED
      BY <3>1, <1>3 DEF DetachesQueue
  <2>2. CASE at' = at /\ ~ Turn(t, q)
    <3>1. l \notin Emptying /\ pc \in [Thread -> Location]
          /\ at \in [Thread -> Queue \cup {NoList}] /\ ThreadInv(t)
      BY <2>2, <1>0, CallFacts
    <3>2. /\ pc'[t] = l /\ \A u \in Thread \ {t} : pc'[u] = pc[u]
          /\ pc' \in [Thread -> Location]
      BY <3>1, <1>0 DEF Goto
    <3>3. Goes(t) /\ CallTypes
      BY <2>2, <3>1, <3>2, <1>0 DEF Goes, CallTypes, ThreadInv
    <3>4. ~ DetachesQueue(t)'
      BY <3>1, <3>2 DEF DetachesQueue, Emptying
    <3> QED
      BY <3>2, <3>3, <3>4
  <2> QED
    BY <2>1, <2>2
<1>5. want' \in [Thread -> WantRecord]
  BY <1>0, EventFacts
<1>6. pc'[t] \notin Waiting /\ pc'[t] \notin Copying
  BY <1>4
<1> QED
  BY <1>0, <1>1, <1>2, <1>4, <1>5, <1>6, PlainStep

LEMMA RecvStep ==
    ASSUME ObjInv, NEW t \in App, NEW s \in (SUBSET EventFlag) \ {{}}, NEW o \in Option,
           NEW w, w = [set |-> s, option |-> o],
           \/ RecvSatisfied(t, w)
           \/ \E time \in Time : RecvNoWait(t, w, time)
           \/ \E time \in Time, flag \in Flag : RecvBlocks(t, w, time, flag),
           mqvars' = mqvars
    PROVE  StepOK
<1>1. At(t, "run")
  BY DEF RecvSatisfied, RecvNoWait, RecvBlocks, Uses
<1>0. /\ t \in Thread /\ CallInv /\ EventInv /\ QueueInv /\ Sound(k)
      /\ k.cur = t /\ pc[t] = "run" /\ ~ Suspended(k, t)
      /\ (\A q \in Queue : ~ Linked(k, q, t)) /\ \A q : t \notin Woken(q)
      /\ ~ DetachesQueue(t) /\ "run" \notin Copying /\ "run" \notin Waiting
      /\ "run" \in Location \ (Waiting \cup Copying) /\ "run" \notin Emptying
  BY <1>1, UserFacts
<1>2. /\ "EOK" \in Error /\ "ETIMEOUT" \in Error /\ "EINTR" \in Error
      /\ pc \in [Thread -> Location] /\ alive \subseteq Queue
      /\ want \in [Thread -> WantRecord] /\ set \subseteq EventFlag
      /\ w \in WantRecord /\ w.set # {}
  <2>1. o \in {"AND", "OR", "AND_CLEAR", "OR_CLEAR"}
    BY EventAssumption
  <2>2. w \in WantRecord /\ w.set # {}
    BY <2>1 DEF WantRecord
  <2> QED
    BY <2>2, <1>0, CallFacts, EventFacts DEF Error
<1>3. pc' = pc => Goto(t, "run")
  BY <1>0, <1>2 DEF Goto
<1>4. CASE RecvSatisfied(t, w)
  <2>1. /\ k' = SetError(k, t, "EOK") /\ set' \subseteq set
        /\ pc' = pc /\ at' = at /\ alive' = alive /\ want' = want
    BY <1>4 DEF RecvSatisfied
  <2> QED
    BY <2>1, <1>0, <1>1, <1>2, <1>3, EventCallEnds
<1>5. ASSUME NEW time \in Time, RecvNoWait(t, w, time) PROVE StepOK
  <2>1. /\ k' = SetError(k, t, "ETIMEOUT") /\ set' = set
        /\ pc' = pc /\ at' = at /\ alive' = alive /\ want' = want
    BY <1>5 DEF RecvNoWait, eventvars
  <2> QED
    BY <2>1, <1>0, <1>1, <1>2, <1>3, EventCallEnds
<1>6. ASSUME NEW time \in Time, NEW flag \in Flag, RecvBlocks(t, w, time, flag) PROVE StepOK
  <2>1. ~ Satisfied(w, set) /\ set' = set /\ flag \in SuspendFlag
    BY <1>6, CallsAssumption DEF RecvBlocks
  <2>2. CASE MayNotSuspend(t, time, flag) /\ want' = want
    <3>1. /\ k' = SetError(k, t, "EINTR") /\ Goto(t, "run") /\ Turn(t, NoList) /\ alive' = alive
      BY <2>2 DEF MayNotSuspend, LeavesList
    <3> QED
      BY <3>1, <2>1, <2>2, <1>0, <1>1, <1>2, EventCallEnds
  <2>3. CASE SuspendsOn(t, event, time, flag) /\ want' = [want EXCEPT ![t] = w]
    <3>1. CallInv' /\ Joins(event, t)
      <4>1. event \in ObjectList
        BY DEF ObjectList
      <4> QED
        BY <4>1, <2>1, <2>3, <1>0, BlockStep
    <3>2. /\ \A n \in Queue : \A u : Linked(k', n, u) <=> Linked(k, n, u) \/ (n = event /\ u = t)
          /\ \A n \in Queue : \A u : u \in Woken(n)' <=> u \in Woken(n)
          /\ pc'[t] = "blocking" /\ at'[t] = event
          /\ \A u \in Thread \ {t} : pc'[u] = pc[u] /\ at'[u] = at[u]
          /\ alive' = alive
      BY <3>1, <1>0 DEF Joins
    <3>3. want'[t] = w /\ want' \in [Thread -> WantRecord]
          /\ \A u \in Thread \ {t} : want'[u] = want[u]
      BY <2>3, <1>0, <1>2
    <3>4. ASSUME NEW u \in Thread, Linked(k', event, u)
          PROVE  want'[u].set # {} /\ ~ Satisfied(want'[u], set')
      <4>1. CASE u = t
        BY <4>1, <3>3, <2>1, <1>2
      <4>2. CASE u # t
        <5>1. Linked(k, event, u)
          BY <4>2, <3>2, <3>4, ObjectLists
        <5> QED
          BY <5>1, <4>2, <3>3, <2>1, <1>0, EventFacts
      <4> QED
        BY <4>1, <4>2
    <3>5. EventInv'
      BY <3>3, <3>4, <2>1, <1>2, EventInvNext
    <3>6. \A u : Linked(k, event, u) => Linked(k', event, u)
      BY <3>2, ObjectLists
    <3>7. FlagStep
      BY <3>6, ClearedFacts DEF FlagStep
    <3>8. Untouched(receivers) /\ Untouched(senders)
      BY <3>2, ObjectLists DEF Untouched, NoMoreWait
    <3>9. hold' = hold /\ ~ DetachesQueue(t)' /\ "blocking" \notin Copying
      BY <3>2 DEF mqvars, DetachesQueue, Copying
    <3>10. LifeInv'
      BY <3>2, <3>8, <3>9, <1>0, LifeAside DEF Untouched
    <3>11. QueueInv' /\ AbstractStep
      BY <3>2, <3>8, <3>9, <3>10, <1>0, ObjectLists, QueueAside
    <3> QED
      BY <3>1, <3>5, <3>7, <3>11 DEF StepOK, ObjInv
  <2> QED
    BY <1>6, <2>2, <2>3 DEF RecvBlocks
<1> QED
  BY <1>4, <1>5, <1>6

LEMMA RecvReturnsStep ==
    ASSUME ObjInv, NEW t \in App, RecvReturns(t), mqvars' = mqvars
    PROVE  StepOK
<1>0. /\ t \in Thread /\ CallInv /\ EventInv /\ QueueInv /\ Sound(k) /\ alive \subseteq Queue
  BY CallFacts DEF App, ObjInv
<1>1. /\ At(t, "blocked") /\ at[t] = event /\ Goto(t, "run") /\ Turn(t, NoList)
      /\ want' = [want EXCEPT ![t] = NoWant] /\ k' = k /\ alive' = alive /\ set' = set
  BY DEF RecvReturns, LeavesList
<1>2. k.cur = t /\ pc[t] = "blocked" /\ ~ Suspended(k, t) /\ \A q \in Queue : ~ Linked(k, q, t)
  BY <1>0, <1>1, RunnerFacts
<1>3. "run" \in Location \ Waiting /\ "run" \notin Copying /\ "blocked" \notin Copying
      /\ "run" \notin Emptying
  BY Locations DEF Emptying
<1>4. Goes(t) /\ CallTypes /\ pc'[t] = "run"
  BY <1>0, <1>1, <1>2, <1>3, TurnsTo
<1>5. Releases(k, k', {}, {}) /\ CurrentStays
  BY <1>0, <1>1, <1>2, CalmSame, FreesNobody DEF CurrentStays
<1>6. NoWant \in WantRecord /\ want \in [Thread -> WantRecord]
  BY <1>0, EventFacts DEF NoWant, WantRecord
<1>7. /\ want' \in [Thread -> WantRecord] /\ \A u \in Thread \ {t} : want'[u] = want[u]
  BY <1>1, <1>6
<1>8. \A u \in Thread : Linked(k', event, u) => want'[u] = want[u]
  BY <1>1, <1>2, <1>7, ObjectLists
<1>9. t \notin Woken(receivers) /\ t \notin Woken(senders)
  BY <1>1, WokenFacts, ObjectLists
<1>10. ~ DetachesQueue(t) /\ ~ DetachesQueue(t)'
  BY <1>2, <1>4 DEF DetachesQueue
<1>11. {} \subseteq {t}
  OBVIOUS
<1> QED
  BY <1>0, <1>1, <1>2, <1>3, <1>4, <1>5, <1>7, <1>8, <1>9, <1>10, <1>11, PlainStep

LEMMA EventControlStep ==
    ASSUME ObjInv, NEW t \in App, mqvars' = mqvars,
           \/ EventResetEnds(t) \/ EventReinit(t)
           \/ (ResetBegins(t, event) \/ DetachBegins(t, event)) /\ UNCHANGED eventvars
    PROVE  StepOK
<1>0. t \in Thread /\ CallInv /\ EventInv /\ alive \subseteq Queue /\ pc \in [Thread -> Location]
      /\ Sound(k) /\ event \in Queue /\ event # receivers
  BY CallFacts, ObjectLists DEF App, ObjInv
<1>1. /\ {"run", "resched", "reset", "detach"} \subseteq Location \ (Waiting \cup Copying)
      /\ "run" \notin Emptying /\ "resched" \notin Emptying
      /\ "reset" \notin Copying /\ "reset" \notin Waiting
  BY Locations
<1>2. CASE EventResetEnds(t)
  <2>1. /\ At(t, "reset") /\ Goto(t, "resched") /\ Turn(t, NoList) /\ k' = k /\ alive' = alive
        /\ set' = {} /\ want' = want
    BY <1>2 DEF EventResetEnds, ResetEnds, LeavesList
  <2>2. k.cur = t /\ pc[t] = "reset" /\ ~ Suspended(k, t) /\ \A q : t \notin Woken(q)
    BY <2>1, <1>0, <1>1, RunnerFacts
  <2>3. Goes(t) /\ CallTypes /\ pc'[t] = "resched"
    BY <2>1, <2>2, <1>0, <1>1, TurnsTo
  <2>4. Releases(k, k', {}, {}) /\ CurrentStays
    BY <2>1, <2>2, <1>0, CalmSame, FreesNobody DEF CurrentStays
  <2>5. ~ DetachesQueue(t) /\ ~ DetachesQueue(t)'
    BY <2>2, <2>3 DEF DetachesQueue
  <2>6. want' \in [Thread -> WantRecord] /\ set' \subseteq set /\ {} \subseteq {t}
    BY <2>1, <1>0, EventFacts
  <2> QED
    BY <2>1, <2>2, <2>3, <2>4, <2>5, <2>6, <1>0, <1>1, PlainStep
<1>3. CASE EventReinit(t)
  <2>1. /\ At(t, "run") /\ alive' = alive \cup {event} /\ k' = k /\ pc' = pc /\ at' = at
        /\ set' = {} /\ want' = want
    BY <1>3 DEF EventReinit, Reinit
  <2>2. Goto(t, "run")
    BY <2>1, <1>0 DEF Goto, At
  <2>3. set' \subseteq set /\ alive' \subseteq Queue /\ (receivers \in alive' <=> receivers \in alive)
    BY <2>1, <1>0
  <2> QED
    BY <2>1, <2>2, <2>3, <1>1, EventCallEnds
<1>4. CASE ResetBegins(t, event) /\ UNCHANGED eventvars
  <2>1. /\ At(t, "run") /\ Turn(t, event) /\ Goto(t, "reset") /\ k' = k /\ alive' = alive
        /\ set' = set /\ want' = want
    BY <1>4 DEF ResetBegins, Uses, eventvars
  <2>2. event # NoList
    BY ObjectLists
  <2> QED
    BY <2>1, <2>2, <1>0, <1>1, EventCallEnds
<1>5. CASE DetachBegins(t, event) /\ UNCHANGED eventvars
  <2>1. /\ At(t, "run") /\ Turn(t, event) /\ Goto(t, "detach") /\ k' = k
        /\ alive' = alive \ {event} /\ set' = set /\ want' = want
    BY <1>5 DEF DetachBegins, Uses, eventvars
  <2>2. event # NoList /\ alive' \subseteq Queue /\ (receivers \in alive' <=> receivers \in alive)
    BY <2>1, <1>0, ObjectLists
  <2> QED
    BY <2>1, <2>2, <1>0, <1>1, EventCallEnds
<1> QED
  BY <1>2, <1>3, <1>4, <1>5

-----------------------------------------------------------------------------
(* The calls of the message queue *)

\* The event is left alone, and nobody on its list is resumed without an error.
LEMMA EventKept ==
    ASSUME EventInv, eventvars' = eventvars, NEW H, NEW t, Moves(H, t),
           \A u \in H : Linked(k, event, u) => k'.err[u] # "EOK"
    PROVE  EventInv' /\ FlagStep
<1>1. set' = set /\ want' = want /\ want \in [Thread -> WantRecord]
  BY EventFacts DEF eventvars
<1>2. \A u : Linked(k', event, u) <=> Linked(k, event, u) /\ u \notin H
  BY ObjectLists DEF Moves
<1> QED
  BY <1>1, <1>2, EventAside

\* What a step of t with the messages does: it takes one into its hands ...
LEMMA HoldsMore ==
    ASSUME QueueInv, NEW t \in Thread, hold[t] = NoMsg, NEW m \in Msg, NEW l \in Copying,
           hold' = [hold EXCEPT ![t] = m], pc'[t] = l,
           \A u \in Thread \ {t} : pc'[u] = pc[u]
    PROVE  /\ Cardinality(Held') = Cardinality(Held) + 1
           /\ hold' \in [Thread -> Msg \cup {NoMsg}] /\ Abstract!Picks(t, l, m)
<1>0. hold \in [Thread -> Msg \cup {NoMsg}] /\ NoMsg \notin Msg
  BY QueueFacts
<1>1. /\ hold' \in [Thread -> Msg \cup {NoMsg}] /\ hold'[t] = m /\ m # NoMsg
      /\ \A u \in Thread \ {t} : hold'[u] = hold[u]
  BY <1>0
<1>2. Held' = Held \cup {t} /\ t \notin Held
  BY <1>1 DEF Held
<1>3. Cardinality(Held') = Cardinality(Held) + 1
  BY <1>2, HeldFinite, FS_AddElement
<1>4. Hands[t] = [role |-> "none", msg |-> NoMsg]
  BY DEF Hands
<1>5. Hands' = [Hands EXCEPT ![t] = [role |-> l, msg |-> m]]
  BY <1>1 DEF Hands
<1>6. Abstract!Picks(t, l, m)
  BY <1>4, <1>5 DEF Abstract!Picks, Abstract!Nothing, Hands
<1> QED
  BY <1>1, <1>3, <1>6

\* ... or gives it out of its hands.
LEMMA HoldsLess ==
    ASSUME QueueInv, NEW t \in Thread, NEW l \in Copying, pc[t] = l,
           hold' = [hold EXCEPT ![t] = NoMsg],
           \A u \in Thread \ {t} : pc'[u] = pc[u]
    PROVE  /\ Cardinality(Held') = Cardinality(Held) - 1 /\ hold[t] \in Msg
           /\ hold' \in [Thread -> Msg \cup {NoMsg}]
           /\ Abstract!Holds(t, l) /\ Abstract!Drops(t) /\ Hands[t].msg = hold[t]
<1>0. hold \in [Thread -> Msg \cup {NoMsg}] /\ NoMsg \notin Msg /\ HoldInv
  BY QueueFacts
<1>1. /\ hold' \in [Thread -> Msg \cup {NoMsg}] /\ hold'[t] = NoMsg
      /\ \A u \in Thread \ {t} : hold'[u] = hold[u]
  BY <1>0
<1>2. hold[t] # NoMsg /\ hold[t] \in Msg
  BY <1>0 DEF HoldInv
<1>3. Held' = Held \ {t} /\ t \in Held
  BY <1>1, <1>2 DEF Held
<1>4. Cardinality(Held') = Cardinality(Held) - 1
  BY <1>3, HeldFinite, FS_RemoveElement
<1>5. Hands[t] = [role |-> l, msg |-> hold[t]]
  BY <1>2 DEF Hands
<1>6. Hands' = [Hands EXCEPT ![t] = [role |-> "none", msg |-> NoMsg]]
  BY <1>1 DEF Hands
<1>7. Abstract!Holds(t, l) /\ Abstract!Drops(t)
  BY <1>5, <1>6 DEF Abstract!Holds, Abstract!Drops, Abstract!Nothing, Hands
<1> QED
  BY <1>1, <1>2, <1>4, <1>5, <1>7

\* A free message leaves room in the abstract queue.
LEMMA FreeIsRoom ==
    ASSUME QueueInv, mq.free > 0
    PROVE  Abstract!HasRoom
<1>1. {u \in Thread : Hands[u] # [role |-> "none", msg |-> NoMsg]} = Held
  BY DEF Hands, Held
<1>2. Len(mq.msgs) + Cardinality(Held) < Size
  <2>1. mq.free + Len(mq.msgs) + Cardinality(Held) = Size
    BY QueueFacts DEF CountInv
  <2> QED
    BY <2>1, QueueFacts, HeldFinite
<1>3. \A S : Abstract!Cardinality(S) = Cardinality(S)
  BY DEF Abstract!Cardinality, Cardinality
<1> QED
  BY <1>1, <1>2, <1>3 DEF Abstract!HasRoom, Abstract!Nothing, Hands

\* Somebody who may send, or receive, and is not one of those woken on the other
\* side.
Acts(t, other) ==
    /\ receivers \in alive /\ k.cur = t /\ ~ Suspended(k, t)
    /\ pc[t] \in {"run", "blocked"} /\ t \notin Woken(other)

LEMMA UserActs ==
    ASSUME ObjInv, NEW t \in App, Uses(t, receivers)
    PROVE  Acts(t, receivers) /\ Acts(t, senders)
<1>1. At(t, "run") /\ receivers \in alive
  BY DEF Uses
<1> QED
  BY <1>1, UserFacts DEF Acts

LEMMA TrierActs ==
    ASSUME ObjInv, NEW t \in App, NEW q \in {receivers, senders}, TriesAgain(t, q)
    PROVE  /\ \A other \in {receivers, senders} \ {q} : Acts(t, other)
           /\ q = senders => call[t].msg \in Msg
<1>0. t \in Thread /\ CallInv /\ QueueInv /\ q \in Queue
  BY ObjectLists DEF ObjInv, App
<1>1. At(t, "blocked") /\ at[t] = q /\ k.err[t] = "EOK" /\ "blocked" # "blocking"
  BY DEF TriesAgain
<1>2. k.cur = t /\ pc[t] = "blocked" /\ ~ Suspended(k, t) /\ ~ Linked(k, q, t)
  BY <1>0, <1>1, RunnerFacts
<1>3. t \in Woken(q) /\ pc[t] \in Waiting
  BY <1>0, <1>1, <1>2, WokenFacts DEF Waiting
<1>4. receivers \in alive
  BY <1>0, <1>3, QueueFacts DEF LifeInv
<1>5. \A other \in {receivers, senders} \ {q} : t \notin Woken(other)
  BY <1>1, WokenFacts
<1>6. q = senders => call[t].msg \in Msg
  BY <1>0, <1>1, <1>3, QueueFacts DEF HoldInv
<1> QED
  BY <1>2, <1>4, <1>5, <1>6 DEF Acts

LEMMA NoCallType == NoCall \in CallRecord
  BY DEF NoCall, CallRecord, SuspendFlag

\* t leaves the loop of a call and goes on at l, with no effect on other threads.
LEMMA LeavesStep ==
    ASSUME ObjInv, NEW t \in Thread, ~ Suspended(k, t), pc[t] \in {"run", "blocked"}, k.cur = t,
           NEW l \in Location \ (Waiting \cup Emptying), LeavesList(t, l), alive' = alive,
           k' = k \/ \E e \in Error : k' = SetError(k, t, e), eventvars' = eventvars
    PROVE  /\ CallInv' /\ EventInv' /\ FlagStep
           /\ pc'[t] = l /\ at'[t] = NoList
           /\ \A u \in Thread \ {t} : pc'[u] = pc[u] /\ at'[u] = at[u]
           /\ \A q \in {receivers, senders} : NoMoreWait(q) /\ Woken(q)' = Woken(q) \ {t}
           /\ ~ DetachesQueue(t) /\ ~ DetachesQueue(t)'
<1>0. CallInv /\ EventInv /\ Sound(k) /\ alive \subseteq Queue
  BY CallFacts DEF ObjInv
<1>1. Releases(k, k', {}, {t}) /\ k'.cur = k.cur
  <2>1. CASE k' = k
    BY <2>1, <1>0, CalmSame, FreesNobody
  <2>2. ASSUME NEW e \in Error, k' = SetError(k, t, e)
        PROVE  Releases(k, k', {}, {t}) /\ k'.cur = k.cur
    BY <2>2, <1>0, FreesError
  <2> QED
    BY <2>1, <2>2
<1>2. Goes(t) /\ CallTypes /\ pc'[t] = l /\ at'[t] = NoList
  <2>1. Goto(t, l) /\ Turn(t, NoList)
    BY DEF LeavesList
  <2> QED
    BY <2>1, <1>0, TurnsTo
<1>3. CurrentStays
  BY <1>1 DEF CurrentStays
<1>4. CallInv' /\ Moves({}, t)
  BY <1>0, <1>1, <1>2, <1>3, FreeStep
<1>5. EventInv' /\ FlagStep
  BY <1>0, <1>4, EventKept
<1>6. ASSUME NEW q \in {receivers, senders} PROVE NoMoreWait(q) /\ Woken(q)' = Woken(q) \ {t}
  <2>1. /\ \A u : Linked(k', q, u) <=> Linked(k, q, u)
        /\ \A u : u \in Woken(q)' <=> u \in Woken(q) /\ u # t
    BY <1>2, <1>4, ObjectLists DEF Moves
  <2> QED
    BY <2>1 DEF NoMoreWait
<1>7. ~ DetachesQueue(t) /\ ~ DetachesQueue(t)'
  BY <1>2 DEF DetachesQueue, Emptying
<1> QED
  BY <1>2, <1>4, <1>5, <1>6, <1>7 DEF Goes

\* A sender takes a free message.
LEMMA TakesFreeStep ==
    ASSUME ObjInv, NEW t \in App, Acts(t, receivers), NEW m \in Msg,
           NEW l \in {"copyin", "urgent"}, TakesFree(t, m, l), eventvars' = eventvars
    PROVE  StepOK
<1>0. /\ t \in Thread /\ QueueInv /\ receivers \in alive /\ k.cur = t /\ ~ Suspended(k, t)
      /\ pc[t] \in {"run", "blocked"} /\ t \notin Woken(receivers)
      /\ mq \in [msgs : Seq(Msg), free : 0 .. Size]
      /\ mq.msgs \in Seq(Msg) /\ mq.free \in Nat /\ Len(mq.msgs) \in Nat
      /\ call \in [Thread -> CallRecord] /\ HoldInv /\ CountInv
  BY QueueFacts DEF App, ObjInv, Acts
<1>1. /\ mq.free > 0 /\ mq' = [mq EXCEPT !.free = @ - 1] /\ hold' = [hold EXCEPT ![t] = m]
      /\ call' = [call EXCEPT ![t] = NoCall] /\ LeavesList(t, l) /\ k' = k /\ alive' = alive
  BY DEF TakesFree
<1>2. l \in Copying /\ l \in Location \ (Waiting \cup Emptying) /\ pc[t] \notin Copying
      /\ l \notin Waiting
  BY <1>0, Locations DEF Copying, Waiting
<1>3. /\ CallInv' /\ EventInv' /\ FlagStep
      /\ pc'[t] = l /\ at'[t] = NoList
      /\ \A u \in Thread \ {t} : pc'[u] = pc[u] /\ at'[u] = at[u]
      /\ \A q \in {receivers, senders} : NoMoreWait(q) /\ Woken(q)' = Woken(q) \ {t}
      /\ ~ DetachesQueue(t) /\ ~ DetachesQueue(t)'
  BY <1>0, <1>1, <1>2, LeavesStep
<1>4. hold[t] = NoMsg
  BY <1>0, <1>2 DEF HoldInv
<1>5. /\ Cardinality(Held') = Cardinality(Held) + 1
      /\ hold' \in [Thread -> Msg \cup {NoMsg}] /\ Abstract!Picks(t, l, m)
  BY <1>0, <1>1, <1>2, <1>3, <1>4, HoldsMore
<1>6. mq' = [msgs |-> mq.msgs, free |-> mq.free - 1] /\ mq.free - 1 \in Nat
  BY <1>0, <1>1
<1>7. call' \in [Thread -> CallRecord] /\ \A u \in Thread \ {t} : call'[u] = call[u]
  BY <1>0, <1>1, NoCallType
<1>8. HoldInv'
  <2>1. hold'[t] = m /\ m # NoMsg /\ \A u \in Thread \ {t} : hold'[u] = hold[u]
    BY <1>0, <1>1, QueueFacts
  <2> QED
    BY <2>1, <1>0, <1>2, <1>3, <1>7 DEF HoldInv
<1>9. LifeInv'
  BY <1>0, <1>1, <1>3, LifeAside
<1>10. (\E u : Linked(k', receivers, u)) => Len(mq.msgs) <= Cardinality(Woken(receivers)')
  <2>1. Woken(receivers) \subseteq Woken(receivers)' /\ NoMoreWait(receivers)
    BY <1>0, <1>3
  <2> QED
    BY <2>1, <1>0, ServedSame DEF CountInv
<1>11. (\E u : Linked(k', senders, u)) => mq.free - 1 <= Cardinality(Woken(senders)')
  <2>1. Woken(senders) \ {t} \subseteq Woken(senders)' /\ NoMoreWait(senders)
    BY <1>3
  <2>2. PICK n \in Int, i \in Int : n = mq.free /\ i = mq.free - 1 /\ i <= n - 1
    BY <1>0
  <2>3. Served(senders, n)
    BY <2>2, <1>0 DEF CountInv
  <2>4. (\E u : Linked(k', senders, u)) => i <= Cardinality(Woken(senders)')
    BY <2>1, <2>2, <2>3, ServedLess
  <2> QED
    BY <2>2, <2>4
<1>12. (mq.free - 1) + Len(mq.msgs) + Cardinality(Held') = Size
  BY <1>0, <1>5, HeldFinite DEF CountInv
<1>13. QueueInv'
  BY <1>0, <1>5, <1>6, <1>7, <1>8, <1>9, <1>10, <1>11, <1>12, QueueInvNext
<1>14. AbstractStep
  <2>1. Abstract!HasRoom
    BY <1>0, <1>1, FreeIsRoom
  <2>2. mq'.msgs = mq.msgs
    BY <1>6
  <2>3. Abstract!Offer(t, m)
    BY <2>1, <2>2, <1>5 DEF Abstract!Offer
  <2> QED
    BY <2>3, <1>0 DEF AbstractStep, Abstract!Next
<1> QED
  BY <1>3, <1>13, <1>14 DEF StepOK, ObjInv

\* A receiver takes the first message of the queue.
LEMMA UnlinksStep ==
    ASSUME ObjInv, NEW t \in App, Acts(t, senders), Unlinks(t), eventvars' = eventvars
    PROVE  StepOK
<1>0. /\ t \in Thread /\ QueueInv /\ receivers \in alive /\ k.cur = t /\ ~ Suspended(k, t)
      /\ pc[t] \in {"run", "blocked"} /\ t \notin Woken(senders)
      /\ mq \in [msgs : Seq(Msg), free : 0 .. Size]
      /\ mq.msgs \in Seq(Msg) /\ mq.free \in Nat /\ Len(mq.msgs) \in Nat
      /\ call \in [Thread -> CallRecord] /\ HoldInv /\ CountInv
  BY QueueFacts DEF App, ObjInv, Acts
<1>1. /\ mq.msgs # <<>> /\ mq' = [mq EXCEPT !.msgs = Tail(@)]
      /\ hold' = [hold EXCEPT ![t] = Head(mq.msgs)]
      /\ call' = [call EXCEPT ![t] = NoCall] /\ LeavesList(t, "copyout") /\ k' = k
      /\ alive' = alive
  BY DEF Unlinks
<1>2. "copyout" \in Copying /\ "copyout" \in Location \ (Waiting \cup Emptying)
      /\ pc[t] \notin Copying /\ "copyout" \notin Waiting
  BY <1>0, Locations DEF Copying, Waiting
<1>3. /\ CallInv' /\ EventInv' /\ FlagStep
      /\ pc'[t] = "copyout" /\ at'[t] = NoList
      /\ \A u \in Thread \ {t} : pc'[u] = pc[u] /\ at'[u] = at[u]
      /\ \A q \in {receivers, senders} : NoMoreWait(q) /\ Woken(q)' = Woken(q) \ {t}
      /\ ~ DetachesQueue(t) /\ ~ DetachesQueue(t)'
  BY <1>0, <1>1, <1>2, LeavesStep
<1>4. hold[t] = NoMsg
  BY <1>0, <1>2 DEF HoldInv
<1>5. Head(mq.msgs) \in Msg /\ Tail(mq.msgs) \in Seq(Msg) /\ Len(Tail(mq.msgs)) = Len(mq.msgs) - 1
      /\ Len(Tail(mq.msgs)) \in Nat
  BY <1>0, <1>1
<1>6. /\ Cardinality(Held') = Cardinality(Held) + 1
      /\ hold' \in [Thread -> Msg \cup {NoMsg}] /\ Abstract!Picks(t, "copyout", Head(mq.msgs))
  <2>1. PICK m \in Msg : m = Head(mq.msgs)
    BY <1>5
  <2>2. hold' = [hold EXCEPT ![t] = m] /\ "copyout" \in Copying /\ pc'[t] = "copyout"
        /\ \A u \in Thread \ {t} : pc'[u] = pc[u]
    BY <2>1, <1>1, <1>2, <1>3
  <2>3. /\ Cardinality(Held') = Cardinality(Held) + 1
        /\ hold' \in [Thread -> Msg \cup {NoMsg}] /\ Abstract!Picks(t, "copyout", m)
    BY <2>2, <1>0, <1>4, HoldsMore
  <2> QED
    BY <2>1, <2>3 DEF Abstract!Picks
<1>7. mq' = [msgs |-> Tail(mq.msgs), free |-> mq.free]
  BY <1>0, <1>1
<1>8. call' \in [Thread -> CallRecord] /\ \A u \in Thread \ {t} : call'[u] = call[u]
  BY <1>0, <1>1, NoCallType
<1>9. HoldInv'
  <2>1. hold'[t] = Head(mq.msgs) /\ Head(mq.msgs) # NoMsg
        /\ \A u \in Thread \ {t} : hold'[u] = hold[u]
    BY <1>0, <1>1, <1>5, QueueFacts
  <2> QED
    BY <2>1, <1>0, <1>2, <1>3, <1>8 DEF HoldInv
<1>10. LifeInv'
  BY <1>0, <1>1, <1>3, LifeAside
<1>11. (\E u : Linked(k', senders, u)) => mq.free <= Cardinality(Woken(senders)')
  <2>1. Woken(senders) \subseteq Woken(senders)' /\ NoMoreWait(senders)
    BY <1>0, <1>3
  <2> QED
    BY <2>1, <1>0, ServedSame DEF CountInv
<1>12. (\E u : Linked(k', receivers, u)) => Len(Tail(mq.msgs)) <= Cardinality(Woken(receivers)')
  <2>1. Woken(receivers) \ {t} \subseteq Woken(receivers)' /\ NoMoreWait(receivers)
    BY <1>3
  <2>2. PICK n \in Int, i \in Int :
             n = Len(mq.msgs) /\ i = Len(Tail(mq.msgs)) /\ i <= n - 1
    BY <1>0, <1>5
  <2>3. Served(receivers, n)
    BY <2>2, <1>0 DEF CountInv
  <2>4. (\E u : Linked(k', receivers, u)) => i <= Cardinality(Woken(receivers)')
    BY <2>1, <2>2, <2>3, ServedLess
  <2> QED
    BY <2>2, <2>4
<1>13. mq.free + Len(Tail(mq.msgs)) + Cardinality(Held') = Size
  BY <1>0, <1>5, <1>6, HeldFinite DEF CountInv
<1>14. QueueInv'
  BY <1>0, <1>5, <1>6, <1>7, <1>8, <1>9, <1>10, <1>11, <1>12, <1>13, QueueInvNext
<1>15. AbstractStep
  <2>1. mq'.msgs = Tail(mq.msgs)
    BY <1>7
  <2>2. Abstract!Take(t)
    BY <2>1, <1>1, <1>6 DEF Abstract!Take
  <2> QED
    BY <2>2, <1>0 DEF AbstractStep, Abstract!Next
<1> QED
  BY <1>3, <1>14, <1>15 DEF StepOK, ObjInv

\* A call ends without a message because there was none, or no room: nobody is owed
\* anything on the side of the caller.
LEMMA GivesUpStep ==
    ASSUME ObjInv, NEW t \in App, NEW other \in {receivers, senders}, Acts(t, other),
           IF other = receivers THEN mq.free = 0 ELSE mq.msgs = <<>>,
           k' = k \/ \E e \in Error : k' = SetError(k, t, e),
           LeavesList(t, "run"), call' = [call EXCEPT ![t] = NoCall],
           alive' = alive, mq' = mq, hold' = hold, eventvars' = eventvars
    PROVE  StepOK
<1>0. /\ t \in Thread /\ QueueInv /\ receivers \in alive /\ k.cur = t /\ ~ Suspended(k, t)
      /\ pc[t] \in {"run", "blocked"} /\ t \notin Woken(other)
      /\ mq \in [msgs : Seq(Msg), free : 0 .. Size]
      /\ mq.msgs \in Seq(Msg) /\ mq.free \in Nat /\ Len(mq.msgs) \in Nat
      /\ hold \in [Thread -> Msg \cup {NoMsg}]
      /\ call \in [Thread -> CallRecord] /\ HoldInv /\ CountInv
  BY QueueFacts DEF App, ObjInv, Acts
<1>1. "run" \in Location \ (Waiting \cup Emptying) /\ "run" \notin Copying /\ pc[t] \notin Copying
      /\ "run" \notin Waiting
  BY <1>0, Locations DEF Copying, Emptying
<1>2. /\ CallInv' /\ EventInv' /\ FlagStep
      /\ pc'[t] = "run" /\ at'[t] = NoList
      /\ \A u \in Thread \ {t} : pc'[u] = pc[u] /\ at'[u] = at[u]
      /\ \A q \in {receivers, senders} : NoMoreWait(q) /\ Woken(q)' = Woken(q) \ {t}
      /\ ~ DetachesQueue(t) /\ ~ DetachesQueue(t)'
  BY <1>0, <1>1, LeavesStep
<1>3. call' \in [Thread -> CallRecord] /\ \A u \in Thread \ {t} : call'[u] = call[u]
  BY <1>0, NoCallType
<1>4. HoldInv'
  BY <1>0, <1>1, <1>2, <1>3 DEF HoldInv
<1>5. LifeInv'
  BY <1>0, <1>2, LifeAside
<1>6. (\E u : Linked(k', receivers, u)) => Len(mq.msgs) <= Cardinality(Woken(receivers)')
  <2>1. CASE other = receivers
    <3>1. Woken(receivers) \subseteq Woken(receivers)' /\ NoMoreWait(receivers)
      BY <2>1, <1>0, <1>2
    <3> QED
      BY <3>1, <1>0, ServedSame DEF CountInv
  <2>2. CASE other # receivers
    <3>1. Len(mq.msgs) = 0
      BY <2>2
    <3> QED
      BY <3>1, <1>0, ServedNone
  <2> QED
    BY <2>1, <2>2
<1>7. (\E u : Linked(k', senders, u)) => mq.free <= Cardinality(Woken(senders)')
  <2>1. CASE other = receivers
    BY <2>1, <1>0, ServedNone
  <2>2. CASE other = senders
    <3>1. Woken(senders) \subseteq Woken(senders)' /\ NoMoreWait(senders)
      BY <2>2, <1>0, <1>2
    <3> QED
      BY <3>1, <1>0, ServedSame DEF CountInv
  <2> QED
    BY <2>1, <2>2
<1>8. Held' = Held /\ mq.free + Len(mq.msgs) + Cardinality(Held) = Size
  BY <1>0 DEF CountInv, Held
<1>9. mq' = [msgs |-> mq.msgs, free |-> mq.free]
  BY <1>0
<1>10. QueueInv'
  BY <1>0, <1>3, <1>4, <1>5, <1>6, <1>7, <1>8, <1>9, QueueInvNext
<1>11. AbstractStep
  <2>1. \A u \in Thread : hold[u] # NoMsg => pc'[u] = pc[u]
    BY <1>0, <1>1, <1>2 DEF HoldInv
  <2>2. Hands' = Hands
    BY <2>1 DEF Hands
  <2> QED
    BY <2>2, SameAbstract
<1> QED
  BY <1>2, <1>10, <1>11 DEF StepOK, ObjInv

\* A call finds nothing to take and waits, or may not wait because of a signal.
LEMMA WaitsStep ==
    ASSUME ObjInv, NEW t \in App, NEW q \in {receivers, senders},
           NEW other \in {receivers, senders} \ {q}, Acts(t, other),
           IF other = receivers THEN mq.free = 0 ELSE mq.msgs = <<>>,
           NEW m \in Msg \cup {NoMsg}, q = senders => m \in Msg,
           NEW time \in {"zero", "ticks", "forever"}, NEW flag \in SuspendFlag,
           Waits(t, q, m, time, flag), eventvars' = eventvars
    PROVE  StepOK
<1>0. /\ t \in Thread /\ CallInv /\ EventInv /\ QueueInv /\ receivers \in alive
      /\ k.cur = t /\ ~ Suspended(k, t)
      /\ pc[t] \in {"run", "blocked"} /\ t \notin Woken(other)
      /\ mq \in [msgs : Seq(Msg), free : 0 .. Size]
      /\ mq.msgs \in Seq(Msg) /\ mq.free \in Nat /\ Len(mq.msgs) \in Nat
      /\ hold \in [Thread -> Msg \cup {NoMsg}]
      /\ call \in [Thread -> CallRecord] /\ HoldInv /\ CountInv
  BY QueueFacts DEF App, ObjInv, Acts
<1>1. mq' = mq /\ hold' = hold
  BY DEF Waits
<1>2. CASE MayNotSuspend(t, time, flag) /\ call' = [call EXCEPT ![t] = NoCall]
  <2>1. k' = SetError(k, t, "EINTR") /\ LeavesList(t, "run") /\ alive' = alive
    BY <1>2 DEF MayNotSuspend
  <2>2. "EINTR" \in Error
    BY DEF Error
  <2>3. \E e \in Error : k' = SetError(k, t, e)
    BY <2>1, <2>2
  <2> QED
    BY <2>1, <2>3, <1>1, <1>2, GivesUpStep
<1>3. CASE /\ SuspendsOn(t, q, time, flag)
           /\ call' = [call EXCEPT ![t] = [time |-> time, flag |-> flag, msg |-> m]]
  <2>1. CallInv' /\ Joins(q, t)
    <3>1. q \in ObjectList
      BY DEF ObjectList
    <3> QED
      BY <3>1, <1>0, <1>3, BlockStep
  <2>2. /\ \A n \in Queue : \A u : Linked(k', n, u) <=> Linked(k, n, u) \/ (n = q /\ u = t)
        /\ \A n \in Queue : \A u : u \in Woken(n)' <=> u \in Woken(n) /\ u # t
        /\ pc'[t] = "blocking" /\ at'[t] = q
        /\ \A u \in Thread \ {t} : pc'[u] = pc[u] /\ at'[u] = at[u]
        /\ alive' = alive
    BY <2>1 DEF Joins
  <2>3. \A u : Linked(k', event, u) <=> Linked(k, event, u)
    BY <2>2, ObjectLists
  <2>4. EventInv' /\ FlagStep
    <3>1. set' = set /\ want' = want /\ want \in [Thread -> WantRecord]
      BY <1>0, EventFacts DEF eventvars
    <3> QED
      BY <3>1, <2>3, <1>0, EventAside
  <2>5. /\ call' \in [Thread -> CallRecord] /\ call'[t].msg = m
        /\ \A u \in Thread \ {t} : call'[u] = call[u]
    <3>1. PICK c : c = [time |-> time, flag |-> flag, msg |-> m]
      OBVIOUS
    <3>2. c \in CallRecord /\ c.msg = m
      BY <3>1 DEF CallRecord
    <3> QED
      BY <3>1, <3>2, <1>0, <1>3
  <2>6. "blocking" \notin Copying /\ pc[t] \notin Copying
    BY <1>0 DEF Copying
  <2>7. HoldInv'
    BY <2>2, <2>5, <2>6, <1>0, <1>1 DEF HoldInv
  <2>8. ~ DetachesQueue(t)'
    BY <2>2 DEF DetachesQueue
  <2>9. ~ DetachesQueue(t)
    BY <1>0 DEF DetachesQueue
  <2>10. LifeInv'
    BY <2>2, <2>8, <2>9, <1>0, LifeAside
  <2>11. NoMoreWait(other) /\ Woken(other) \subseteq Woken(other)'
    BY <2>2, <1>0, ObjectLists DEF NoMoreWait
  <2>12. (\E u : Linked(k', receivers, u)) => Len(mq.msgs) <= Cardinality(Woken(receivers)')
    <3>1. CASE other = receivers
      <4>1. Served(receivers, Len(mq.msgs)) /\ Len(mq.msgs) <= Len(mq.msgs) /\ Len(mq.msgs) \in Int
        BY <1>0 DEF CountInv
      <4> QED
        BY <4>1, <3>1, <2>11, ServedSame
    <3>2. CASE other = senders
      <4>1. Len(mq.msgs) = 0
        BY <3>2, ObjectLists
      <4> QED
        BY <4>1, ServedNone
    <3> QED
      BY <3>1, <3>2
  <2>13. (\E u : Linked(k', senders, u)) => mq.free <= Cardinality(Woken(senders)')
    <3>1. CASE other = senders
      <4>1. Served(senders, mq.free) /\ mq.free <= mq.free /\ mq.free \in Int
        BY <1>0 DEF CountInv
      <4> QED
        BY <4>1, <3>1, <2>11, ServedSame
    <3>2. CASE other = receivers
      <4>1. mq.free = 0
        BY <3>2
      <4> QED
        BY <4>1, ServedNone
    <3> QED
      BY <3>1, <3>2
  <2>14. Held' = Held /\ mq.free + Len(mq.msgs) + Cardinality(Held) = Size
    BY <1>0, <1>1 DEF CountInv, Held
  <2>15. mq' = [msgs |-> mq.msgs, free |-> mq.free]
    BY <1>0, <1>1
  <2>16. QueueInv'
    BY <1>0, <1>1, <2>5, <2>7, <2>10, <2>12, <2>13, <2>14, <2>15, QueueInvNext
  <2>17. AbstractStep
    <3>1. \A u \in Thread : hold[u] # NoMsg => pc'[u] = pc[u]
      BY <1>0, <2>2, <2>6 DEF HoldInv
    <3>2. Hands' = Hands
      BY <3>1, <1>1 DEF Hands
    <3> QED
      BY <3>2, <1>1, SameAbstract
  <2> QED
    BY <2>1, <2>4, <2>16, <2>17 DEF StepOK, ObjInv
<1> QED
  BY <1>2, <1>3 DEF Waits

\* A wait for the queue ends with an error; nobody had been woken for a message.
LEMMA WaitFailsStep ==
    ASSUME ObjInv, NEW t \in App, WaitFails(t), eventvars' = eventvars
    PROVE  StepOK
<1>0. /\ t \in Thread /\ CallInv /\ QueueInv
      /\ mq \in [msgs : Seq(Msg), free : 0 .. Size]
      /\ mq.msgs \in Seq(Msg) /\ mq.free \in Nat /\ Len(mq.msgs) \in Nat
      /\ hold \in [Thread -> Msg \cup {NoMsg}]
      /\ call \in [Thread -> CallRecord] /\ HoldInv /\ CountInv
  BY QueueFacts DEF App, ObjInv
<1>1. /\ At(t, "blocked") /\ k.err[t] # "EOK" /\ LeavesList(t, "run") /\ k' = k /\ alive' = alive
      /\ call' = [call EXCEPT ![t] = NoCall] /\ mq' = mq /\ hold' = hold
  BY DEF WaitFails, BlockedFails
<1>2. k.cur = t /\ pc[t] = "blocked" /\ ~ Suspended(k, t)
  BY <1>0, <1>1, RunnerFacts
<1>3. \A q : t \notin Woken(q)
  BY <1>1, WokenFacts
<1>4. "run" \in Location \ (Waiting \cup Emptying) /\ "run" \notin Copying
      /\ "blocked" \notin Copying /\ "run" \notin Waiting
  BY Locations DEF Copying, Emptying
<1>5. /\ CallInv' /\ EventInv' /\ FlagStep
      /\ pc'[t] = "run" /\ at'[t] = NoList
      /\ \A u \in Thread \ {t} : pc'[u] = pc[u] /\ at'[u] = at[u]
      /\ \A q \in {receivers, senders} : NoMoreWait(q) /\ Woken(q)' = Woken(q) \ {t}
      /\ ~ DetachesQueue(t) /\ ~ DetachesQueue(t)'
  BY <1>0, <1>1, <1>2, <1>4, LeavesStep
<1>6. \A q \in {receivers, senders} : NoMoreWait(q) /\ Woken(q)' = Woken(q)
  BY <1>3, <1>5
<1>7. call' \in [Thread -> CallRecord] /\ \A u \in Thread \ {t} : call'[u] = call[u]
  BY <1>0, <1>1, NoCallType
<1>8. HoldInv'
  BY <1>0, <1>1, <1>2, <1>4, <1>5, <1>7 DEF HoldInv
<1>9. LifeInv'
  BY <1>0, <1>1, <1>5, <1>6, LifeAside
<1>10. (\E u : Linked(k', receivers, u)) => Len(mq.msgs) <= Cardinality(Woken(receivers)')
  BY <1>0, <1>6 DEF CountInv, Served, NoMoreWait
<1>11. (\E u : Linked(k', senders, u)) => mq.free <= Cardinality(Woken(senders)')
  BY <1>0, <1>6 DEF CountInv, Served, NoMoreWait
<1>12. Held' = Held /\ mq.free + Len(mq.msgs) + Cardinality(Held) = Size
  BY <1>0, <1>1 DEF CountInv, Held
<1>13. mq' = [msgs |-> mq.msgs, free |-> mq.free]
  BY <1>0, <1>1
<1>14. QueueInv'
  BY <1>0, <1>1, <1>7, <1>8, <1>9, <1>10, <1>11, <1>12, <1>13, QueueInvNext
<1>15. AbstractStep
  <2>1. \A u \in Thread : hold[u] # NoMsg => pc'[u] = pc[u]
    BY <1>0, <1>2, <1>4, <1>5 DEF HoldInv
  <2>2. Hands' = Hands
    BY <2>1, <1>1 DEF Hands
  <2> QED
    BY <2>2, <1>1, SameAbstract
<1> QED
  BY <1>5, <1>14, <1>15 DEF StepOK, ObjInv

\* The list q has lost its first thread, which has been woken for a message; or it
\* was empty.
WakesOne(q) ==
    /\ NoMoreWait(q) /\ Woken(q) \subseteq Woken(q)'
    /\ (\A u : ~ Linked(k', q, u)) \/ \E h : h \notin Woken(q) /\ h \in Woken(q)'

LEMMA ServedWakes ==
    ASSUME NEW q, NEW n \in Int, NEW m \in Int, Served(q, n), m <= n + 1, WakesOne(q)
    PROVE  (\E u : Linked(k', q, u)) => m <= Cardinality(Woken(q)')
<1>1. CASE \A u : ~ Linked(k', q, u)
  BY <1>1
<1>2. CASE \E h : h \notin Woken(q) /\ h \in Woken(q)'
  <2>1. PICK h : h \notin Woken(q) /\ h \in Woken(q)'
    BY <1>2
  <2>2. Woken(q) \cup {h} \subseteq Woken(q)' /\ NoMoreWait(q)
    BY <2>1 DEF WakesOne
  <2> QED
    BY <2>1, <2>2, ServedMore
<1> QED
  BY <1>1, <1>2 DEF WakesOne

\* What resuming the first thread of q does to the other lists and to the event.
LEMMA WakeEffect ==
    ASSUME CallInv, EventInv, eventvars' = eventvars, NEW q \in {receivers, senders},
           NEW t, NEW H, Moves(H, t),
           pc'[t] \in Waiting \/ \A n : t \notin Woken(n),
           \/ H = {} /\ IsEmpty(q)
           \/ \E h \in Thread : /\ H = {h} /\ Linked(k, q, h) /\ Suspended(k, h)
                                /\ k'.err[h] = "EOK"
    PROVE  /\ EventInv' /\ FlagStep /\ WakesOne(q)
           /\ \A n \in {receivers, senders} \ {q} : Untouched(n)
<1>0. q \in Queue /\ receivers \in Queue /\ senders \in Queue /\ event \in Queue /\ q # event
  BY ObjectLists
<1>1. \A n \in Queue :
        /\ \A u : Linked(k', n, u) <=> Linked(k, n, u) /\ u \notin H
        /\ \A u : u \in Woken(n)' <=>
               u \in Woken(n) \/ (u \in H /\ Linked(k, n, u) /\ k'.err[u] = "EOK")
  BY DEF Moves
<1>2. CASE H = {} /\ IsEmpty(q)
  <2>1. \A u : ~ Linked(k, q, u)
    BY <1>0, <1>2, EmptyFacts
  <2>2. WakesOne(q)
    BY <2>1, <1>0, <1>1, <1>2 DEF WakesOne, NoMoreWait
  <2>3. \A n \in {receivers, senders} \ {q} : Untouched(n)
    BY <1>0, <1>1, <1>2 DEF Untouched, NoMoreWait
  <2>4. EventInv' /\ FlagStep
    BY <1>2, EventKept
  <2> QED
    BY <2>2, <2>3, <2>4
<1>3. ASSUME NEW h \in Thread, H = {h}, Linked(k, q, h), Suspended(k, h), k'.err[h] = "EOK"
      PROVE  /\ EventInv' /\ FlagStep /\ WakesOne(q)
             /\ \A n \in {receivers, senders} \ {q} : Untouched(n)
  <2>1. /\ \A n \in Queue : Linked(k, n, h) <=> n = at[h]
        /\ h \notin Woken(q)
    BY <1>3, SuspendedFacts
  <2>2. \A n \in Queue \ {q} : ~ Linked(k, n, h)
    BY <2>1, <1>0, <1>3
  <2>3. WakesOne(q)
    BY <2>1, <1>0, <1>1, <1>3 DEF WakesOne, NoMoreWait
  <2>4. ASSUME NEW n \in {receivers, senders} \ {q} PROVE Untouched(n)
    <3>1. n \in Queue \ {q}
      BY <1>0
    <3>2. \A u : u \in Woken(n)' <=> u \in Woken(n)
      BY <3>1, <2>2, <1>1, <1>3
    <3> QED
      BY <3>1, <3>2, <1>1 DEF Untouched, NoMoreWait
  <2>5. \A u \in H : Linked(k, event, u) => k'.err[u] # "EOK"
    BY <2>2, <1>0, <1>3
  <2>6. EventInv' /\ FlagStep
    BY <2>5, EventKept
  <2> QED
    BY <2>3, <2>4, <2>6
<1> QED
  BY <1>2, <1>3

\* The kernel after the first thread of q has been resumed, if there is one.
LEMMA WakesFirstFacts ==
    ASSUME CallInv, NEW q \in Queue, NEW r, r = WakesFirst(q)
    PROVE  \E H : /\ Releases(k, r, H, {}) /\ r.cur = k.cur
                  /\ \/ H = {} /\ IsEmpty(q)
                     \/ \E h \in Thread : /\ H = {h} /\ Linked(k, q, h) /\ Suspended(k, h)
                                          /\ r.err[h] = "EOK"
<1>0. Sound(k)
  BY CallFacts
<1>1. CASE IsEmpty(q)
  <2>1. r = k
    BY <1>1 DEF WakesFirst
  <2>2. Releases(k, r, {}, {})
    BY <2>1, <1>0, CalmSame, FreesNobody
  <2> QED
    BY <2>1, <2>2, <1>1
<1>2. CASE ~ IsEmpty(q)
  <2>1. r = rt_ipc_list_resume(k, q)
    BY <1>2 DEF WakesFirst
  <2>2. PICK h \in Thread : /\ Linked(k, q, h) /\ Suspended(k, h)
                            /\ Releases(k, r, {h}, {}) /\ r.err[h] = "EOK" /\ r.cur = k.cur
    BY <2>1, <1>2, ResumeFirst
  <2> QED
    BY <2>2
<1> QED
  BY <1>1, <1>2

\* t has copied its message and resumes the first thread of the other side.
LEMMA WakesAndReturnsStep ==
    ASSUME ObjInv, NEW t \in App, NEW l \in Copying, At(t, l), NEW q \in {receivers, senders},
           WakesAndReturns(t, q), at' = at, alive' = alive, eventvars' = eventvars
    PROVE  /\ CallInv' /\ EventInv' /\ FlagStep /\ WakesOne(q) /\ receivers \in alive
           /\ \A n \in {receivers, senders} \ {q} : Untouched(n)
           /\ pc[t] = l /\ pc'[t] \notin Copying /\ pc'[t] \notin Waiting
           /\ \A u \in Thread \ {t} : pc'[u] = pc[u] /\ at'[u] = at[u]
           /\ ~ DetachesQueue(t) /\ ~ DetachesQueue(t)'
<1>0. t \in Thread /\ CallInv /\ EventInv /\ QueueInv /\ HoldInv /\ q \in Queue
  BY QueueFacts, ObjectLists DEF ObjInv, App
<1>1. l # "blocking" /\ l \notin Waiting /\ l \notin Emptying
  BY DEF Copying, Waiting, Emptying
<1>2. k.cur = t /\ pc[t] = l /\ ~ Suspended(k, t) /\ \A n : t \notin Woken(n)
  BY <1>0, <1>1, RunnerFacts
<1>3. receivers \in alive
  BY <1>0, <1>2, QueueFacts DEF LifeInv, HoldInv
<1>4. PICK x \in {"run", "resched"} : Goto(t, x)
  BY DEF WakesAndReturns
<1>5. x \in Location /\ x \notin Waiting /\ x \notin Emptying /\ x \notin Copying
  BY Locations DEF Emptying
<1>6. Goes(t) /\ CallTypes /\ pc'[t] = x
  BY <1>0, <1>1, <1>2, <1>4, <1>5, GoesTo
<1>7. PICK H : /\ Releases(k, k', H, {}) /\ k'.cur = k.cur
               /\ \/ H = {} /\ IsEmpty(q)
                  \/ \E h \in Thread : /\ H = {h} /\ Linked(k, q, h) /\ Suspended(k, h)
                                       /\ k'.err[h] = "EOK"
  <2>1. k' = WakesFirst(q)
    BY DEF WakesAndReturns
  <2> QED
    BY <2>1, <1>0, WakesFirstFacts
<1>8. CurrentStays
  BY <1>2, <1>7 DEF CurrentStays
<1>9. CallInv' /\ Moves(H, t)
  <2>1. {} \subseteq {t}
    OBVIOUS
  <2> QED
    BY <2>1, <1>0, <1>6, <1>7, <1>8, FreeStep
<1>10. /\ EventInv' /\ FlagStep /\ WakesOne(q)
       /\ \A n \in {receivers, senders} \ {q} : Untouched(n)
  BY <1>0, <1>2, <1>7, <1>9, WakeEffect
<1>11. ~ DetachesQueue(t) /\ ~ DetachesQueue(t)'
  BY <1>1, <1>2, <1>5, <1>6 DEF DetachesQueue, Emptying
<1> QED
  BY <1>2, <1>3, <1>5, <1>6, <1>9, <1>10, <1>11 DEF Goes

\* A sender links the message it has copied.
LEMMA LinksStep ==
    ASSUME ObjInv, NEW t \in App, Links(t), eventvars' = eventvars
    PROVE  StepOK
<1>0. /\ t \in Thread /\ QueueInv
      /\ mq \in [msgs : Seq(Msg), free : 0 .. Size]
      /\ mq.msgs \in Seq(Msg) /\ mq.free \in Nat /\ Len(mq.msgs) \in Nat
      /\ hold \in [Thread -> Msg \cup {NoMsg}]
      /\ call \in [Thread -> CallRecord] /\ HoldInv /\ CountInv /\ Size \in Nat
  BY QueueFacts DEF App, ObjInv
<1>1. PICK l \in {"copyin", "urgent"} :
          /\ At(t, l)
          /\ l = "copyin" => mq' = [mq EXCEPT !.msgs = Append(@, hold[t])]
          /\ l = "urgent" => mq' = [mq EXCEPT !.msgs = <<hold[t]>> \o @]
  BY DEF Links
<1>2. /\ hold' = [hold EXCEPT ![t] = NoMsg] /\ WakesAndReturns(t, receivers)
      /\ at' = at /\ alive' = alive /\ call' = call /\ l \in Copying
  BY DEF Links, Copying
<1>3. /\ CallInv' /\ EventInv' /\ FlagStep /\ WakesOne(receivers) /\ receivers \in alive
      /\ \A n \in {receivers, senders} \ {receivers} : Untouched(n)
      /\ pc[t] = l /\ pc'[t] \notin Copying /\ pc'[t] \notin Waiting
      /\ \A u \in Thread \ {t} : pc'[u] = pc[u] /\ at'[u] = at[u]
      /\ ~ DetachesQueue(t) /\ ~ DetachesQueue(t)'
  <2>1. receivers \in {receivers, senders}
    OBVIOUS
  <2> QED
    BY <2>1, <1>1, <1>2, WakesAndReturnsStep
<1>4. /\ Cardinality(Held') = Cardinality(Held) - 1 /\ hold[t] \in Msg
      /\ hold' \in [Thread -> Msg \cup {NoMsg}]
      /\ Abstract!Holds(t, l) /\ Abstract!Drops(t) /\ Hands[t].msg = hold[t]
  BY <1>0, <1>2, <1>3, HoldsLess
<1>5. PICK s \in Seq(Msg) :
          /\ mq' = [msgs |-> s, free |-> mq.free] /\ Len(s) = Len(mq.msgs) + 1
          /\ l = "copyin" => s = Append(mq.msgs, hold[t])
          /\ l = "urgent" => s = <<hold[t]>> \o mq.msgs
  <2>1. PICK m \in Msg : m = hold[t]
    BY <1>4
  <2>2. CASE l = "copyin"
    <3>1. /\ Append(mq.msgs, m) \in Seq(Msg) /\ Len(Append(mq.msgs, m)) = Len(mq.msgs) + 1
      BY <1>0
    <3>2. mq' = [msgs |-> Append(mq.msgs, m), free |-> mq.free]
      BY <2>1, <2>2, <1>0, <1>1
    <3> QED
      BY <3>1, <3>2, <2>1, <2>2
  <2>3. CASE l = "urgent"
    <3>1. <<m>> \in Seq(Msg) /\ Len(<<m>>) = 1
      OBVIOUS
    <3>2. <<m>> \o mq.msgs \in Seq(Msg) /\ Len(<<m>> \o mq.msgs) = Len(mq.msgs) + 1
      BY <3>1, <1>0
    <3>3. mq' = [msgs |-> <<m>> \o mq.msgs, free |-> mq.free]
      BY <2>1, <2>3, <1>0, <1>1
    <3> QED
      BY <3>2, <3>3, <2>1, <2>3
  <2> QED
    BY <2>2, <2>3
<1>6. HoldInv'
  <2>1. hold'[t] = NoMsg /\ \A u \in Thread \ {t} : hold'[u] = hold[u]
    BY <1>0, <1>2
  <2> QED
    BY <2>1, <1>0, <1>2, <1>3 DEF HoldInv
<1>7. LifeInv'
  BY <1>0, <1>2, <1>3, LifeAside
<1>8. (\E u : Linked(k', receivers, u)) => Len(s) <= Cardinality(Woken(receivers)')
  <2>1. PICK n \in Int, i \in Int : n = Len(mq.msgs) /\ i = Len(s) /\ i <= n + 1
    BY <1>0, <1>5
  <2>2. Served(receivers, n)
    BY <2>1, <1>0 DEF CountInv
  <2>3. (\E u : Linked(k', receivers, u)) => i <= Cardinality(Woken(receivers)')
    BY <2>1, <2>2, <1>3, ServedWakes
  <2> QED
    BY <2>1, <2>3
<1>9. (\E u : Linked(k', senders, u)) => mq.free <= Cardinality(Woken(senders)')
  <2>1. Untouched(senders)
    BY <1>3, ObjectLists
  <2> QED
    BY <2>1, <1>0 DEF CountInv, Served, NoMoreWait, Untouched
<1>10. mq.free + Len(s) + Cardinality(Held') = Size
  <2>1. mq.free + Len(mq.msgs) + Cardinality(Held) = Size
    BY <1>0 DEF CountInv
  <2> QED
    BY <2>1, <1>0, <1>4, <1>5, HeldFinite
<1>11. QueueInv'
  BY <1>0, <1>2, <1>4, <1>5, <1>6, <1>7, <1>8, <1>9, <1>10, QueueInvNext
<1>12. AbstractStep
  <2>1. mq'.msgs = s
    BY <1>5
  <2>3. Abstract!Put(t)
    BY <2>1, <1>1, <1>4, <1>5 DEF Abstract!Put, Hands
  <2> QED
    BY <2>3, <1>0 DEF AbstractStep, Abstract!Next
<1> QED
  BY <1>3, <1>11, <1>12 DEF StepOK, ObjInv

\* A receiver gives back the message it has copied.
LEMMA FreesStep ==
    ASSUME ObjInv, NEW t \in App, Frees(t), eventvars' = eventvars
    PROVE  StepOK
<1>0. /\ t \in Thread /\ QueueInv
      /\ mq \in [msgs : Seq(Msg), free : 0 .. Size]
      /\ mq.msgs \in Seq(Msg) /\ mq.free \in Nat /\ Len(mq.msgs) \in Nat
      /\ hold \in [Thread -> Msg \cup {NoMsg}]
      /\ call \in [Thread -> CallRecord] /\ HoldInv /\ CountInv /\ Size \in Nat
  BY QueueFacts DEF App, ObjInv
<1>1. /\ At(t, "copyout") /\ mq' = [mq EXCEPT !.free = @ + 1]
      /\ hold' = [hold EXCEPT ![t] = NoMsg] /\ WakesAndReturns(t, senders)
      /\ at' = at /\ alive' = alive /\ call' = call /\ "copyout" \in Copying
  BY DEF Frees, Copying
<1>2. /\ CallInv' /\ EventInv' /\ FlagStep /\ WakesOne(senders) /\ receivers \in alive
      /\ \A n \in {receivers, senders} \ {senders} : Untouched(n)
      /\ pc[t] = "copyout" /\ pc'[t] \notin Copying /\ pc'[t] \notin Waiting
      /\ \A u \in Thread \ {t} : pc'[u] = pc[u] /\ at'[u] = at[u]
      /\ ~ DetachesQueue(t) /\ ~ DetachesQueue(t)'
  <2>1. senders \in {receivers, senders}
    OBVIOUS
  <2> QED
    BY <2>1, <1>1, WakesAndReturnsStep
<1>3. /\ Cardinality(Held') = Cardinality(Held) - 1 /\ hold[t] \in Msg
      /\ hold' \in [Thread -> Msg \cup {NoMsg}]
      /\ Abstract!Holds(t, "copyout") /\ Abstract!Drops(t)
  BY <1>0, <1>1, <1>2, HoldsLess
<1>4. mq' = [msgs |-> mq.msgs, free |-> mq.free + 1] /\ mq.free + 1 \in Nat
  BY <1>0, <1>1
<1>5. HoldInv'
  <2>1. hold'[t] = NoMsg /\ \A u \in Thread \ {t} : hold'[u] = hold[u]
    BY <1>0, <1>1
  <2> QED
    BY <2>1, <1>0, <1>1, <1>2 DEF HoldInv
<1>6. LifeInv'
  BY <1>0, <1>1, <1>2, LifeAside
<1>7. (\E u : Linked(k', receivers, u)) => Len(mq.msgs) <= Cardinality(Woken(receivers)')
  <2>1. Untouched(receivers)
    BY <1>2, ObjectLists
  <2> QED
    BY <2>1, <1>0 DEF CountInv, Served, NoMoreWait, Untouched
<1>8. (\E u : Linked(k', senders, u)) => mq.free + 1 <= Cardinality(Woken(senders)')
  <2>1. PICK n \in Int, i \in Int : n = mq.free /\ i = mq.free + 1 /\ i <= n + 1
    BY <1>0
  <2>2. Served(senders, n)
    BY <2>1, <1>0 DEF CountInv
  <2>3. (\E u : Linked(k', senders, u)) => i <= Cardinality(Woken(senders)')
    BY <2>1, <2>2, <1>2, ServedWakes
  <2> QED
    BY <2>1, <2>3
<1>9. (mq.free + 1) + Len(mq.msgs) + Cardinality(Held') = Size
  <2>1. mq.free + Len(mq.msgs) + Cardinality(Held) = Size
    BY <1>0 DEF CountInv
  <2> QED
    BY <2>1, <1>0, <1>3, HeldFinite
<1>10. QueueInv'
  BY <1>0, <1>1, <1>3, <1>4, <1>5, <1>6, <1>7, <1>8, <1>9, QueueInvNext
<1>11. AbstractStep
  <2>1. mq'.msgs = mq.msgs
    BY <1>4
  <2>2. Abstract!GiveBack(t)
    BY <2>1, <1>3 DEF Abstract!GiveBack
  <2> QED
    BY <2>2, <1>0 DEF AbstractStep, Abstract!Next
<1> QED
  BY <1>2, <1>10, <1>11 DEF StepOK, ObjInv

\* An interrupt handler sends a message.
LEMMA HandlerSendsMessageStep ==
    ASSUME ObjInv, NEW m \in Msg, HandlerSendsMessage(m), eventvars' = eventvars
    PROVE  StepOK
<1>0. /\ CallInv /\ EventInv /\ QueueInv /\ k.cur \in Thread /\ k.lock = 0 /\ receivers \in Queue
      /\ mq.msgs \in Seq(Msg) /\ mq.free \in Nat /\ Len(mq.msgs) \in Nat
      /\ hold \in [Thread -> Msg \cup {NoMsg}]
      /\ call \in [Thread -> CallRecord] /\ HoldInv /\ CountInv /\ Size \in Nat
  BY CallFacts, QueueFacts, ObjectLists DEF ObjInv
<1>1. /\ receivers \in alive /\ mq.free > 0
      /\ \/ mq' = [msgs |-> Append(mq.msgs, m), free |-> mq.free - 1]
         \/ mq' = [msgs |-> <<m>> \o mq.msgs, free |-> mq.free - 1]
      /\ k' = IF IsEmpty(receivers) THEN k ELSE rt_schedule(WakesFirst(receivers))
      /\ pc' = pc /\ at' = at /\ alive' = alive /\ hold' = hold /\ call' = call
  BY DEF HandlerSendsMessage
<1>2. PICK t \in Thread : t = k.cur
  BY <1>0
<1>3. Goes(t) /\ CallTypes /\ pc'[t] = pc[t] /\ at'[t] = at[t]
  BY <1>0, <1>1, NobodyGoes
<1>4. PICK r : r = WakesFirst(receivers)
  OBVIOUS
<1>5. PICK H : /\ Releases(k, r, H, {}) /\ r.cur = k.cur
               /\ \/ H = {} /\ IsEmpty(receivers)
                  \/ \E h \in Thread : /\ H = {h} /\ Linked(k, receivers, h) /\ Suspended(k, h)
                                       /\ r.err[h] = "EOK"
  <2>1. CallInv /\ receivers \in Queue /\ r = WakesFirst(receivers)
    BY <1>0, <1>4
  <2> QED
    BY <2>1, WakesFirstFacts
<1>6. Releases(k, k', H, {}) /\ k'.err = r.err /\ CurrentStays
  <2>1. CASE IsEmpty(receivers)
    <3>1. k' = r
      BY <2>1, <1>1, <1>4 DEF WakesFirst
    <3> QED
      BY <3>1, <1>1, <1>5 DEF CurrentStays
  <2>2. CASE ~ IsEmpty(receivers)
    <3>1. k' = rt_schedule(r) /\ Sound(r) /\ r.lock = 0
      BY <2>2, <1>0, <1>1, <1>4, <1>5 DEF Releases
    <3>2. Sound(k') /\ Calm(r, k') /\ k'.err = r.err /\ k'.stat[k'.cur] = "RUNNING"
      BY <3>1, ScheduleSound, ScheduleFrame, ScheduleRuns
    <3> QED
      BY <3>2, <1>5, FreesThenCalm DEF CurrentStays
  <2> QED
    BY <2>1, <2>2
<1>7. CallInv' /\ Moves(H, t)
  <2>1. {} \subseteq {t}
    OBVIOUS
  <2> QED
    BY <2>1, <1>0, <1>3, <1>6, FreeStep
<1>8. /\ EventInv' /\ FlagStep /\ WakesOne(receivers)
      /\ \A n \in {receivers, senders} \ {receivers} : Untouched(n)
  <2>1. \/ H = {} /\ IsEmpty(receivers)
        \/ \E h \in Thread : /\ H = {h} /\ Linked(k, receivers, h) /\ Suspended(k, h)
                             /\ k'.err[h] = "EOK"
    BY <1>5, <1>6
  <2>2. pc'[t] \in Waiting \/ \A n : t \notin Woken(n)
    BY <1>3, WokenFacts
  <2>3. receivers \in {receivers, senders}
    OBVIOUS
  <2> QED
    BY <2>1, <2>2, <2>3, <1>0, <1>7, WakeEffect
<1>9. PICK s \in Seq(Msg) : /\ mq' = [msgs |-> s, free |-> mq.free - 1]
                            /\ Len(s) = Len(mq.msgs) + 1
                            /\ s \in {Append(mq.msgs, m), <<m>> \o mq.msgs}
  <2>1. Append(mq.msgs, m) \in Seq(Msg) /\ Len(Append(mq.msgs, m)) = Len(mq.msgs) + 1
    BY <1>0
  <2>2. <<m>> \in Seq(Msg) /\ Len(<<m>>) = 1
    OBVIOUS
  <2>3. <<m>> \o mq.msgs \in Seq(Msg) /\ Len(<<m>> \o mq.msgs) = Len(mq.msgs) + 1
    BY <2>2, <1>0
  <2> QED
    BY <2>1, <2>3, <1>1
<1>10. HoldInv' /\ Held' = Held
  BY <1>0, <1>1 DEF HoldInv, Held
<1>11. LifeInv'
  <2>1. DetachesQueue(t)' <=> DetachesQueue(t)
    BY <1>3 DEF DetachesQueue
  <2> QED
    BY <2>1, <1>0, <1>1, LifeAside
<1>12. (\E u : Linked(k', receivers, u)) => Len(s) <= Cardinality(Woken(receivers)')
  <2>1. PICK n \in Int, i \in Int : n = Len(mq.msgs) /\ i = Len(s) /\ i <= n + 1
    BY <1>0, <1>9
  <2>2. Served(receivers, n)
    BY <2>1, <1>0 DEF CountInv
  <2>3. (\E u : Linked(k', receivers, u)) => i <= Cardinality(Woken(receivers)')
    BY <2>1, <2>2, <1>8, ServedWakes
  <2> QED
    BY <2>1, <2>3
<1>13. (\E u : Linked(k', senders, u)) => mq.free - 1 <= Cardinality(Woken(senders)')
  <2>1. Untouched(senders) /\ Served(senders, mq.free)
    BY <1>0, <1>8, ObjectLists DEF CountInv
  <2>2. (\E u : Linked(k', senders, u)) => mq.free <= Cardinality(Woken(senders)')
    BY <2>1 DEF Served, NoMoreWait, Untouched
  <2> QED
    BY <2>2, <1>0, WokenFinite
<1>14. mq.free - 1 \in Nat /\ (mq.free - 1) + Len(s) + Cardinality(Held') = Size
  <2>1. mq.free + Len(mq.msgs) + Cardinality(Held) = Size
    BY <1>0 DEF CountInv
  <2>2. mq.free - 1 \in Nat /\ Cardinality(Held') = Cardinality(Held) /\ Cardinality(Held) \in Nat
    BY <1>0, <1>1, <1>10, HeldFinite
  <2>3. mq.free \in Nat /\ Len(mq.msgs) \in Nat /\ Len(s) = Len(mq.msgs) + 1
    BY <1>0, <1>9
  <2>4. PICK c \in Nat, f \in Nat, n \in Nat :
            c = Cardinality(Held) /\ f = mq.free /\ n = Len(mq.msgs)
    BY <2>2, <2>3
  <2>5. f + n + c = Size
    BY <2>1, <2>4
  <2>6. (f - 1) + (n + 1) + c = Size
    BY <2>5
  <2> QED
    BY <2>2, <2>3, <2>4, <2>6
<1>15. QueueInv'
  BY <1>0, <1>1, <1>9, <1>10, <1>11, <1>12, <1>13, <1>14, QueueInvNext
<1>16. AbstractStep
  <2>1. mq'.msgs = s /\ Abstract!HasRoom
    BY <1>0, <1>1, <1>9, FreeIsRoom
  <2>2. Hands' = Hands
    BY <1>1 DEF Hands
  <2>3. Abstract!Post(m)
    BY <2>1, <2>2, <1>9 DEF Abstract!Post, Hands
  <2> QED
    BY <2>3 DEF AbstractStep, Abstract!Next
<1> QED
  BY <1>7, <1>8, <1>15, <1>16 DEF StepOK, ObjInv

\* RT_IPC_CMD_RESET, rt_mq_detach, rt_mq_delete and rt_mq_init.
LEMMA QueueControlStep ==
    ASSUME ObjInv, NEW t \in App, eventvars' = eventvars,
           \/ ResetBegins(t, receivers) /\ UNCHANGED mqvars
           \/ QueueResetEnds(t) \/ QueueDetachBegins(t) \/ QueueReinit(t)
    PROVE  StepOK
<1>0. /\ t \in Thread /\ CallInv /\ EventInv /\ QueueInv /\ Sound(k) /\ alive \subseteq Queue
      /\ mq.msgs \in Seq(Msg) /\ mq.free \in Nat /\ Len(mq.msgs) \in Nat
      /\ hold \in [Thread -> Msg \cup {NoMsg}] /\ call \in [Thread -> CallRecord]
      /\ HoldInv /\ CountInv /\ LifeInv /\ Size \in Nat
  BY CallFacts, QueueFacts DEF App, ObjInv
<1>1. /\ {"run", "resched", "reset", "detach"} \subseteq Location \ (Waiting \cup Copying)
      /\ "run" \notin Emptying /\ "resched" \notin Emptying
  BY Locations
<1>2. /\ receivers \in Queue /\ senders \in Queue /\ event \in Queue
      /\ receivers \in ObjectList \cup {NoList} /\ receivers # NoList /\ receivers # senders
      /\ Following[receivers] = senders
  BY ObjectLists DEF ObjectList
<1>3. CASE ResetBegins(t, receivers) /\ UNCHANGED mqvars
  <2>1. /\ At(t, "run") /\ Turn(t, receivers) /\ Goto(t, "reset") /\ k' = k /\ alive' = alive
    BY <1>3 DEF ResetBegins, Uses
  <2>2. k.cur = t /\ pc[t] = "run" /\ ~ Suspended(k, t) /\ ~ DetachesQueue(t)
    BY <2>1, UserFacts
  <2>3. Goes(t) /\ CallTypes /\ pc'[t] = "reset"
    BY <2>1, <2>2, <1>0, <1>1, <1>2, TurnsTo
  <2>4. ~ DetachesQueue(t)'
    BY <2>3 DEF DetachesQueue
  <2>5. Releases(k, k', {}, {}) /\ CurrentStays
    BY <2>1, <2>2, <1>0, CalmSame, FreesNobody DEF CurrentStays
  <2> QED
    BY <2>1, <2>2, <2>3, <2>4, <2>5, <1>0, <1>1, <1>3, AsideStep
<1>4. CASE QueueResetEnds(t)
  <2>1. /\ At(t, "reset") /\ Turn(t, NoList) /\ Goto(t, "resched") /\ k' = k /\ alive' = alive
        /\ IsEmpty(senders) /\ hold' = hold /\ call' = call
        /\ mq' = [msgs |-> <<>>, free |-> mq.free + Len(mq.msgs)]
    BY <1>4 DEF QueueResetEnds, ResetEnds, LeavesList
  <2>2. k.cur = t /\ pc[t] = "reset" /\ ~ Suspended(k, t) /\ \A q : t \notin Woken(q)
    BY <2>1, <1>0, <1>1, RunnerFacts
  <2>3. Goes(t) /\ CallTypes /\ pc'[t] = "resched"
    BY <2>1, <2>2, <1>0, <1>1, TurnsTo
  <2>4. ~ DetachesQueue(t) /\ ~ DetachesQueue(t)'
    BY <2>2, <2>3 DEF DetachesQueue
  <2>5. Releases(k, k', {}, {}) /\ CurrentStays
    BY <2>1, <2>2, <1>0, CalmSame, FreesNobody DEF CurrentStays
  <2>6. CallInv' /\ Moves({}, t)
    <3>1. {} \subseteq {t}
      OBVIOUS
    <3> QED
      BY <3>1, <2>3, <2>5, <1>0, FreeStep
  <2>7. EventInv' /\ FlagStep
    BY <2>6, <1>0, EventKept
  <2>8. \A q \in {receivers, senders} : NoMoreWait(q) /\ Woken(q)' = Woken(q)
    <3>1. \A q \in {receivers, senders} : \A u : u \in Woken(q)' <=> u \in Woken(q)
      BY <2>2, <2>6, <1>2 DEF Moves
    <3> QED
      BY <3>1, <2>1 DEF NoMoreWait
  <2>9. \A u \in Thread \ {t} : pc'[u] = pc[u] /\ at'[u] = at[u]
    BY <2>3 DEF Goes
  <2>10. LifeInv'
    BY <2>1, <2>4, <2>8, <2>9, <1>0, LifeAside
  <2>11. HoldInv' /\ Held' = Held
    BY <2>1, <2>2, <2>3, <2>9, <1>0, <1>1 DEF HoldInv, Held
  <2>12. <<>> \in Seq(Msg) /\ Len(<<>>) = 0
    OBVIOUS
  <2>13. (\E u : Linked(k', receivers, u)) => Len(<<>>) <= Cardinality(Woken(receivers)')
    BY <2>12, WokenFinite
  <2>14. \A u : ~ Linked(k', senders, u)
    BY <2>1, <1>0, <1>2, EmptyFacts
  <2>15. PICK n \in Nat : n = mq.free + Len(mq.msgs)
    BY <1>0
  <2>16. n + Len(<<>>) + Cardinality(Held') = Size
    BY <2>11, <2>12, <2>15, <1>0 DEF CountInv
  <2>17. QueueInv'
    BY <2>1, <2>10, <2>11, <2>12, <2>13, <2>14, <2>15, <2>16, <1>0, QueueInvNext
  <2>18. AbstractStep
    <3>1. \A u \in Thread : hold[u] # NoMsg => pc'[u] = pc[u]
      BY <2>2, <2>9, <1>0, <1>1 DEF HoldInv
    <3>2. Hands' = Hands
      BY <3>1, <2>1 DEF Hands
    <3>3. mq'.msgs = <<>>
      BY <2>1
    <3>4. Abstract!Reset
      BY <3>2, <3>3 DEF Abstract!Reset, Hands
    <3> QED
      BY <3>4 DEF AbstractStep, Abstract!Next
  <2> QED
    BY <2>6, <2>7, <2>17, <2>18 DEF StepOK, ObjInv
<1>5. CASE QueueDetachBegins(t)
  <2>1. /\ At(t, "run") /\ Turn(t, receivers) /\ Goto(t, "detach") /\ k' = k
        /\ alive' = alive \ {receivers} /\ mqvars' = mqvars /\ hold' = hold
        /\ Woken(receivers) = {} /\ Woken(senders) = {} /\ \A u \in Thread : hold[u] = NoMsg
    BY <1>5 DEF QueueDetachBegins, DetachBegins, Uses, mqvars
  <2>2. k.cur = t /\ pc[t] = "run" /\ ~ Suspended(k, t) /\ \A q : t \notin Woken(q)
    BY <2>1, UserFacts
  <2>3. Goes(t) /\ CallTypes /\ pc'[t] = "detach" /\ at'[t] = receivers
    BY <2>1, <2>2, <1>0, <1>1, <1>2, TurnsTo
  <2>4. Releases(k, k', {}, {}) /\ CurrentStays
    BY <2>1, <2>2, <1>0, CalmSame, FreesNobody DEF CurrentStays
  <2>5. CallInv' /\ Moves({}, t)
    <3>1. {} \subseteq {t}
      OBVIOUS
    <3> QED
      BY <3>1, <2>3, <2>4, <1>0, FreeStep
  <2>6. EventInv' /\ FlagStep
    BY <2>5, <1>0, EventKept
  <2>7. Untouched(receivers) /\ Untouched(senders)
    <3>1. \A q \in {receivers, senders} : \A u : u \in Woken(q)' <=> u \in Woken(q)
      BY <2>2, <2>5, <1>2 DEF Moves
    <3> QED
      BY <3>1, <2>1 DEF NoMoreWait, Untouched
  <2>8. DetachesQueue(t)'
    BY <2>3 DEF DetachesQueue
  <2>9. LifeInv'
    BY <2>1, <2>7, <2>8, <1>0 DEF LifeInv, Untouched
  <2>10. \A u \in Thread \ {t} : pc'[u] = pc[u] /\ at'[u] = at[u]
    BY <2>3 DEF Goes
  <2>11. QueueInv' /\ AbstractStep
    BY <2>1, <2>2, <2>3, <2>7, <2>9, <2>10, <1>0, <1>1, QueueAside
  <2> QED
    BY <2>5, <2>6, <2>11 DEF StepOK, ObjInv
<1>6. CASE QueueReinit(t)
  <2>1. /\ receivers \notin alive /\ alive' = alive \cup {receivers}
        /\ k' = k /\ pc' = pc /\ at' = at /\ hold' = hold /\ call' = call
        /\ \A u \in Thread : pc[u] \in {"detach", "detach2"} => at[u] \notin {receivers, senders}
        /\ mq' = [msgs |-> <<>>, free |-> Size]
    BY <1>2, <1>6 DEF QueueReinit, Reinit, EmptyQueue
  <2>2. \A u \in Thread : ~ DetachesQueue(u) /\ ~ DetachesQueue(u)'
    BY <2>1 DEF DetachesQueue
  <2>3. (\A u \in Thread : hold[u] = NoMsg) /\ \A u : ~ Linked(k, senders, u)
    BY <2>1, <2>2, <1>0 DEF LifeInv
  <2>4. CallInv'
    <3>1. alive' \subseteq Queue
      BY <2>1, <1>0, <1>2
    <3>2. \A u \in Thread : ThreadInv(u)'
      BY <2>1, <1>0, CallFacts DEF ThreadInv
    <3>3. RunInv'
      BY <2>1, <1>0, CallFacts DEF RunInv
    <3> QED
      BY <3>1, <3>2, <3>3, <2>1, <1>0, CallFacts, CallInvNext
  <2>5. EventInv' /\ FlagStep
    <3>1. set' = set /\ want' = want /\ want \in [Thread -> WantRecord]
      BY <1>0, EventFacts DEF eventvars
    <3> QED
      BY <3>1, <2>1, <1>0, EventAside
  <2>6. HoldInv' /\ LifeInv'
    BY <2>1, <2>2, <1>0 DEF HoldInv, LifeInv
  <2>7. Cardinality(Held') = 0
    <3>1. Held' = {}
      BY <2>1, <2>3 DEF Held
    <3> QED
      BY <3>1, FS_EmptySet
  <2>8. <<>> \in Seq(Msg) /\ Len(<<>>) = 0
    OBVIOUS
  <2>9. (\E u : Linked(k', receivers, u)) => Len(<<>>) <= Cardinality(Woken(receivers)')
    BY <2>8, WokenFinite
  <2>10. \A u : ~ Linked(k', senders, u)
    BY <2>1, <2>3
  <2>11. Size + Len(<<>>) + Cardinality(Held') = Size
    BY <2>7, <2>8, <1>0
  <2>12. QueueInv'
    BY <2>1, <2>6, <2>8, <2>9, <2>10, <2>11, <1>0, QueueInvNext
  <2>13. AbstractStep
    <3>1. Hands' = Hands /\ mq'.msgs = <<>>
      BY <2>1 DEF Hands
    <3>2. Abstract!Reset
      BY <3>1 DEF Abstract!Reset, Hands
    <3> QED
      BY <3>2 DEF AbstractStep, Abstract!Next
  <2> QED
    BY <2>4, <2>5, <2>12, <2>13 DEF StepOK, ObjInv
<1> QED
  BY <1>3, <1>4, <1>5, <1>6

LEMMA MessageQueueStepOK ==
    ASSUME ObjInv, NEW t \in App, MessageQueueStep(t), eventvars' = eventvars
    PROVE  StepOK
<1>0. /\ t \in Thread /\ call \in [Thread -> CallRecord] /\ receivers # senders
      /\ Time \subseteq {"zero", "ticks", "forever"} /\ Flag \subseteq SuspendFlag
  BY QueueFacts, ObjectLists, CallsAssumption DEF ObjInv, App
<1>1. "EINTR" \in Error /\ "ETIMEOUT" \in Error
  BY DEF Error
<1>2. ASSUME NEW time, NEW e \in {"EINTR", "ETIMEOUT"}, GivesUp(t, time, e)
      PROVE  /\ k' = k \/ \E x \in Error : k' = SetError(k, t, x)
             /\ LeavesList(t, "run") /\ call' = [call EXCEPT ![t] = NoCall]
             /\ alive' = alive /\ mq' = mq /\ hold' = hold
  BY <1>1, <1>2 DEF GivesUp
<1>3. ASSUME NEW m \in Msg, NEW time \in {"zero", "ticks", "forever"}, NEW flag \in SuspendFlag,
             Acts(t, receivers),
             \/ TakesFree(t, m, "copyin")
             \/ mq.free = 0 /\ (GivesUp(t, time, "EINTR") \/ Waits(t, senders, m, time, flag))
      PROVE  StepOK
  <2>1. CASE TakesFree(t, m, "copyin")
    BY <2>1, <1>3, TakesFreeStep
  <2>2. CASE mq.free = 0 /\ GivesUp(t, time, "EINTR")
    BY <2>2, <1>2, <1>3, GivesUpStep
  <2>3. CASE mq.free = 0 /\ Waits(t, senders, m, time, flag)
    <3>1. receivers \in {receivers, senders} \ {senders} /\ m \in Msg \cup {NoMsg}
      BY <1>0
    <3> QED
      BY <3>1, <2>3, <1>3, WaitsStep
  <2> QED
    BY <1>3, <2>1, <2>2, <2>3
<1>4. ASSUME NEW time \in {"zero", "ticks", "forever"}, NEW flag \in SuspendFlag,
             Acts(t, senders),
             \/ Unlinks(t)
             \/ /\ mq.msgs = <<>>
                /\ GivesUp(t, time, "ETIMEOUT") \/ Waits(t, receivers, NoMsg, time, flag)
      PROVE  StepOK
  <2>1. CASE Unlinks(t)
    BY <2>1, <1>4, UnlinksStep
  <2>2. CASE mq.msgs = <<>> /\ GivesUp(t, time, "ETIMEOUT")
    <3>1. IF senders = receivers THEN mq.free = 0 ELSE mq.msgs = <<>>
      BY <2>2, <1>0
    <3> QED
      BY <3>1, <2>2, <1>2, <1>4, GivesUpStep
  <2>3. CASE mq.msgs = <<>> /\ Waits(t, receivers, NoMsg, time, flag)
    <3>1. /\ senders \in {receivers, senders} \ {receivers} /\ NoMsg \in Msg \cup {NoMsg}
          /\ IF senders = receivers THEN mq.free = 0 ELSE mq.msgs = <<>>
          /\ receivers = senders => NoMsg \in Msg
      BY <2>3, <1>0
    <3> QED
      BY <3>1, <2>3, <1>4, WaitsStep
  <2> QED
    BY <1>4, <2>1, <2>2, <2>3
<1>5. /\ call[t].flag \in SuspendFlag /\ TimeLeft(t) \subseteq {"zero", "ticks", "forever"}
      /\ TimeLeft(t) # {}
  <2>1. call[t] \in CallRecord
    BY <1>0
  <2>2. call[t].flag \in SuspendFlag /\ call[t].time \in {"zero", "ticks", "forever"}
    BY <2>1 DEF CallRecord
  <2> QED
    BY <2>2 DEF TimeLeft
<1>6. ASSUME NEW m \in Msg, NEW time \in Time, NEW flag \in Flag, SendBegins(t, m, time, flag)
      PROVE  StepOK
  <2>1. Acts(t, receivers)
    BY <1>6, UserActs DEF SendBegins
  <2>2. \/ TakesFree(t, m, "copyin")
        \/ mq.free = 0 /\ (GivesUp(t, time, "EINTR") \/ Waits(t, senders, m, time, flag))
    BY <1>6 DEF SendBegins
  <2>3. time \in {"zero", "ticks", "forever"} /\ flag \in SuspendFlag
    BY <1>0
  <2> QED
    BY <2>1, <2>2, <2>3, <1>3
<1>7. ASSUME NEW m \in Msg, UrgentBegins(t, m) PROVE StepOK
  <2>1. Acts(t, receivers) /\ TakesFree(t, m, "urgent")
    BY <1>7, UserActs DEF UrgentBegins
  <2> QED
    BY <2>1, TakesFreeStep
<1>8. ASSUME NEW time \in Time, NEW flag \in Flag, ReceiveBegins(t, time, flag) PROVE StepOK
  <2>1. Acts(t, senders)
    BY <1>8, UserActs DEF ReceiveBegins
  <2>2. \/ Unlinks(t)
        \/ /\ mq.msgs = <<>>
           /\ GivesUp(t, time, "ETIMEOUT") \/ Waits(t, receivers, NoMsg, time, flag)
    BY <1>8 DEF ReceiveBegins
  <2>3. time \in {"zero", "ticks", "forever"} /\ flag \in SuspendFlag
    BY <1>0
  <2> QED
    BY <2>1, <2>2, <2>3, <1>4
<1>9. CASE SendAgain(t)
  <2>1. TriesAgain(t, senders)
    BY <1>9 DEF SendAgain
  <2>2. Acts(t, receivers) /\ call[t].msg \in Msg
    BY <2>1, <1>0, TrierActs
  <2>3. PICK time \in TimeLeft(t) :
            \/ TakesFree(t, call[t].msg, "copyin")
            \/ /\ mq.free = 0
               /\ \/ GivesUp(t, time, "EINTR")
                  \/ Waits(t, senders, call[t].msg, time, call[t].flag)
    BY <1>5, <1>9 DEF SendAgain
  <2> QED
    BY <2>2, <2>3, <1>3, <1>5
<1>10. CASE ReceiveAgain(t)
  <2>1. TriesAgain(t, receivers)
    BY <1>10 DEF ReceiveAgain
  <2>2. Acts(t, senders)
    BY <2>1, <1>0, TrierActs
  <2>3. PICK time \in TimeLeft(t) :
            \/ Unlinks(t)
            \/ /\ mq.msgs = <<>>
               /\ \/ GivesUp(t, time, "ETIMEOUT")
                  \/ Waits(t, receivers, NoMsg, time, call[t].flag)
    BY <1>5, <1>10 DEF ReceiveAgain
  <2> QED
    BY <2>2, <2>3, <1>4, <1>5
<1>11. CASE WaitFails(t)
  BY <1>11, WaitFailsStep
<1>12. CASE Links(t)
  BY <1>12, LinksStep
<1>13. CASE Frees(t)
  BY <1>13, FreesStep
<1>14. CASE \/ ResetBegins(t, receivers) /\ UNCHANGED mqvars
            \/ QueueResetEnds(t) \/ QueueDetachBegins(t) \/ QueueReinit(t)
  BY <1>14, QueueControlStep
<1> QED
  BY <1>6, <1>7, <1>8, <1>9, <1>10, <1>11, <1>12, <1>13, <1>14 DEF MessageQueueStep

-----------------------------------------------------------------------------
(* The walk of rt_event_send *)

\* The rounds of a walk exist, whatever its length.
IsWalk(g, L, a, n) == g = [i \in 0 .. n |-> IF i = 0 THEN a ELSE Visit(g[i - 1], L[i])]

LEMMA RoundsExist ==
    ASSUME NEW L, NEW a, NEW N \in Nat
    PROVE  \E g : IsWalk(g, L, a, N)
<1> DEFINE P(n) == \E g : IsWalk(g, L, a, n)
           G == {n \in Nat : ~ P(n)}
<1>1. SUFFICES ASSUME G # {} PROVE FALSE
  OBVIOUS
<1>2. PICK n \in G : \A j \in G : n <= j
  BY <1>1, LeastPosition
<1>3. CASE n = 0
  <2>1. PICK g : g = [i \in 0 .. 0 |-> a]
    OBVIOUS
  <2>2. g = [i \in 0 .. 0 |-> IF i = 0 THEN a ELSE Visit(g[i - 1], L[i])]
    BY <2>1
  <2> QED
    BY <2>2, <1>3 DEF IsWalk
<1>4. CASE n # 0
  <2>1. n - 1 \in Nat /\ n \in Nat /\ P(n - 1)
    BY <1>2, <1>4
  <2>2. PICK g : g = [i \in 0 .. n - 1 |-> IF i = 0 THEN a ELSE Visit(g[i - 1], L[i])]
    BY <2>1 DEF IsWalk
  <2>3. PICK h : h = [i \in 0 .. n |-> IF i = n THEN Visit(g[n - 1], L[n]) ELSE g[i]]
    OBVIOUS
  <2>4. \A i \in 0 .. n : h[i] = IF i = n THEN Visit(g[n - 1], L[n]) ELSE g[i]
    BY <2>3
  <2>5. \A i \in 0 .. n - 1 : g[i] = IF i = 0 THEN a ELSE Visit(g[i - 1], L[i])
    BY <2>2
  <2>6. ASSUME NEW i \in 0 .. n
        PROVE  h[i] = IF i = 0 THEN a ELSE Visit(h[i - 1], L[i])
    <3>1. CASE i = n
      <4>1. n - 1 \in 0 .. n /\ n - 1 # n
        BY <2>1
      <4>2. h[n - 1] = g[n - 1]
        BY <4>1, <2>4
      <4> QED
        BY <4>2, <3>1, <2>4, <1>4
    <3>2. CASE i # n
      <4>1. i \in 0 .. n - 1
        BY <3>2, <2>1
      <4>2. i = 0 \/ (i - 1 \in 0 .. n /\ i - 1 # n)
        BY <4>1, <2>1
      <4>3. i = 0 \/ h[i - 1] = g[i - 1]
        BY <4>2, <2>4
      <4> QED
        BY <4>1, <4>3, <3>2, <2>4, <2>5
    <3> QED
      BY <3>1, <3>2
  <2>7. h = [i \in 0 .. n |-> IF i = 0 THEN a ELSE Visit(h[i - 1], L[i])]
    BY <2>3, <2>6
  <2>8. P(n)
    BY <2>7 DEF IsWalk
  <2> QED
    BY <2>8, <1>2
<1> QED
  BY <1>3, <1>4

LEMMA RoundsUnfold ==
    ASSUME CallInv, NEW flags
    PROVE  /\ Rounds(flags)[0] = [k |-> k, set |-> set \cup flags, want |-> want]
           /\ \A i \in 1 .. Len(k.list[event]) :
                  Rounds(flags)[i] = Visit(Rounds(flags)[i - 1], k.list[event][i])
           /\ Len(k.list[event]) \in Nat
<1>1. PICK L : L = k.list[event]
  OBVIOUS
<1>2. PICK a : a = [k |-> k, set |-> set \cup flags, want |-> want]
  OBVIOUS
<1>3. PICK N \in Nat : N = Len(k.list[event])
  <2>1. k.list[event] \in Seq(Thread)
    BY CallFacts, ObjectLists DEF KernelState
  <2> QED
    BY <2>1
<1>4. Rounds(flags) =
          [i \in 0 .. N |-> IF i = 0 THEN a ELSE Visit(Rounds(flags)[i - 1], L[i])]
  <2>1. Rounds(flags) = CHOOSE g : IsWalk(g, L, a, N)
    BY <1>1, <1>2, <1>3 DEF Rounds, IsWalk
  <2>2. \E g : IsWalk(g, L, a, N)
    BY RoundsExist
  <2>3. IsWalk(Rounds(flags), L, a, N)
    BY <2>1, <2>2
  <2> QED
    BY <2>3 DEF IsWalk
<1>5. \A i \in 0 .. N :
          Rounds(flags)[i] = IF i = 0 THEN a ELSE Visit(Rounds(flags)[i - 1], L[i])
  BY <1>4
<1>6. Rounds(flags)[0] = a
  <2>1. 0 \in 0 .. N
    OBVIOUS
  <2> QED
    BY <2>1, <1>5
<1>7. \A i \in 1 .. N : Rounds(flags)[i] = Visit(Rounds(flags)[i - 1], L[i])
  <2>1. \A i \in 1 .. N : i \in 0 .. N /\ i # 0
    OBVIOUS
  <2> QED
    BY <2>1, <1>5
<1> QED
  BY <1>1, <1>2, <1>3, <1>6, <1>7

\* The threads that a walk has resumed when it has got to a
Resumed(a) == {u \in Thread : Linked(k, event, u) /\ ~ Linked(a.k, event, u)}

\* The flags a walk has given, when it has got to a and visited i threads
WalkGives(a) ==
    /\ \A u \in Resumed(a) : Clears(want[u].option) => a.want[u].set \cap a.set = {}
    /\ \A u, v \in Resumed(a) :
           u # v /\ Clears(want[u].option) /\ Clears(want[v].option)
               => a.want[u].set \cap a.want[v].set = {}

WalkOK(a, i) ==
    /\ Releases(k, a.k, Resumed(a), {}) /\ a.k.cur = k.cur
    /\ a.set \subseteq EventFlag /\ a.want \in [Thread -> WantRecord]
    /\ \A u \in Resumed(a) : /\ a.k.err[u] = "EOK" /\ a.want[u].set \subseteq want[u].set
                             /\ \E j \in 1 .. i : u = k.list[event][j]
    /\ \A u \in Thread \ Resumed(a) : a.want[u] = want[u]
    /\ WalkGives(a)
    /\ \A j \in 1 .. i : LET u == k.list[event][j]
                         IN u \in Resumed(a) \/ ~ Satisfied(want[u], a.set)

\* The i-th thread of the list
LEMMA VisitedFacts ==
    ASSUME CallInv, NEW i \in 1 .. Len(k.list[event])
    PROVE  /\ k.list[event][i] \in Thread /\ Linked(k, event, k.list[event][i])
           /\ Suspended(k, k.list[event][i])
           /\ \A j \in 1 .. Len(k.list[event]) : k.list[event][j] = k.list[event][i] => j = i
<1>1. k.list[event] \in Seq(Thread) /\ event \in Queue
  BY CallFacts, ObjectLists DEF KernelState
<1>2. k.list[event][i] \in Thread /\ Linked(k, event, k.list[event][i])
  BY <1>1 DEF Linked, ToSet
<1>3. NoRepeats(k.list[event])
  BY <1>1, CallFacts, SoundFacts DEF NodesLinkedOnce
<1> QED
  BY <1>1, <1>2, <1>3, EmptyFacts DEF NoRepeats

\* A waiter that is satisfied is resumed.
LEMMA VisitResumes ==
    ASSUME CallInv, NEW a, Releases(k, a.k, Resumed(a), {}), NEW t \in Thread,
           Linked(k, event, t), Suspended(k, t), t \notin Resumed(a), NEW b,
           b.k = SetError(rt_thread_resume(a.k, t), t, "EOK")
    PROVE  /\ Resumed(b) = Resumed(a) \cup {t} /\ Releases(k, b.k, Resumed(b), {})
           /\ b.k.cur = a.k.cur /\ b.k.err[t] = "EOK"
           /\ \A u \in Thread \ {t} : b.k.err[u] = a.k.err[u]
<1>0. Sound(k) /\ "EOK" \in Error /\ event \in Queue
  BY CallFacts, ObjectLists DEF Error
<1>1. /\ Sound(a.k) /\ a.k.lock = k.lock
      /\ Resumed(a) \subseteq Thread /\ \A u \in Resumed(a) : Suspended(k, u)
      /\ \A q \in Queue : \A u : Linked(a.k, q, u) <=> Linked(k, q, u) /\ u \notin Resumed(a)
      /\ \A u \in Thread : Suspended(a.k, u) <=> Suspended(k, u) /\ u \notin Resumed(a)
      /\ \A u \in Thread \ Resumed(a) : a.k.err[u] = k.err[u]
  BY DEF Releases
<1>2. Suspended(a.k, t)
  BY <1>1
<1>3. PICK m : m = rt_thread_resume(a.k, t)
  OBVIOUS
<1>4. Sound(m) /\ Wakes(a.k, m, t) /\ m.err = a.k.err /\ m.cur = a.k.cur
  BY <1>1, <1>2, <1>3, ResumeSound, ResumeFrame
<1>5. /\ \A q \in Queue : \A u : Linked(m, q, u) <=> Linked(a.k, q, u) /\ u # t
      /\ \A u \in Thread : Suspended(m, u) <=> Suspended(a.k, u) /\ u # t
  BY <1>1, <1>4, WakesLinks
<1>6. m.lock = a.k.lock
  BY <1>4 DEF Wakes
<1>7. /\ Sound(b.k) /\ b.k.list = m.list /\ b.k.stat = m.stat /\ b.k.cur = m.cur
      /\ b.k.lock = m.lock /\ b.k.err[t] = "EOK" /\ \A u \in Thread \ {t} : b.k.err[u] = m.err[u]
  BY <1>0, <1>3, <1>4, SetErrorFrame DEF SetError
<1>8. /\ \A q \in Queue : \A u : Linked(b.k, q, u) <=> Linked(m, q, u)
      /\ \A u \in Thread : Suspended(b.k, u) <=> Suspended(m, u)
  BY <1>7 DEF Linked, Suspended
<1>9. Resumed(b) = Resumed(a) \cup {t}
  BY <1>0, <1>1, <1>5, <1>8 DEF Resumed
<1>10. \A q \in Queue : \A u : Linked(b.k, q, u) <=> Linked(k, q, u) /\ u \notin Resumed(b)
  BY <1>1, <1>5, <1>8, <1>9
<1>11. \A u \in Thread : Suspended(b.k, u) <=> Suspended(k, u) /\ u \notin Resumed(b)
  BY <1>1, <1>5, <1>8, <1>9
<1>12. \A u \in Thread \ Resumed(b) : b.k.err[u] = k.err[u]
  BY <1>1, <1>4, <1>7, <1>9
<1>13. Resumed(b) \subseteq Thread /\ \A u \in Resumed(b) : Suspended(k, u)
  BY <1>1, <1>9
<1>14. Releases(k, b.k, Resumed(b), {})
  BY <1>1, <1>6, <1>7, <1>10, <1>11, <1>12, <1>13 DEF Releases
<1> QED
  BY <1>4, <1>7, <1>9, <1>14

\* One round of the walk.
LEMMA WalkRound ==
    ASSUME CallInv, EventInv, NEW i \in 1 .. Len(k.list[event]), NEW a, WalkOK(a, i - 1),
           NEW b, b = Visit(a, k.list[event][i])
    PROVE  WalkOK(b, i)
<1>0. PICK t \in Thread : t = k.list[event][i]
  BY VisitedFacts
<1>1. /\ Linked(k, event, t) /\ Suspended(k, t)
      /\ \A j \in 1 .. Len(k.list[event]) : k.list[event][j] = t => j = i
  BY <1>0, VisitedFacts
<1>2. /\ Releases(k, a.k, Resumed(a), {}) /\ a.k.cur = k.cur
      /\ a.set \subseteq EventFlag /\ a.want \in [Thread -> WantRecord]
      /\ \A u \in Resumed(a) : /\ a.k.err[u] = "EOK" /\ a.want[u].set \subseteq want[u].set
                               /\ \E j \in 1 .. i - 1 : u = k.list[event][j]
      /\ \A u \in Thread \ Resumed(a) : a.want[u] = want[u]
      /\ WalkGives(a)
      /\ \A j \in 1 .. i - 1 : \/ k.list[event][j] \in Resumed(a)
                               \/ ~ Satisfied(want[k.list[event][j]], a.set)
  BY DEF WalkOK
<1>3. i \in Nat /\ Len(k.list[event]) \in Nat /\ \A j \in 1 .. i : j = i \/ j \in 1 .. i - 1
  <2>1. Len(k.list[event]) \in Nat
    BY RoundsUnfold
  <2> QED
    BY <2>1
<1>4. \A j \in 1 .. i - 1 : j \in 1 .. i /\ j \in 1 .. Len(k.list[event]) /\ j # i
  BY <1>3
<1>5. t \notin Resumed(a) /\ a.want[t] = want[t] /\ want[t] \in WantRecord
  <2>1. t \notin Resumed(a)
    BY <1>1, <1>2, <1>4
  <2> QED
    BY <2>1, <1>2, EventFacts
<1>6. CASE ~ Satisfied(a.want[t], a.set)
  <2>1. b = a
    BY <1>0, <1>6 DEF Visit
  <2>2. \A u \in Resumed(a) : \E j \in 1 .. i : u = k.list[event][j]
    BY <1>2, <1>4
  <2>3. \A j \in 1 .. i : \/ k.list[event][j] \in Resumed(a)
                          \/ ~ Satisfied(want[k.list[event][j]], a.set)
    BY <1>0, <1>2, <1>3, <1>5, <1>6
  <2> QED
    BY <2>1, <2>2, <2>3, <1>2 DEF WalkOK
<1>7. CASE Satisfied(a.want[t], a.set)
  <2>1. PICK got : got = IF IsAnd(a.want[t].option) THEN a.want[t].set
                         ELSE a.want[t].set \cap a.set
    OBVIOUS
  <2>2. b = [k |-> SetError(rt_thread_resume(a.k, t), t, "EOK"),
             set |-> IF Clears(a.want[t].option) THEN a.set \ got ELSE a.set,
             want |-> [a.want EXCEPT ![t].set = got]]
    BY <2>1, <1>0, <1>7 DEF Visit
  <2>3. got \subseteq want[t].set /\ got \subseteq a.set
    BY <2>1, <1>5, <1>7 DEF Satisfied
  <2>4. /\ b.k = SetError(rt_thread_resume(a.k, t), t, "EOK")
        /\ b.set = IF Clears(want[t].option) THEN a.set \ got ELSE a.set
        /\ b.want = [a.want EXCEPT ![t].set = got]
    BY <2>2, <1>5
  <2>5. /\ b.want \in [Thread -> WantRecord] /\ b.want[t].set = got
        /\ \A u \in Thread \ {t} : b.want[u] = a.want[u]
    <3>1. got \subseteq EventFlag
      BY <2>3, <1>2
    <3>2. [a.want[t] EXCEPT !.set = got] \in WantRecord
          /\ [a.want[t] EXCEPT !.set = got].set = got
      BY <3>1, <1>5 DEF WantRecord
    <3>3. b.want = [a.want EXCEPT ![t] = [a.want[t] EXCEPT !.set = got]]
      BY <2>4
    <3> QED
      BY <3>2, <3>3, <1>2
  <2>6. /\ Resumed(b) = Resumed(a) \cup {t} /\ Releases(k, b.k, Resumed(b), {})
        /\ b.k.cur = a.k.cur /\ b.k.err[t] = "EOK"
        /\ \A u \in Thread \ {t} : b.k.err[u] = a.k.err[u]
    BY <2>4, <1>1, <1>2, <1>5, VisitResumes
  <2>7. b.set \subseteq a.set /\ b.set \subseteq EventFlag
    BY <2>4, <1>2
  <2>8. ASSUME NEW u \in Resumed(b)
        PROVE  /\ b.k.err[u] = "EOK" /\ b.want[u].set \subseteq want[u].set
               /\ \E j \in 1 .. i : u = k.list[event][j]
    <3>1. CASE u = t
      <4>1. i \in 1 .. i
        BY <1>3
      <4> QED
        BY <4>1, <3>1, <2>3, <2>5, <2>6, <1>0
    <3>2. CASE u # t
      <4>1. u \in Resumed(a) /\ u \in Thread
        BY <3>2, <2>6 DEF Resumed
      <4> QED
        BY <4>1, <3>2, <2>5, <2>6, <1>2, <1>4
    <3> QED
      BY <3>1, <3>2
  <2>9. \A u \in Thread \ Resumed(b) : b.want[u] = want[u]
    BY <2>5, <2>6, <1>2
  <2>10. \A u \in Resumed(a) : u \in Thread /\ u # t /\ b.want[u] = a.want[u]
    BY <2>5, <1>5 DEF Resumed
  <2>11. WalkGives(b)
    <3>1. /\ \A u \in Resumed(a) : Clears(want[u].option) => a.want[u].set \cap a.set = {}
          /\ \A u, v \in Resumed(a) :
                 u # v /\ Clears(want[u].option) /\ Clears(want[v].option)
                     => a.want[u].set \cap a.want[v].set = {}
      BY <1>2 DEF WalkGives
    <3>2. ASSUME NEW u \in Resumed(b), Clears(want[u].option)
          PROVE  b.want[u].set \cap b.set = {}
      <4>1. CASE u = t
        BY <4>1, <3>2, <2>4, <2>5
      <4>2. CASE u # t
        BY <4>2, <3>1, <3>2, <2>6, <2>7, <2>10
      <4> QED
        BY <4>1, <4>2
    <3>3. ASSUME NEW u \in Resumed(a), Clears(want[u].option)
          PROVE  b.want[u].set \cap b.want[t].set = {}
      BY <3>1, <3>3, <2>3, <2>5, <2>10
    <3>4. ASSUME NEW u \in Resumed(b), NEW v \in Resumed(b), u # v,
                 Clears(want[u].option), Clears(want[v].option)
          PROVE  b.want[u].set \cap b.want[v].set = {}
      <4>1. CASE u = t
        <5>1. b.want[v].set \cap b.want[t].set = {}
          BY <4>1, <3>3, <3>4, <2>6
        <5> QED
          BY <5>1, <4>1
      <4>2. CASE v = t
        BY <4>2, <3>3, <3>4, <2>6
      <4>3. CASE u # t /\ v # t
        BY <4>3, <3>1, <3>4, <2>6, <2>10
      <4> QED
        BY <4>1, <4>2, <4>3
    <3> QED
      BY <3>2, <3>4 DEF WalkGives
  <2>12. ASSUME NEW j \in 1 .. i
         PROVE  k.list[event][j] \in Resumed(b) \/ ~ Satisfied(want[k.list[event][j]], b.set)
    <3>1. CASE j = i
      BY <3>1, <2>6, <1>0
    <3>2. CASE j \in 1 .. i - 1
      BY <3>2, <2>6, <2>7, <1>2, FewerFlags
    <3> QED
      BY <3>1, <3>2, <1>3
  <2> QED
    BY <2>5, <2>6, <2>7, <2>8, <2>9, <2>11, <2>12, <1>2 DEF WalkOK
<1> QED
  BY <1>6, <1>7

\* The whole walk.
LEMMA WalkFacts ==
    ASSUME CallInv, EventInv, NEW flags \in SUBSET EventFlag
    PROVE  WalkOK(Walk(flags), Len(k.list[event]))
<1>0. /\ Rounds(flags)[0] = [k |-> k, set |-> set \cup flags, want |-> want]
      /\ \A i \in 1 .. Len(k.list[event]) :
             Rounds(flags)[i] = Visit(Rounds(flags)[i - 1], k.list[event][i])
      /\ Len(k.list[event]) \in Nat
  BY RoundsUnfold
<1>1. PICK N \in Nat : N = Len(k.list[event])
  BY <1>0
<1> DEFINE G == {i \in 0 .. N : ~ WalkOK(Rounds(flags)[i], i)}
<1>2. SUFFICES ASSUME G # {} PROVE FALSE
  <2>1. G = {} => WalkOK(Rounds(flags)[N], N)
    OBVIOUS
  <2> QED
    BY <2>1, <1>1 DEF Walk
<1>3. PICK i \in G : \A j \in G : i <= j
  <2>1. G \subseteq Nat
    OBVIOUS
  <2> QED
    BY <2>1, <1>2, LeastPosition
<1>4. CASE i = 0
  <2>1. PICK a : a = Rounds(flags)[0]
    OBVIOUS
  <2>2. a.k = k /\ a.set = set \cup flags /\ a.want = want
    BY <2>1, <1>0
  <2>3. Resumed(a) = {} /\ Releases(k, a.k, Resumed(a), {})
    <3>1. Resumed(a) = {}
      BY <2>2 DEF Resumed
    <3>2. Releases(k, k, {}, {})
      BY CallFacts, CalmSame, FreesNobody
    <3> QED
      BY <3>1, <3>2, <2>2
  <2>4. a.set \subseteq EventFlag /\ a.want \in [Thread -> WantRecord]
    BY <2>2, EventFacts
  <2>5. WalkGives(a)
    BY <2>3 DEF WalkGives
  <2>6. WalkOK(a, 0)
    BY <2>2, <2>3, <2>4, <2>5 DEF WalkOK
  <2> QED
    BY <2>1, <2>6, <1>3, <1>4
<1>5. CASE i # 0
  <2>1. i \in 1 .. N /\ i - 1 \in 0 .. N /\ ~ (i <= i - 1)
    BY <1>3, <1>5
  <2>2. WalkOK(Rounds(flags)[i - 1], i - 1)
    BY <2>1, <1>3
  <2>3. Rounds(flags)[i] = Visit(Rounds(flags)[i - 1], k.list[event][i])
    BY <2>1, <1>0, <1>1
  <2>4. WalkOK(Rounds(flags)[i], i)
    BY <2>1, <2>2, <2>3, <1>1, WalkRound
  <2> QED
    BY <2>4, <1>3
<1> QED
  BY <1>4, <1>5

\* What a walk does to the threads and the two objects.
LEMMA WalkStep ==
    ASSUME ObjInv, NEW flags \in SUBSET EventFlag, NEW a, a = Walk(flags),
           set' = a.set, want' = a.want, NEW t \in Thread, Goes(t), CurrentStays, CallTypes,
           Releases(k, k', Resumed(a), {}), k'.err = a.k.err, alive' = alive, mqvars' = mqvars,
           DetachesQueue(t)' <=> DetachesQueue(t),
           pc'[t] = pc[t] \/ (pc[t] \notin Copying /\ pc'[t] \notin Copying),
           pc'[t] \in Waiting \/ pc[t] \notin Waiting
    PROVE  StepOK
<1>0. CallInv /\ EventInv /\ QueueInv
  BY DEF ObjInv
<1>1. WalkOK(a, Len(k.list[event]))
  BY <1>0, WalkFacts
<1>2. /\ a.set \subseteq EventFlag /\ a.want \in [Thread -> WantRecord]
      /\ \A u \in Resumed(a) : a.want[u].set \subseteq want[u].set
      /\ \A u \in Thread \ Resumed(a) : a.want[u] = want[u]
      /\ WalkGives(a)
      /\ \A j \in 1 .. Len(k.list[event]) :
             \/ k.list[event][j] \in Resumed(a)
             \/ ~ Satisfied(want[k.list[event][j]], a.set)
  BY <1>1 DEF WalkOK
<1>3. CallInv' /\ Moves(Resumed(a), t)
  <2>1. {} \subseteq {t}
    OBVIOUS
  <2> QED
    BY <2>1, <1>0, FreeStep
<1>4. \A u : Linked(k', event, u) <=> Linked(k, event, u) /\ u \notin Resumed(a)
  BY <1>3, ObjectLists DEF Moves
<1>5. EventInv'
  <2>1. ASSUME NEW u \in Thread, Linked(k', event, u)
        PROVE  want'[u].set # {} /\ ~ Satisfied(want'[u], set')
    <3>1. Linked(k, event, u) /\ u \notin Resumed(a)
      BY <2>1, <1>4
    <3>2. PICK j \in 1 .. Len(k.list[event]) : u = k.list[event][j]
      <4>1. k.list[event] \in Seq(Thread)
        BY <1>0, CallFacts, ObjectLists DEF KernelState
      <4> QED
        BY <4>1, <3>1 DEF Linked, ToSet
    <3>3. ~ Satisfied(want[u], a.set) /\ a.want[u] = want[u]
      BY <3>1, <3>2, <1>2
    <3>4. want[u].set # {}
      BY <3>1, <1>0, EventFacts
    <3> QED
      BY <3>3, <3>4
  <2> QED
    BY <2>1, <1>2, EventInvNext
<1>6. FlagStep
  <2>1. \A u \in Thread : Cleared(u) => u \in Resumed(a) /\ Clears(want[u].option)
    BY <1>4, ClearedFacts
  <2>2. /\ \A u \in Resumed(a) : Clears(want[u].option) => a.want[u].set \cap a.set = {}
        /\ \A u, v \in Resumed(a) :
               u # v /\ Clears(want[u].option) /\ Clears(want[v].option)
                   => a.want[u].set \cap a.want[v].set = {}
    BY <1>2 DEF WalkGives
  <2> QED
    BY <2>1, <2>2, <1>2 DEF FlagStep
<1>7. ASSUME NEW q \in {receivers, senders} PROVE Untouched(q)
  <2>1. q \in Queue /\ q # event /\ event \in Queue
    BY ObjectLists
  <2>2. \A u \in Resumed(a) : ~ Linked(k, q, u)
    <3>1. \A u \in Resumed(a) : u \in Thread /\ Linked(k, event, u) /\ Suspended(k, u)
      BY DEF Resumed, Releases
    <3> QED
      BY <3>1, <2>1, <1>0, SuspendedFacts
  <2>3. /\ \A u : Linked(k', q, u) <=> Linked(k, q, u) /\ u \notin Resumed(a)
        /\ \A u : u \in Woken(q)' <=>
               \/ u \in Woken(q) /\ (u # t \/ pc'[t] \in Waiting)
               \/ u \in Resumed(a) /\ Linked(k, q, u) /\ k'.err[u] = "EOK"
    BY <2>1, <1>3 DEF Moves
  <2>4. \A u : u \in Woken(q) => u # t \/ pc'[t] \in Waiting
    BY WokenFacts
  <2>5. \A u : u \in Woken(q)' <=> u \in Woken(q)
    BY <2>2, <2>3, <2>4
  <2> QED
    BY <2>3, <2>5 DEF Untouched, NoMoreWait
<1>8. \A u \in Thread \ {t} : pc'[u] = pc[u] /\ at'[u] = at[u]
  BY DEF Goes
<1>9. LifeInv'
  <2>1. hold' = hold
    BY DEF mqvars
  <2> QED
    BY <2>1, <1>0, <1>7, <1>8, LifeAside DEF Untouched
<1>10. pc'[t] \in Waiting /\ at'[t] = senders => pc[t] \in Waiting /\ at[t] = senders
  BY DEF Goes
<1>11. QueueInv' /\ AbstractStep
  BY <1>0, <1>7, <1>8, <1>9, <1>10, QueueAside
<1> QED
  BY <1>3, <1>5, <1>6, <1>11 DEF StepOK, ObjInv

LEMMA EventSendStep ==
    ASSUME ObjInv, NEW t \in App, NEW flags \in SUBSET EventFlag, EventSend(t, flags),
           mqvars' = mqvars
    PROVE  StepOK
<1>1. PICK a : a = Walk(flags)
  OBVIOUS
<1>2. /\ At(t, "run") /\ k' = a.k /\ set' = a.set /\ want' = a.want
      /\ at' = at /\ alive' = alive
  BY <1>1 DEF EventSend, Uses
<1>3. PICK l \in {"run", "resched"} : Goto(t, l)
  BY DEF EventSend
<1>4. /\ t \in Thread /\ CallInv /\ EventInv /\ k.cur = t /\ pc[t] = "run" /\ ~ Suspended(k, t)
      /\ ~ DetachesQueue(t) /\ "run" \notin Copying /\ "run" \notin Waiting
  BY <1>2, UserFacts
<1>5. l \in Location /\ l \notin Waiting /\ l \notin Emptying /\ l \notin Copying
  BY Locations DEF Emptying
<1>6. Goes(t) /\ CallTypes /\ pc'[t] = l
  BY <1>2, <1>3, <1>4, <1>5, GoesTo
<1>7. WalkOK(a, Len(k.list[event]))
  BY <1>1, <1>4, WalkFacts
<1>8. Releases(k, k', Resumed(a), {}) /\ k'.cur = k.cur
  BY <1>2, <1>7 DEF WalkOK
<1>9. CurrentStays
  BY <1>4, <1>8 DEF CurrentStays
<1>10. ~ DetachesQueue(t)'
  BY <1>5, <1>6 DEF DetachesQueue, Emptying
<1> QED
  BY <1>1, <1>2, <1>4, <1>5, <1>6, <1>8, <1>9, <1>10, WalkStep

LEMMA HandlerSendsEventStep ==
    ASSUME ObjInv, NEW flags \in SUBSET EventFlag, HandlerSendsEvent(flags), mqvars' = mqvars
    PROVE  StepOK
<1>0. CallInv /\ EventInv /\ k.cur \in Thread /\ k.lock = 0
  BY CallFacts DEF ObjInv
<1>1. PICK a : a = Walk(flags)
  OBVIOUS
<1>2. /\ k' = IF a.k = k THEN k ELSE rt_schedule(a.k)
      /\ set' = a.set /\ want' = a.want /\ pc' = pc /\ at' = at /\ alive' = alive
  BY <1>1 DEF HandlerSendsEvent
<1>3. PICK t \in Thread : t = k.cur
  BY <1>0
<1>4. Goes(t) /\ CallTypes /\ pc'[t] = pc[t] /\ at'[t] = at[t]
  BY <1>0, <1>2, NobodyGoes
<1>5. WalkOK(a, Len(k.list[event]))
  BY <1>0, <1>1, WalkFacts
<1>6. Releases(k, a.k, Resumed(a), {}) /\ a.k.cur = k.cur
  BY <1>5 DEF WalkOK
<1>7. Releases(k, k', Resumed(a), {}) /\ k'.err = a.k.err /\ CurrentStays
  <2>1. CASE a.k = k
    <3>1. k' = k
      BY <2>1, <1>2
    <3> QED
      BY <3>1, <2>1, <1>2, <1>6 DEF CurrentStays
  <2>2. CASE a.k # k
    <3>1. k' = rt_schedule(a.k) /\ Sound(a.k) /\ a.k.lock = 0
      BY <2>2, <1>0, <1>2, <1>6 DEF Releases
    <3>2. Sound(k') /\ Calm(a.k, k') /\ k'.err = a.k.err /\ k'.stat[k'.cur] = "RUNNING"
      BY <3>1, ScheduleSound, ScheduleFrame, ScheduleRuns
    <3> QED
      BY <3>2, <1>6, FreesThenCalm DEF CurrentStays
  <2> QED
    BY <2>1, <2>2
<1>8. DetachesQueue(t)' <=> DetachesQueue(t)
  BY <1>4 DEF DetachesQueue
<1> QED
  BY <1>1, <1>2, <1>4, <1>7, <1>8, WalkStep

LEMMA EventStepOK ==
    ASSUME ObjInv, NEW t \in App, EventStep(t), mqvars' = mqvars
    PROVE  StepOK
<1>1. ASSUME NEW flags \in SUBSET EventFlag, EventSend(t, flags) PROVE StepOK
  BY <1>1, EventSendStep
<1>2. ASSUME NEW s \in (SUBSET EventFlag) \ {{}}, NEW o \in Option,
             LET w == [set |-> s, option |-> o]
             IN \/ RecvSatisfied(t, w)
                \/ \E time \in Time : RecvNoWait(t, w, time)
                \/ \E time \in Time, flag \in Flag : RecvBlocks(t, w, time, flag)
      PROVE  StepOK
  <2>1. PICK w : w = [set |-> s, option |-> o]
    OBVIOUS
  <2>2. \/ RecvSatisfied(t, w)
        \/ \E time \in Time : RecvNoWait(t, w, time)
        \/ \E time \in Time, flag \in Flag : RecvBlocks(t, w, time, flag)
    BY <2>1, <1>2
  <2> QED
    BY <2>1, <2>2, RecvStep
<1>3. CASE RecvReturns(t)
  BY <1>3, RecvReturnsStep
<1>4. CASE \/ EventResetEnds(t) \/ EventReinit(t)
           \/ (ResetBegins(t, event) \/ DetachBegins(t, event)) /\ UNCHANGED eventvars
  BY <1>4, EventControlStep
<1> QED
  BY <1>1, <1>2, <1>3, <1>4 DEF EventStep

-----------------------------------------------------------------------------
(* The theorems *)

LEMMA InitHolds ==
    ASSUME Init
    PROVE  ObjInv /\ Abstract!Init
<1>1. PICK main \in App : k = KernelStart(main)
  BY DEF Init
<1>2. Sound(k) /\ \A q \in Queue : \A u : ~ Linked(k, q, u)
  BY <1>1, KernelStartSound
<1>3. /\ pc = [t \in Thread |-> "run"] /\ at = [t \in Thread |-> NoList]
      /\ alive = {event, receivers} /\ set = {} /\ want = [t \in Thread |-> NoWant]
      /\ mq = [msgs |-> <<>>, free |-> Size] /\ hold = [t \in Thread |-> NoMsg]
      /\ call = [t \in Thread |-> NoCall]
  BY DEF Init, EventInit, MessageQueueInit, EmptyQueue
<1>4. k \in KernelState /\ k.lock = 0 /\ \A t \in Thread : ~ Suspended(k, t)
  BY <1>1, <1>2 DEF Sound, KernelStart, Suspended, SuspendFlag
<1>5. k.cur \in Thread
  BY <1>4 DEF KernelState
<1>6. /\ pc \in [Thread -> Location] /\ at \in [Thread -> Queue \cup {NoList}]
      /\ alive \subseteq Queue
      /\ \A t \in Thread : pc[t] = "run" /\ at[t] = NoList /\ hold[t] = NoMsg
  BY <1>3, ObjectLists DEF Location
<1>7. CallInv
  <2>1. \A u \in Thread : ThreadInv(u)
    BY <1>4, <1>6 DEF ThreadInv, Waiting, Emptying
  <2>2. RunInv
    BY <1>4, <1>5 DEF RunInv
  <2> QED
    BY <2>1, <2>2, <1>2, <1>4, <1>6 DEF CallInv, CallsTypeOK, Sound
<1>8. EventInv
  <2>1. NoWant \in [set : SUBSET EventFlag, option : {"AND", "OR", "AND_CLEAR", "OR_CLEAR"}]
    BY DEF NoWant
  <2> QED
    BY <2>1, <1>2, <1>3, ObjectLists DEF EventInv, EventTypeOK
<1>9. MessageQueueTypeOK
  <2>1. Size \in 0 .. Size /\ <<>> \in Seq(Msg)
    BY MessageQueueAssumption
  <2> QED
    BY <2>1, <1>3, NoCallType DEF MessageQueueTypeOK, CallRecord
<1>10. HoldInv
  BY <1>6 DEF HoldInv, Copying, Waiting
<1>11. CountInv
  <2>1. Held = {}
    BY <1>6 DEF Held
  <2>2. Cardinality(Held) = 0
    BY <2>1, FS_EmptySet
  <2>3. mq.msgs = <<>> /\ mq.free = Size /\ Len(mq.msgs) = 0 /\ Size \in Nat
    BY <1>3, MessageQueueAssumption
  <2>4. mq.free + Len(mq.msgs) + Cardinality(Held) = Size
    BY <2>2, <2>3
  <2>5. \A n : Served(receivers, n) /\ Served(senders, n)
    BY <1>2, ObjectLists DEF Served
  <2> QED
    BY <2>4, <2>5 DEF CountInv
<1>12. LifeInv
  BY <1>3, <1>6 DEF LifeInv, DetachesQueue
<1>13. Abstract!Init
  <2>1. mq.msgs = <<>>
    BY <1>3
  <2>2. Hands = [t \in Thread |-> [role |-> "none", msg |-> NoMsg]]
    BY <1>6 DEF Hands
  <2> QED
    BY <2>1, <2>2 DEF Abstract!Init, Abstract!Nothing, Hands
<1> QED
  BY <1>7, <1>8, <1>9, <1>10, <1>11, <1>12, <1>13 DEF ObjInv, QueueInv

LEMMA StepHolds ==
    ASSUME ObjInv, [Next]_vars
    PROVE  StepOK
<1>0. EventUser \subseteq App /\ QueueUser \subseteq App
  BY ObjectsAssumption
<1>1. CASE Next
  <2>1. ASSUME NEW t \in EventUser, EventStep(t), UNCHANGED mqvars PROVE StepOK
    BY <2>1, <1>0, EventStepOK
  <2>2. ASSUME NEW t \in QueueUser, MessageQueueStep(t), UNCHANGED eventvars PROVE StepOK
    BY <2>2, <1>0, MessageQueueStepOK
  <2>3. ASSUME NEW t \in App, ThreadStep(t), UNCHANGED <<eventvars, mqvars>> PROVE StepOK
    BY <2>3, ThreadStepOK
  <2>4. CASE InterruptStep /\ UNCHANGED <<eventvars, mqvars>>
    BY <2>4, InterruptStepOK
  <2>5. ASSUME NEW flags \in SUBSET EventFlag, HandlerSendsEvent(flags), UNCHANGED mqvars
        PROVE  StepOK
    BY <2>5, HandlerSendsEventStep
  <2>6. ASSUME NEW m \in Msg, HandlerSendsMessage(m), UNCHANGED eventvars PROVE StepOK
    BY <2>6, HandlerSendsMessageStep
  <2> QED
    BY <1>1, <2>1, <2>2, <2>3, <2>4, <2>5, <2>6 DEF Next
<1>2. CASE UNCHANGED vars
  <2>1. /\ k' = k /\ pc' = pc /\ at' = at /\ alive' = alive /\ set' = set /\ want' = want
        /\ mq' = mq /\ hold' = hold /\ call' = call
    BY <1>2 DEF vars, callvars, eventvars, mqvars
  <2>2. CallInv'
    BY <2>1 DEF ObjInv, CallInv, CallsTypeOK, ThreadInv, RunInv
  <2>3. EventInv'
    BY <2>1 DEF ObjInv, EventInv, EventTypeOK, Satisfied, IsAnd
  <2>4. \A q : Woken(q)' = Woken(q)
    BY <2>1 DEF Woken, Waiters
  <2>5. QueueInv'
    <3>1. MessageQueueTypeOK' /\ HoldInv'
      BY <2>1 DEF ObjInv, QueueInv, MessageQueueTypeOK, HoldInv
    <3>2. CountInv' /\ LifeInv'
      BY <2>1, <2>4 DEF ObjInv, QueueInv, CountInv, Served, Held, LifeInv, DetachesQueue
    <3> QED
      BY <3>1, <3>2 DEF QueueInv
  <2>6. FlagStep
    BY <2>1, ClearedFacts DEF FlagStep
  <2>7. Hands' = Hands
    BY <2>1 DEF Hands
  <2>8. AbstractStep
    BY <2>1, <2>7, SameAbstract
  <2> QED
    BY <2>2, <2>3, <2>5, <2>6, <2>8 DEF StepOK, ObjInv
<1> QED
  BY <1>1, <1>2

\* Whatever threads and interrupt handlers do with the event and the message queue,
\* and whatever time-outs, signals, resets and detaches come in between, the state of
\* the two objects and of the threads that use them is one of those that the inductive
\* invariant describes.
THEOREM ObjectsInvariant == Spec => []ObjInv
<1>1. Init => ObjInv
  BY InitHolds
<1>2. ObjInv /\ [Next]_vars => ObjInv'
  BY StepHolds DEF StepOK
<1> QED
  BY <1>1, <1>2, PTL DEF Spec

\* The ready table, its bitmap, the suspend lists of the event and of the message queue
\* and the states of the threads agree, although the same threads wait now for the one
\* and now for the other (ipc.c, scheduler.c).
THEOREM ObjectsKernel == Spec => []KernelInv
<1>1. ObjInv => KernelInv
  BY DEF ObjInv, CallInv, EventInv, QueueInv, KernelInv
<1> QED
  BY <1>1, ObjectsInvariant, PTL

\* Nobody waits for flags that are set: rt_event_send leaves no thread on the list that
\* could go on, although the flags that one waiter clears are gone for the next.
THEOREM ObjectsNoWaiterSatisfied == Spec => []NoWaiterSatisfied
<1>1. ASSUME ObjInv
      PROVE  NoWaiterSatisfied
  <2>1. CallInv /\ EventInv
    BY <1>1 DEF ObjInv
  <2>2. \A u : Linked(k, event, u) => u \in Thread
    BY <2>1, ObjectLists, EmptyFacts
  <2> QED
    BY <2>1, <2>2 DEF EventInv, NoWaiterSatisfied, Waiters, Linked
<1> QED
  BY <1>1, ObjectsInvariant, PTL

\* A flag that is to be cleared is given to one of the threads that one rt_event_send
\* resumes and is not left in event->set, however many threads there are on the list
\* and whatever they asked for.
THEOREM ObjectsFlagGivenOnce == Spec => FlagGivenOnce
<1>1. ObjInv /\ [Next]_vars =>
          [\A t \in Thread : Cleared(t) =>
               /\ want'[t].set \subseteq want[t].set
               /\ want'[t].set \cap set' = {}
               /\ \A u \in Thread \ {t} : Cleared(u) => want'[t].set \cap want'[u].set = {}
          ]_<<k, set, want>>
  BY StepHolds DEF StepOK, FlagStep
<1> QED
  BY <1>1, ObjectsInvariant, PTL DEF Spec, FlagGivenOnce

\* While receivers wait, every message in the queue has a receiver on its way to it,
\* and while senders wait every free message has a sender on its way, although messages
\* are copied with interrupts enabled; and none is lost between the queue, the free
\* list and the threads that copy (_rt_mq_send_wait, rt_mq_urgent, _rt_mq_recv).
THEOREM ObjectsNoMessageWaits == Spec => []NoMessageWaits
<1>1. ASSUME ObjInv
      PROVE  NoMessageWaits
  <2>1. CallInv /\ CountInv
    BY <1>1 DEF ObjInv, QueueInv
  <2>2. /\ ~ IsEmpty(receivers) => \E u : Linked(k, receivers, u)
        /\ ~ IsEmpty(senders) => \E u : Linked(k, senders, u)
    BY <2>1, ObjectLists, EmptyFacts
  <2> QED
    BY <2>1, <2>2 DEF CountInv, Served, Held, NoMessageWaits
<1> QED
  BY <1>1, ObjectsInvariant, PTL

\* The message queue implements a bounded queue with messages in the hands of those who
\* copy them: messages arrive once and in order, urgent ones first, and only
\* RT_IPC_CMD_RESET and a new initialisation drop any, for every number of threads,
\* every size and every interleaving with timeouts, signals and handlers.
THEOREM ObjectsImplement == Spec => QueueImplementsAbstract
<1>1. Init => Abstract!Init
  BY InitHolds
<1>2. ObjInv /\ [Next]_vars => [Abstract!Next]_Abstract!vars
  BY StepHolds DEF StepOK, AbstractStep
<1> QED
  BY <1>1, <1>2, ObjectsInvariant, PTL DEF Spec, QueueImplementsAbstract, Abstract!Spec
=============================================================================
