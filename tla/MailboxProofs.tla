---------------------------- MODULE MailboxProofs ----------------------------
(***************************************************************************)
(* The invariants of the mailbox, for every number of threads and mails,   *)
(* every size and both orders of the suspend lists, and the proof that the *)
(* mailbox implements a bounded first-in first-out queue.                  *)
(***************************************************************************)
EXTENDS Mailbox, KernelProofs

-----------------------------------------------------------------------------
(* The inductive invariant *)

Waits == {"blocking", "blocked"}

\* A suspended thread is in a call and in the list of that call; a call that sends
\* has a mail.
ThreadInv(t) ==
    /\ Suspended(k, t) => /\ pc[t] \in Waits /\ Linked(k, call[t].list, t)
                          /\ k.err[t] = "EINTR"
    /\ pc[t] \in Waits /\ call[t].list = senders => call[t].mail \in Mail

\* Nobody locks the scheduler, and the running thread is suspended only between
\* putting itself on a list and calling rt_schedule.
RunInv == k.lock = 0 /\ (Suspended(k, k.cur) => pc[k.cur] = "blocking")

\* Where the ring has its i-th place from the beginning of the pool on.
Slot(i) == IF i < Size THEN i ELSE i - Size

\* The mails are in the places from out_offset up to in_offset.
RingInv ==
    /\ mb.in = Slot(mb.out + mb.entry)
    /\ \A i \in 0 .. mb.entry - 1 : mb.pool[Slot(mb.out + i)] \in Mail

\* A mailbox that is in use is not being detached; in one that is, no thread is on
\* its way to look at it again, and the receivers are resumed before the senders.
LifeInv ==
    /\ alive => \A u \in Thread : pc[u] \notin Detaching
    /\ ~ alive => Woken(receivers) = {} /\ Woken(senders) = {}
    /\ \A u \in Thread : pc[u] \in {"detach3", "detach4"} => Waiters(receivers) = {}
    /\ DetachedIsEmpty

MailInv ==
    /\ KernelInv
    /\ (\A t \in Thread : ThreadInv(t)) /\ RunInv
    /\ NobodyForgotten /\ LifeInv /\ RingInv

\* The two lists are lists of the kernel.
LEMMA MailQueues ==
    /\ receivers \in Queue /\ senders \in Queue /\ receivers # senders
    /\ receivers \in Prio \cup Queue /\ senders \in Prio \cup Queue
  BY MailboxAssumption

LEMMA MailFacts ==
    ASSUME MailInv
    PROVE  /\ TypeOK /\ Sound(k) /\ k \in KernelState /\ k.cur \in Thread /\ k.lock = 0
           /\ \A u \in Thread : ThreadInv(u)
           /\ RunInv /\ NobodyForgotten /\ LifeInv /\ RingInv
<1>1. k \in KernelState
  BY DEF MailInv, KernelInv, TypeOK
<1>2. k.cur \in Thread
  BY <1>1 DEF KernelState
<1> QED
  BY <1>1, <1>2 DEF MailInv, KernelInv, Sound, RunInv

LEMMA MailInvNext ==
    ASSUME Sound(k'), TypeOK', (\A u \in Thread : ThreadInv(u)'), RunInv',
           NobodyForgotten', LifeInv', RingInv'
    PROVE  MailInv'
  BY DEF MailInv, KernelInv, Sound

\* Waiters and woken threads, in terms of the lists of the kernel.
LEMMA WaitersFacts ==
    /\ \A q : Waiters(q) = {} <=> \A u : ~ Linked(k, q, u)
    /\ \A q : Waiters(q)' = {} <=> \A u : ~ Linked(k', q, u)
    /\ \A q, u : u \in Waiters(q) <=> Linked(k, q, u)
  BY DEF Waiters, Linked

LEMMA WokenFacts ==
    ASSUME NEW q
    PROVE  /\ \A u : u \in Woken(q) <=> /\ u \in Thread /\ pc[u] \in Waits /\ call[u].list = q
                                        /\ ~ Linked(k, q, u) /\ k.err[u] = "EOK"
           /\ \A u : u \in Woken(q)' <=> /\ u \in Thread /\ pc'[u] \in Waits /\ call'[u].list = q
                                         /\ ~ Linked(k', q, u) /\ k'.err[u] = "EOK"
  BY DEF Woken, Waiters, Linked, Waits

LEMMA WokenFinite ==
    ASSUME NEW q
    PROVE  /\ IsFiniteSet(Woken(q)) /\ Cardinality(Woken(q)) \in Nat
           /\ IsFiniteSet(Woken(q)') /\ Cardinality(Woken(q)') \in Nat
<1>1. Woken(q) \subseteq Thread /\ Woken(q)' \subseteq Thread
  BY DEF Woken
<1>2. IsFiniteSet(Woken(q)) /\ IsFiniteSet(Woken(q)')
  BY <1>1, KernelAssumption, FS_Subset
<1> QED
  BY <1>2, FS_CardinalityType

-----------------------------------------------------------------------------
(* What a step does to those who wait and to those who have been woken *)

NoMoreWait(q) == \A u : Linked(k', q, u) => Linked(k, q, u)

\* Nobody joins a list or is woken from it without an error.
NoneNew(q) == NoMoreWait(q) /\ Woken(q)' \subseteq Woken(q)

NoLoss(q) == NoMoreWait(q) /\ Woken(q) \subseteq Woken(q)'

OneLeaves(q, t) == NoMoreWait(q) /\ Woken(q) \ {t} \subseteq Woken(q)'

OneJoins(q, h) == NoMoreWait(q) /\ h \notin Woken(q) /\ Woken(q) \cup {h} \subseteq Woken(q)'

\* t is the only thread that goes on, and it enters no call: it stays in its call, or
\* it leaves it, not being suspended.
Goes(t) ==
    /\ \A u \in Thread \ {t} : pc'[u] = pc[u] /\ call'[u] = call[u]
    /\ pc'[t] \in Waits => pc[t] \in Waits /\ call'[t] = call[t]
    /\ Suspended(k, t) => pc'[t] \in Waits

\* The running thread is not found suspended anywhere but at "blocking".
CurrentStays ==
    \/ k'.cur = k.cur /\ pc'[k.cur] = pc[k.cur]
    \/ k'.stat[k'.cur] = "RUNNING"
    \/ k'.cur = k.cur /\ ~ Suspended(k, k.cur)

\* The cardinalities.
LEMMA CountKept ==
    ASSUME NEW q, NEW n \in Int, n <= Cardinality(Woken(q)), NoLoss(q)
    PROVE  n <= Cardinality(Woken(q)')
<1>1. Cardinality(Woken(q)) <= Cardinality(Woken(q)')
  BY WokenFinite, FS_Subset DEF NoLoss
<1> QED
  BY <1>1, WokenFinite

LEMMA CountOneLess ==
    ASSUME NEW q, NEW n \in Int, n <= Cardinality(Woken(q)), NEW t, OneLeaves(q, t)
    PROVE  n - 1 <= Cardinality(Woken(q)')
<1>1. /\ IsFiniteSet(Woken(q) \ {t})
      /\ Cardinality(Woken(q) \ {t}) \in Nat
      /\ Cardinality(Woken(q) \ {t}) >= Cardinality(Woken(q)) - 1
  <2>1. Cardinality(Woken(q) \ {t})
            = IF t \in Woken(q) THEN Cardinality(Woken(q)) - 1 ELSE Cardinality(Woken(q))
    BY WokenFinite, FS_RemoveElement
  <2>2. IsFiniteSet(Woken(q) \ {t})
    BY WokenFinite, FS_RemoveElement
  <2>3. Cardinality(Woken(q) \ {t}) \in Nat
    BY <2>2, FS_CardinalityType
  <2> QED
    BY <2>1, <2>2, <2>3, WokenFinite
<1>2. Cardinality(Woken(q) \ {t}) <= Cardinality(Woken(q)')
  BY <1>1, WokenFinite, FS_Subset DEF OneLeaves
<1> QED
  BY <1>1, <1>2, WokenFinite

LEMMA CountOneMore ==
    ASSUME NEW q, NEW n \in Int, n <= Cardinality(Woken(q)), NEW h, OneJoins(q, h)
    PROVE  n + 1 <= Cardinality(Woken(q)')
<1>1. /\ IsFiniteSet(Woken(q) \cup {h})
      /\ Cardinality(Woken(q) \cup {h}) = Cardinality(Woken(q)) + 1
  BY WokenFinite, FS_AddElement DEF OneJoins
<1>2. Cardinality(Woken(q) \cup {h}) <= Cardinality(Woken(q)')
  BY <1>1, WokenFinite, FS_Subset DEF OneJoins
<1> QED
  BY <1>1, <1>2, WokenFinite

\* A suspended thread has not been woken, and one that has been woken is not
\* suspended.
LEMMA WokenIsAwake ==
    ASSUME MailInv, NEW q, NEW u \in Woken(q)
    PROVE  ~ Suspended(k, u)
  BY MailFacts, WokenFacts DEF ThreadInv

LEMMA ThreadInvKept ==
    ASSUME MailInv, NEW t \in Thread, Goes(t), NEW u \in Thread,
           Suspended(k', u) => /\ Suspended(k, u) /\ k'.err[u] = k.err[u]
                               /\ Linked(k, call[u].list, u) => Linked(k', call[u].list, u)
    PROVE  ThreadInv(u)'
<1>1. ThreadInv(u)
  BY MailFacts
<1>2. pc'[u] \in Waits => pc[u] \in Waits /\ call'[u] = call[u]
  BY DEF Goes
<1>3. Suspended(k, u) => pc'[u] \in Waits
  BY <1>1 DEF Goes, ThreadInv
<1>4. Suspended(k', u) => pc'[u] \in Waits /\ Linked(k', call'[u].list, u) /\ k'.err[u] = "EINTR"
  BY <1>1, <1>2, <1>3 DEF ThreadInv
<1>5. pc'[u] \in Waits /\ call'[u].list = senders => call'[u].mail \in Mail
  BY <1>1, <1>2 DEF ThreadInv
<1> QED
  BY <1>4, <1>5 DEF ThreadInv

LEMMA CallListIsQueue ==
    ASSUME TypeOK, NEW u \in Thread
    PROVE  call[u].list \in {receivers, senders} /\ call[u].list \in Queue
  BY MailQueues DEF TypeOK

\* A step in which nobody is resumed.
LEMMA QuietStep ==
    ASSUME MailInv, NEW t \in Thread, Goes(t), CurrentStays, Calm(k, k'),
           \A u \in Thread : pc'[u] \in Waits => k'.err[u] = k.err[u]
    PROVE  /\ (\A u \in Thread : ThreadInv(u)') /\ RunInv'
           /\ \A q \in Queue :
                  /\ NoneNew(q) /\ OneLeaves(q, t)
                  /\ t \notin Woken(q) \/ pc'[t] \in Waits => NoLoss(q)
<1>0. TypeOK /\ RunInv /\ k.cur \in Thread /\ \A u \in Thread : ThreadInv(u)
  BY MailFacts
<1>1. /\ \A q \in Queue : \A u : Linked(k', q, u) <=> Linked(k, q, u)
      /\ \A u \in Thread : Suspended(k', u) <=> Suspended(k, u)
  BY CalmLinks
<1>2. ASSUME NEW u \in Thread PROVE ThreadInv(u)'
  <2>1. call[u].list \in Queue
    BY <1>0, CallListIsQueue
  <2>2. Suspended(k, u) => pc'[u] \in Waits
    BY <1>0 DEF Goes, ThreadInv
  <2> QED
    BY <2>1, <2>2, <1>1, ThreadInvKept
<1>3. RunInv'
  <2>1. k'.lock = 0
    BY <1>0 DEF Calm, RunInv
  <2>2. Suspended(k', k'.cur) => pc'[k'.cur] = "blocking"
    BY <1>0, <1>1 DEF CurrentStays, RunInv, Suspended, SuspendFlag
  <2> QED
    BY <2>1, <2>2 DEF RunInv
<1>4. ASSUME NEW q \in Queue
      PROVE  /\ NoneNew(q) /\ OneLeaves(q, t)
             /\ t \notin Woken(q) \/ pc'[t] \in Waits => NoLoss(q)
  <2>1. NoMoreWait(q)
    BY <1>1 DEF NoMoreWait
  <2>2. \A u \in Thread : u \in Woken(q)' => u \in Woken(q)
    BY <1>1, WokenFacts DEF Goes
  <2>3. \A u \in Thread : u \in Woken(q) /\ (u # t \/ pc'[t] \in Waits) => u \in Woken(q)'
    BY <1>1, WokenFacts DEF Goes
  <2>4. Woken(q) \subseteq Thread /\ Woken(q)' \subseteq Thread
    BY DEF Woken
  <2> QED
    BY <2>1, <2>2, <2>3, <2>4 DEF NoneNew, OneLeaves, NoLoss
<1> QED
  BY <1>2, <1>3, <1>4

\* A step in which h is resumed, or is started.
LEMMA WakeStep ==
    ASSUME MailInv, NEW t \in Thread, Goes(t), CurrentStays, NEW h \in Thread, Wakes(k, k', h),
           Suspended(k, h) \/ k'.err[h] = k.err[h]
    PROVE  /\ (\A u \in Thread : ThreadInv(u)') /\ RunInv'
           /\ \A q \in Queue :
                  /\ OneLeaves(q, t)
                  /\ t \notin Woken(q) \/ pc'[t] \in Waits => NoLoss(q)
                  /\ k'.err[h] = k.err[h] \/ k'.err[h] # "EOK" => NoneNew(q)
                  /\ (/\ Linked(k, q, h) /\ k'.err[h] = "EOK"
                      /\ t \notin Woken(q) \/ pc'[t] \in Waits) => OneJoins(q, h)
<1>0. TypeOK /\ Sound(k) /\ RunInv /\ k.cur \in Thread /\ \A u \in Thread : ThreadInv(u)
  BY MailFacts
<1>1. /\ \A q \in Queue : \A u : Linked(k', q, u) <=> Linked(k, q, u) /\ u # h
      /\ \A u \in Thread : Suspended(k', u) <=> Suspended(k, u) /\ u # h
  BY <1>0, WakesLinks
<1>2. \A u \in Thread \ {h} : k'.err[u] = k.err[u]
  BY DEF Wakes, OthersKeep
<1>3. ASSUME NEW u \in Thread PROVE ThreadInv(u)'
  <2>1. call[u].list \in Queue
    BY <1>0, CallListIsQueue
  <2> QED
    BY <2>1, <1>1, <1>2, ThreadInvKept
<1>4. RunInv'
  <2>1. k'.lock = 0
    BY <1>0 DEF Wakes, RunInv
  <2>2. Suspended(k', k'.cur) => pc'[k'.cur] = "blocking"
    BY <1>0, <1>1 DEF CurrentStays, RunInv, Suspended, SuspendFlag
  <2> QED
    BY <2>1, <2>2 DEF RunInv
<1>5. ASSUME NEW q \in Queue
      PROVE  /\ OneLeaves(q, t)
             /\ t \notin Woken(q) \/ pc'[t] \in Waits => NoLoss(q)
             /\ k'.err[h] = k.err[h] \/ k'.err[h] # "EOK" => NoneNew(q)
             /\ (/\ Linked(k, q, h) /\ k'.err[h] = "EOK"
                 /\ t \notin Woken(q) \/ pc'[t] \in Waits) => OneJoins(q, h)
  <2>1. NoMoreWait(q)
    BY <1>1 DEF NoMoreWait
  <2>2. Woken(q) \subseteq Thread /\ Woken(q)' \subseteq Thread
    BY DEF Woken
  <2>3. ASSUME NEW u \in Woken(q), u # t \/ pc'[t] \in Waits PROVE u \in Woken(q)'
    <3>1. /\ u \in Thread /\ pc[u] \in Waits /\ call[u].list = q
          /\ ~ Linked(k, q, u) /\ k.err[u] = "EOK"
      BY WokenFacts
    <3>2. pc'[u] \in Waits /\ call'[u] = call[u]
      BY <3>1, <2>3 DEF Goes
    <3>3. k'.err[u] = "EOK"
      BY <3>1, <1>2, WokenIsAwake
    <3> QED
      BY <3>1, <3>2, <3>3, <1>1, WokenFacts
  <2>4. ASSUME NEW u \in Woken(q)', u # h \/ k'.err[h] = k.err[h] \/ k'.err[h] # "EOK"
        PROVE  u \in Woken(q)
    <3>1. /\ u \in Thread /\ pc'[u] \in Waits /\ call'[u].list = q
          /\ ~ Linked(k', q, u) /\ k'.err[u] = "EOK"
      BY WokenFacts
    <3>2. pc[u] \in Waits /\ call'[u] = call[u]
      BY <3>1 DEF Goes
    <3>3. k.err[u] = "EOK"
      BY <3>1, <2>4, <1>2
    <3>4. ~ Linked(k, q, u)
      <4>1. u # h => ~ Linked(k, q, u)
        BY <3>1, <1>1
      <4>2. Linked(k, q, u) => Suspended(k, u)
        BY <3>1, <1>0, SoundFacts DEF ThreadOK
      <4>3. ~ Suspended(k, u)
        BY <3>1, <3>3, <1>0 DEF ThreadInv
      <4> QED
        BY <4>2, <4>3
    <3> QED
      BY <3>1, <3>2, <3>3, <3>4, WokenFacts
  <2>5. ASSUME Linked(k, q, h), k'.err[h] = "EOK"
        PROVE  h \notin Woken(q) /\ h \in Woken(q)'
    <3>1. h \notin Woken(q)
      BY <2>5, WokenFacts
    <3>2. Suspended(k, h)
      BY <2>5, <1>0, SoundFacts DEF ThreadOK
    <3>3. pc[h] \in Waits /\ Linked(k, call[h].list, h) /\ call[h].list \in Queue
      BY <3>2, <1>0, CallListIsQueue DEF ThreadInv
    <3>4. call[h].list = q
      BY <3>3, <2>5, <1>0, SoundFacts DEF NodesLinkedOnce
    <3>5. pc'[h] \in Waits /\ call'[h] = call[h]
      BY <3>2, <3>3 DEF Goes
    <3>6. ~ Linked(k', q, h)
      BY <1>1
    <3> QED
      BY <3>1, <3>4, <3>5, <3>6, <2>5, WokenFacts
  <2>6. OneLeaves(q, t) /\ (t \notin Woken(q) \/ pc'[t] \in Waits => NoLoss(q))
    BY <2>1, <2>3 DEF OneLeaves, NoLoss
  <2>7. k'.err[h] = k.err[h] \/ k'.err[h] # "EOK" => NoneNew(q)
    BY <2>1, <2>4 DEF NoneNew
  <2>8. (/\ Linked(k, q, h) /\ k'.err[h] = "EOK"
         /\ t \notin Woken(q) \/ pc'[t] \in Waits) => OneJoins(q, h)
    BY <2>1, <2>3, <2>5 DEF OneJoins
  <2> QED
    BY <2>6, <2>7, <2>8
<1> QED
  BY <1>3, <1>4, <1>5

-----------------------------------------------------------------------------
(* Nobody is forgotten *)

LEMMA ForgottenFacts ==
    /\ NobodyForgotten <=>
           /\ (\E u : Linked(k, receivers, u)) => mb.entry <= Cardinality(Woken(receivers))
           /\ (\E u : Linked(k, senders, u)) => Size - mb.entry <= Cardinality(Woken(senders))
    /\ NobodyForgotten' <=>
           /\ (\E u : Linked(k', receivers, u)) => mb'.entry <= Cardinality(Woken(receivers)')
           /\ (\E u : Linked(k', senders, u)) => Size - mb'.entry <= Cardinality(Woken(senders)')
  BY WaitersFacts DEF NobodyForgotten

LEMMA EntryType ==
    ASSUME MailInv
    PROVE  mb.entry \in 0 .. Size /\ Size \in Nat \ {0} /\ mb.entry \in Nat
  BY MailFacts, MailboxAssumption DEF TypeOK

\* The mails stay as they are.
LEMMA ForgottenSame ==
    ASSUME MailInv, mb'.entry = mb.entry, NoLoss(receivers) \/ mb.entry = 0,
           NoLoss(senders) \/ mb.entry = Size
    PROVE  NobodyForgotten'
<1>0. /\ mb.entry \in Int /\ Size - mb.entry \in Int
      /\ mb.entry = 0 => \A n \in Nat : mb.entry <= n
      /\ mb.entry = Size => \A n \in Nat : Size - mb.entry <= n
  BY EntryType
<1>1. (\E u : Linked(k', receivers, u)) => mb'.entry <= Cardinality(Woken(receivers)')
  <2>1. CASE NoLoss(receivers)
    BY <2>1, <1>0, MailFacts, ForgottenFacts, CountKept DEF NoLoss, NoMoreWait
  <2>2. CASE mb.entry = 0
    BY <2>2, <1>0, WokenFinite
  <2> QED
    BY <2>1, <2>2
<1>2. (\E u : Linked(k', senders, u)) => Size - mb'.entry <= Cardinality(Woken(senders)')
  <2>1. CASE NoLoss(senders)
    BY <2>1, <1>0, MailFacts, ForgottenFacts, CountKept DEF NoLoss, NoMoreWait
  <2>2. CASE mb.entry = Size
    BY <2>2, <1>0, WokenFinite
  <2> QED
    BY <2>1, <2>2
<1> QED
  BY <1>1, <1>2, ForgottenFacts

\* A mail has been sent: a receiver is woken for it, and a slot less is free.
LEMMA ForgottenSend ==
    ASSUME MailInv, mb'.entry = mb.entry + 1, NEW t, OneLeaves(senders, t),
           \/ (\A u : ~ Linked(k, receivers, u)) /\ NoMoreWait(receivers)
           \/ \E h : OneJoins(receivers, h)
    PROVE  NobodyForgotten'
<1>0. /\ mb.entry \in Int /\ Size - mb.entry \in Int
      /\ Size - mb'.entry = (Size - mb.entry) - 1
  BY EntryType
<1>1. (\E u : Linked(k', receivers, u)) => mb'.entry <= Cardinality(Woken(receivers)')
  <2>1. CASE (\A u : ~ Linked(k, receivers, u)) /\ NoMoreWait(receivers)
    BY <2>1 DEF NoMoreWait
  <2>2. CASE \E h : OneJoins(receivers, h)
    BY <2>2, <1>0, MailFacts, ForgottenFacts, CountOneMore DEF OneJoins, NoMoreWait
  <2> QED
    BY <2>1, <2>2
<1>2. (\E u : Linked(k', senders, u)) => Size - mb'.entry <= Cardinality(Woken(senders)')
  BY <1>0, MailFacts, ForgottenFacts, CountOneLess DEF OneLeaves, NoMoreWait
<1> QED
  BY <1>1, <1>2, ForgottenFacts

\* A mail has been taken: a sender is woken for the slot.
LEMMA ForgottenReceive ==
    ASSUME MailInv, mb'.entry = mb.entry - 1, NEW t, OneLeaves(receivers, t),
           \/ (\A u : ~ Linked(k, senders, u)) /\ NoMoreWait(senders)
           \/ \E h : OneJoins(senders, h)
    PROVE  NobodyForgotten'
<1>0. /\ mb.entry \in Int /\ Size - mb.entry \in Int
      /\ Size - mb'.entry = (Size - mb.entry) + 1
  BY EntryType
<1>1. (\E u : Linked(k', senders, u)) => Size - mb'.entry <= Cardinality(Woken(senders)')
  <2>1. CASE (\A u : ~ Linked(k, senders, u)) /\ NoMoreWait(senders)
    BY <2>1 DEF NoMoreWait
  <2>2. CASE \E h : OneJoins(senders, h)
    BY <2>2, <1>0, MailFacts, ForgottenFacts, CountOneMore DEF OneJoins, NoMoreWait
  <2> QED
    BY <2>1, <2>2
<1>2. (\E u : Linked(k', receivers, u)) => mb'.entry <= Cardinality(Woken(receivers)')
  BY <1>0, MailFacts, ForgottenFacts, CountOneLess DEF OneLeaves, NoMoreWait
<1> QED
  BY <1>1, <1>2, ForgottenFacts

-----------------------------------------------------------------------------
(* The life of the mailbox *)

LEMMA LifeFacts ==
    /\ LifeInv <=>
           /\ alive => \A u \in Thread : pc[u] \notin Detaching
           /\ ~ alive => Woken(receivers) = {} /\ Woken(senders) = {}
           /\ \A u \in Thread : pc[u] \in {"detach3", "detach4"} =>
                  \A v : ~ Linked(k, receivers, v)
           /\ ~ alive /\ (\A u \in Thread : pc[u] \notin Detaching) =>
                  \A v : ~ Linked(k, receivers, v) /\ ~ Linked(k, senders, v)
    /\ LifeInv' <=>
           /\ alive' => \A u \in Thread : pc'[u] \notin Detaching
           /\ ~ alive' => Woken(receivers)' = {} /\ Woken(senders)' = {}
           /\ \A u \in Thread : pc'[u] \in {"detach3", "detach4"} =>
                  \A v : ~ Linked(k', receivers, v)
           /\ ~ alive' /\ (\A u \in Thread : pc'[u] \notin Detaching) =>
                  \A v : ~ Linked(k', receivers, v) /\ ~ Linked(k', senders, v)
<1>1. \A A, B : A \cup B = {} <=> A = {} /\ B = {}
  OBVIOUS
<1> QED
  BY <1>1, WaitersFacts DEF LifeInv, DetachedIsEmpty

\* A step outside rt_mb_detach; while the mailbox is detached it adds nobody.
LEMMA LifeSame ==
    ASSUME MailInv, alive' = alive, NEW t \in Thread,
           \A u \in Thread \ {t} : pc'[u] = pc[u],
           pc'[t] = pc[t] \/ (pc[t] \notin Detaching /\ pc'[t] \notin Detaching),
           alive \/ (NoneNew(receivers) /\ NoneNew(senders))
    PROVE  LifeInv'
<1>0. LifeInv
  BY MailFacts
<1>1. \A u \in Thread : pc'[u] = pc[u] \/ (pc[u] \notin Detaching /\ pc'[u] \notin Detaching)
  OBVIOUS
<1>2. CASE alive
  <2>1. \A u \in Thread : pc'[u] \notin Detaching
    BY <1>0, <1>1, <1>2, LifeFacts
  <2> QED
    BY <2>1, <1>2, LifeFacts DEF Detaching
<1>3. CASE ~ alive
  <2>1. NoneNew(receivers) /\ NoneNew(senders)
    BY <1>3
  <2>2. Woken(receivers)' = {} /\ Woken(senders)' = {}
    BY <2>1, <1>0, <1>3, LifeFacts DEF NoneNew
  <2>3. \A v : /\ Linked(k', receivers, v) => Linked(k, receivers, v)
               /\ Linked(k', senders, v) => Linked(k, senders, v)
    BY <2>1 DEF NoneNew, NoMoreWait
  <2> QED
    BY <2>2, <2>3, <1>0, <1>1, <1>3, LifeFacts DEF Detaching
<1> QED
  BY <1>2, <1>3

\* The ring.
LEMMA SlotFacts ==
    ASSUME NEW i \in 0 .. 2 * Size - 1
    PROVE  Slot(i) \in 0 .. Size - 1
  BY MailboxAssumption DEF Slot

LEMMA NextOffsetFacts ==
    ASSUME NEW i \in 0 .. Size - 1
    PROVE  NextOffset(i) = Slot(i + 1) /\ NextOffset(i) \in 0 .. Size - 1
  BY MailboxAssumption DEF Slot, NextOffset

MailboxState ==
    [pool : [0 .. Size - 1 -> Mail \cup {NoMail}],
     in : 0 .. Size - 1, out : 0 .. Size - 1, entry : 0 .. Size]

RingOK(b) ==
    /\ b.in = Slot(b.out + b.entry)
    /\ \A i \in 0 .. b.entry - 1 : b.pool[Slot(b.out + i)] \in Mail

LEMMA EmptyRing == Empty \in MailboxState /\ RingOK(Empty) /\ Empty.entry = 0
<1>1. Empty \in MailboxState
  BY MailboxAssumption DEF Empty, MailboxState
<1>2. Empty.in = 0 /\ Empty.out = 0 /\ Empty.entry = 0
  BY DEF Empty
<1>3. Slot(0) = 0
  BY MailboxAssumption DEF Slot
<1> QED
  BY <1>1, <1>2, <1>3 DEF RingOK

\* Put, on any mailbox.
PutIn(b, m) == [b EXCEPT !.pool[b.in] = m, !.in = NextOffset(@), !.entry = @ + 1]

LEMMA PutRing ==
    ASSUME NEW b \in MailboxState, RingOK(b), b.entry # Size, NEW m \in Mail, NEW c,
           c = PutIn(b, m)
    PROVE  /\ c \in MailboxState /\ RingOK(c) /\ c.entry = b.entry + 1
           /\ c.out = b.out /\ c.pool[Slot(b.out + b.entry)] = m
           /\ \A i \in 0 .. b.entry - 1 : c.pool[Slot(b.out + i)] = b.pool[Slot(b.out + i)]
<1>1. /\ c.pool = [b.pool EXCEPT ![b.in] = m] /\ c.in = NextOffset(b.in)
      /\ c.out = b.out /\ c.entry = b.entry + 1
  BY DEF MailboxState, PutIn
<1>2. /\ b.in \in 0 .. Size - 1 /\ b.out \in 0 .. Size - 1 /\ b.entry \in 0 .. Size - 1
      /\ b.pool \in [0 .. Size - 1 -> Mail \cup {NoMail}] /\ Size \in Nat \ {0}
  BY MailboxAssumption DEF MailboxState
<1>3. NextOffset(b.in) \in 0 .. Size - 1
  BY <1>2, NextOffsetFacts
<1>4. c \in MailboxState
  <2>1. c.pool \in [0 .. Size - 1 -> Mail \cup {NoMail}]
    BY <1>1, <1>2
  <2>2. c.entry \in 0 .. Size
    BY <1>1, <1>2
  <2> QED
    BY <2>1, <2>2, <1>1, <1>2, <1>3 DEF MailboxState, PutIn
<1>5. c.in = Slot(c.out + c.entry)
  <2>1. \A o \in 0 .. Size - 1, e \in 0 .. Size - 1 : NextOffset(Slot(o + e)) = Slot(o + (e + 1))
    BY <1>2 DEF Slot, NextOffset
  <2> QED
    BY <2>1, <1>1, <1>2 DEF RingOK
<1>6. \A i \in 0 .. b.entry - 1 : Slot(b.out + i) \in 0 .. Size - 1 /\ Slot(b.out + i) # b.in
  <2>1. PICK o \in 0 .. Size - 1, e \in 0 .. Size - 1 : o = b.out /\ e = b.entry
    BY <1>2
  <2>2. ASSUME NEW i \in 0 .. e - 1
        PROVE  Slot(o + i) \in 0 .. Size - 1 /\ Slot(o + i) # Slot(o + e)
    BY <1>2 DEF Slot
  <2>3. b.in = Slot(o + e)
    BY <2>1 DEF RingOK
  <2> QED
    BY <2>1, <2>2, <2>3
<1>7. \A i \in 0 .. b.entry - 1 : c.pool[Slot(b.out + i)] = b.pool[Slot(b.out + i)]
  BY <1>1, <1>2, <1>6
<1>8. c.pool[Slot(b.out + b.entry)] = m
  BY <1>1, <1>2 DEF RingOK
<1>9. \A i \in 0 .. c.entry - 1 : i \in 0 .. b.entry - 1 \/ i = b.entry
  BY <1>1, <1>2
<1>10. RingOK(c)
  BY <1>1, <1>5, <1>7, <1>8, <1>9 DEF RingOK
<1> QED
  BY <1>1, <1>4, <1>7, <1>8, <1>10

\* What a receive does to the mailbox.
TakeOut(b) == [b EXCEPT !.pool[b.out] = NoMail, !.out = NextOffset(@), !.entry = @ - 1]

LEMMA TakeRing ==
    ASSUME NEW b \in MailboxState, RingOK(b), b.entry # 0, NEW c, c = TakeOut(b)
    PROVE  /\ c \in MailboxState /\ RingOK(c) /\ c.entry = b.entry - 1
           /\ b.pool[b.out] \in Mail /\ b.out = Slot(b.out)
           /\ \A i \in 0 .. c.entry - 1 : c.pool[Slot(c.out + i)] = b.pool[Slot(b.out + (i + 1))]
<1>1. /\ c.pool = [b.pool EXCEPT ![b.out] = NoMail] /\ c.out = NextOffset(b.out)
      /\ c.in = b.in /\ c.entry = b.entry - 1
  BY DEF MailboxState, TakeOut
<1>2. /\ b.in \in 0 .. Size - 1 /\ b.out \in 0 .. Size - 1 /\ b.entry \in 1 .. Size
      /\ b.pool \in [0 .. Size - 1 -> Mail \cup {NoMail}] /\ Size \in Nat \ {0}
  BY MailboxAssumption DEF MailboxState
<1>3. NextOffset(b.out) \in 0 .. Size - 1
  BY <1>2, NextOffsetFacts
<1>4. c \in MailboxState
  <2>1. c.pool \in [0 .. Size - 1 -> Mail \cup {NoMail}]
    BY <1>1, <1>2
  <2>2. c.entry \in 0 .. Size
    BY <1>1, <1>2
  <2> QED
    BY <2>1, <2>2, <1>1, <1>2, <1>3 DEF MailboxState, TakeOut
<1>5. c.in = Slot(c.out + c.entry)
  BY <1>1, <1>2 DEF RingOK, Slot, NextOffset
<1>6. b.out = Slot(b.out) /\ b.pool[b.out] \in Mail
  <2>1. b.out = Slot(b.out) /\ b.out + 0 = b.out /\ 0 \in 0 .. b.entry - 1
    BY <1>2 DEF Slot
  <2> QED
    BY <2>1 DEF RingOK
<1>7. \A i \in 0 .. c.entry - 1 : /\ Slot(c.out + i) = Slot(b.out + (i + 1))
                                  /\ i + 1 \in 0 .. b.entry - 1
                                  /\ Slot(c.out + i) # b.out
                                  /\ Slot(c.out + i) \in 0 .. Size - 1
  <2>1. SUFFICES ASSUME NEW i \in 0 .. b.entry - 2
                 PROVE  /\ Slot(c.out + i) = Slot(b.out + (i + 1))
                        /\ i + 1 \in 0 .. b.entry - 1
                        /\ Slot(c.out + i) # b.out
                        /\ Slot(c.out + i) \in 0 .. Size - 1
    BY <1>1, <1>2
  <2>2. PICK o \in 0 .. Size - 1 : o = b.out
    BY <1>2
  <2>3. PICK e \in 1 .. Size : e = b.entry
    BY <1>2
  <2>4. i \in 0 .. e - 2 /\ Size \in Nat \ {0}
    BY <2>3, <1>2
  <2>5. CASE o + 1 >= Size
    <3>1. c.out = 0 /\ o = Size - 1
      <4>1. c.out = NextOffset(o)
        BY <2>2, <1>1
      <4>2. NextOffset(o) = 0 /\ o = Size - 1
        BY <2>4, <2>5 DEF NextOffset
      <4> QED
        BY <4>1, <4>2
    <3>2. Slot(0 + i) = i
      BY <2>4 DEF Slot
    <3>3. Slot(o + (i + 1)) = i
      BY <2>4, <3>1 DEF Slot
    <3> QED
      BY <2>2, <2>3, <2>4, <3>1, <3>2, <3>3
  <2>6. CASE o + 1 < Size
    <3>1. c.out = o + 1
      <4>1. c.out = NextOffset(o)
        BY <2>2, <1>1
      <4>2. NextOffset(o) = o + 1
        BY <2>4, <2>6 DEF NextOffset
      <4> QED
        BY <4>1, <4>2
    <3>2. (o + 1) + i = o + (i + 1)
      BY <2>4
    <3>3. Slot(o + (i + 1)) \in 0 .. Size - 1 /\ Slot(o + (i + 1)) # o
      BY <2>4 DEF Slot
    <3> QED
      BY <2>2, <2>3, <2>4, <3>1, <3>2, <3>3
  <2> QED
    BY <2>4, <2>5, <2>6
<1>8. \A i \in 0 .. c.entry - 1 : c.pool[Slot(c.out + i)] = b.pool[Slot(b.out + (i + 1))]
  BY <1>1, <1>2, <1>7
<1>9. RingOK(c)
  BY <1>5, <1>7, <1>8 DEF RingOK
<1> QED
  BY <1>1, <1>4, <1>6, <1>8, <1>9

-----------------------------------------------------------------------------
(* Pieces that the steps have in common *)

CallRecord ==
    [list : {receivers, senders}, time : {"zero", "ticks", "forever"},
     flag : SuspendFlag, mail : Mail \cup {NoMail}]

DoneRecord == [by : Thread, result : {"none", "EFULL"} \cup Error \cup Mail]

LEMMA TypeFacts ==
    ASSUME TypeOK
    PROVE  /\ mb \in MailboxState /\ alive \in BOOLEAN /\ pc \in [Thread -> Location]
           /\ call \in [Thread -> CallRecord] /\ done \in DoneRecord
  BY DEF TypeOK, MailboxState, CallRecord, DoneRecord

LEMMA TypeNext ==
    ASSUME Sound(k'), mb' \in MailboxState, alive' \in BOOLEAN, pc' \in [Thread -> Location],
           call' \in [Thread -> CallRecord], done' \in DoneRecord
    PROVE  TypeOK'
  BY DEF TypeOK, Sound, MailboxState, CallRecord, DoneRecord

LEMMA DoneTypes ==
    /\ NothingDone \in DoneRecord
    /\ \A t \in Thread : \A r \in {"none", "EFULL"} \cup Error \cup Mail :
           [by |-> t, result |-> r] \in DoneRecord
    /\ \A t \in Thread : /\ [by |-> t, result |-> "EOK"] \in DoneRecord
                         /\ [by |-> t, result |-> "EFULL"] \in DoneRecord
                         /\ [by |-> t, result |-> "EINTR"] \in DoneRecord
                         /\ [by |-> t, result |-> "ETIMEOUT"] \in DoneRecord
  BY KernelAssumption DEF NothingDone, DoneRecord, Error

LEMMA NoCallType == NoCall \in CallRecord
  BY MailboxAssumption DEF NoCall, CallRecord, SuspendFlag

LEMMA RingFacts == (RingInv <=> RingOK(mb)) /\ (RingInv' <=> RingOK(mb'))
  BY DEF RingInv, RingOK

\* The invariant of the next state, from its parts.
LEMMA MailInvFrom ==
    ASSUME Sound(k'), mb' \in MailboxState, RingOK(mb'), alive' \in BOOLEAN,
           pc' \in [Thread -> Location], call' \in [Thread -> CallRecord], done' \in DoneRecord,
           (\A u \in Thread : ThreadInv(u)'), RunInv', NobodyForgotten', LifeInv'
    PROVE  MailInv'
  BY TypeNext, RingFacts, MailInvNext

LEMMA SameMailbox ==
    ASSUME MailInv
    PROVE  /\ mb \in MailboxState /\ RingOK(mb) /\ alive \in BOOLEAN
           /\ pc \in [Thread -> Location] /\ call \in [Thread -> CallRecord]
  BY MailFacts, TypeFacts, RingFacts

\* A thread that runs application code, or goes round its loop again, is not
\* suspended.
LEMMA RunnerFacts ==
    ASSUME MailInv, NEW t \in Thread, NEW l \in Location \ {"blocking"}, At(t, l)
    PROVE  /\ k.cur = t /\ pc[t] = l /\ ~ Suspended(k, t)
           /\ l \notin Waits => \A q : t \notin Woken(q)
<1>1. k.cur = t /\ pc[t] = l /\ ~ Suspended(k, t)
  BY MailFacts DEF At, RunInv
<1> QED
  BY <1>1, WokenFacts

\* Somebody who may send, or receive, and is not one of those woken on the other
\* side.
Acts(t, other) ==
    /\ alive /\ k.cur = t /\ ~ Suspended(k, t)
    /\ pc[t] \in {"run", "blocked"} /\ t \notin Woken(other)

LEMMA CallerIsActive ==
    ASSUME MailInv, NEW t \in App, Calls(t)
    PROVE  Acts(t, receivers) /\ Acts(t, senders)
<1>1. t \in Thread /\ At(t, "run") /\ alive
  BY DEF Calls, App
<1>2. "run" \in Location \ {"blocking"} /\ "run" \notin Waits
  BY DEF Location, Waits
<1> QED
  BY <1>1, <1>2, RunnerFacts DEF Acts

LEMMA TrierIsActive ==
    ASSUME MailInv, NEW t \in App, NEW q \in {receivers, senders}, TriesAgain(t, q)
    PROVE  \A other \in {receivers, senders} \ {q} : Acts(t, other)
<1>1. t \in Thread /\ At(t, "blocked") /\ call[t].list = q /\ k.err[t] = "EOK"
  BY DEF TriesAgain, App
<1>2. "blocked" \in Location \ {"blocking"}
  BY DEF Location
<1>3. k.cur = t /\ pc[t] = "blocked" /\ ~ Suspended(k, t)
  BY <1>1, <1>2, RunnerFacts
<1>4. ~ Linked(k, q, t)
  BY <1>1, <1>3, MailFacts, MailQueues, SoundFacts DEF ThreadOK
<1>5. t \in Woken(q)
  BY <1>1, <1>3, <1>4, WokenFacts DEF Waits
<1>6. alive
  BY <1>5, MailFacts, LifeFacts
<1>7. \A other \in {receivers, senders} \ {q} : t \notin Woken(other)
  BY <1>1, WokenFacts
<1> QED
  BY <1>3, <1>6, <1>7 DEF Acts

\* t leaves its call, if it was in one.
LEMMA Leaves ==
    ASSUME TypeOK, NEW t \in Thread, ~ Suspended(k, t), NEW l \in Location, l \notin Waits,
           Goto(t, l), call' = [call EXCEPT ![t] = NoCall]
    PROVE  /\ Goes(t) /\ pc'[t] = l
           /\ pc' \in [Thread -> Location] /\ call' \in [Thread -> CallRecord]
<1>1. pc \in [Thread -> Location] /\ call \in [Thread -> CallRecord]
  BY TypeFacts
<1>2. /\ pc'[t] = l /\ \A u \in Thread \ {t} : pc'[u] = pc[u] /\ call'[u] = call[u]
      /\ pc' \in [Thread -> Location] /\ call' \in [Thread -> CallRecord]
  BY <1>1, NoCallType DEF Goto
<1> QED
  BY <1>2 DEF Goes

\* t goes on outside a call, or within it.
LEMMA GoesOn ==
    ASSUME MailInv, NEW t \in Thread, NEW l \in Location, Goto(t, l), call' = call,
           l \in Waits <=> pc[t] \in Waits
    PROVE  Goes(t) /\ pc'[t] = l /\ pc' \in [Thread -> Location]
<1>1. pc \in [Thread -> Location] /\ ThreadInv(t)
  BY MailFacts, TypeFacts
<1>2. /\ pc'[t] = l /\ \A u \in Thread \ {t} : pc'[u] = pc[u]
      /\ pc' \in [Thread -> Location]
  BY <1>1 DEF Goto
<1> QED
  BY <1>1, <1>2 DEF Goes, ThreadInv

LEMMA NobodyGoes ==
    ASSUME MailInv, pc' = pc, call' = call, NEW t \in Thread
    PROVE  Goes(t)
<1>1. ThreadInv(t)
  BY MailFacts
<1> QED
  BY <1>1 DEF Goes, ThreadInv

LEMMA CalmSame == ASSUME NEW s PROVE Calm(s, s)
  BY DEF Calm, SameActivity

\* The first thread of a list is resumed with an error or without.
LEMMA HeadIsWoken ==
    ASSUME MailInv, NEW q \in Queue, Waiters(q) # {}, NEW e \in Error, NEW r,
           r = rt_thread_resume([k EXCEPT !.err[Head(k.list[q])] = e], Head(k.list[q]))
    PROVE  \E h \in Thread : /\ Linked(k, q, h) /\ Suspended(k, h)
                             /\ Wakes(k, r, h) /\ r.err[h] = e /\ r.cur = k.cur /\ Sound(r)
<1>1. Sound(k) /\ k \in KernelState
  BY MailFacts
<1>2. k.list[q] \in Seq(Thread) /\ k.list[q] # <<>>
  BY <1>1, EmptyList DEF KernelState, Waiters
<1>3. PICK h : h = Head(k.list[q])
  OBVIOUS
<1>4. h \in Thread /\ Linked(k, q, h)
  BY <1>2, <1>3, HeadInList DEF Linked
<1>5. Suspended(k, h)
  BY <1>1, <1>4, SoundFacts DEF ThreadOK
<1>6. Wakes(k, r, h) /\ r.err[h] = e /\ r.cur = k.cur
  BY <1>1, <1>3, <1>4, <1>5, WakeFrame
<1>7. Sound(r)
  BY <1>1, <1>3, <1>4, WakeSound
<1> QED
  BY <1>4, <1>5, <1>6, <1>7

LEMMA ListIsResumed ==
    ASSUME MailInv, NEW q \in Queue, Waiters(q) # {}, NEW r, r = rt_ipc_list_resume(k, q)
    PROVE  \E h \in Thread : /\ Linked(k, q, h) /\ Suspended(k, h)
                             /\ Wakes(k, r, h) /\ r.err[h] = "EOK" /\ r.cur = k.cur /\ Sound(r)
<1>1. r = rt_thread_resume([k EXCEPT !.err[Head(k.list[q])] = "EOK"], Head(k.list[q]))
  BY DEF rt_ipc_list_resume
<1>2. "EOK" \in Error
  BY DEF Error
<1> QED
  BY <1>1, <1>2, HeadIsWoken

LEMMA RoundResumes ==
    ASSUME MailInv, NEW q \in Queue, Waiters(q) # {}, NEW r, r = ResumeAllRound(k, q)
    PROVE  \E h \in Thread : /\ Linked(k, q, h) /\ Suspended(k, h)
                             /\ Wakes(k, r, h) /\ r.err[h] = "ERROR" /\ r.cur = k.cur /\ Sound(r)
<1>1. r = rt_thread_resume([k EXCEPT !.err[Head(k.list[q])] = "ERROR"], Head(k.list[q]))
  BY DEF ResumeAllRound
<1>2. "ERROR" \in Error
  BY DEF Error
<1> QED
  BY <1>1, <1>2, HeadIsWoken

\* What follows a transfer: the first thread of the other list is woken, or nobody
\* waits there.
LEMMA TransferWakes ==
    ASSUME MailInv, NEW t \in App, NEW q \in {receivers, senders},
           NEW p \in {receivers, senders}, q # p, Acts(t, q), WakesOther(t, q),
           call' = [call EXCEPT ![t] = NoCall]
    PROVE  /\ Sound(k') /\ (\A u \in Thread : ThreadInv(u)') /\ RunInv'
           /\ pc' \in [Thread -> Location] /\ call' \in [Thread -> CallRecord]
           /\ \A u \in Thread \ {t} : pc'[u] = pc[u]
           /\ pc[t] \notin Detaching /\ pc'[t] \notin Detaching
           /\ OneLeaves(p, t)
           /\ \/ (\A u : ~ Linked(k, q, u)) /\ NoMoreWait(q)
              \/ \E h : OneJoins(q, h)
<1>0. /\ TypeOK /\ Sound(k) /\ t \in Thread /\ q \in Queue /\ p \in Queue
      /\ k.cur = t /\ ~ Suspended(k, t) /\ t \notin Woken(q) /\ pc[t] \notin Detaching
  BY MailFacts, MailQueues DEF App, Acts, Detaching
<1>1. CASE Waiters(q) # {}
  <2>1. k' = rt_ipc_list_resume(k, q) /\ Goto(t, "resched")
    BY <1>1 DEF WakesOther
  <2>2. PICK h \in Thread : /\ Linked(k, q, h) /\ Suspended(k, h)
                            /\ Wakes(k, k', h) /\ k'.err[h] = "EOK" /\ k'.cur = k.cur /\ Sound(k')
    BY <2>1, <1>0, <1>1, ListIsResumed
  <2>3. "resched" \in Location /\ "resched" \notin Waits /\ "resched" \notin Detaching
    BY DEF Location, Waits, Detaching
  <2>4. /\ Goes(t) /\ pc'[t] = "resched"
        /\ pc' \in [Thread -> Location] /\ call' \in [Thread -> CallRecord]
    BY <2>1, <2>3, <1>0, Leaves
  <2>5. CurrentStays /\ t # h
    BY <2>2, <1>0 DEF CurrentStays
  <2>6. /\ (\A u \in Thread : ThreadInv(u)') /\ RunInv' /\ OneLeaves(p, t) /\ OneJoins(q, h)
    BY <2>2, <2>4, <2>5, <1>0, WakeStep
  <2> QED
    BY <2>2, <2>3, <2>4, <2>6, <1>0 DEF Goes
<1>2. CASE Waiters(q) = {}
  <2>1. k' = k /\ Goto(t, "run")
    BY <1>2 DEF WakesOther
  <2>2. "run" \in Location /\ "run" \notin Waits /\ "run" \notin Detaching
    BY DEF Location, Waits, Detaching
  <2>3. /\ Goes(t) /\ pc'[t] = "run"
        /\ pc' \in [Thread -> Location] /\ call' \in [Thread -> CallRecord]
    BY <2>1, <2>2, <1>0, Leaves
  <2>4. CurrentStays /\ Calm(k, k') /\ Sound(k') /\ k'.err = k.err
    BY <2>1, <1>0, CalmSame DEF CurrentStays
  <2>5. /\ (\A u \in Thread : ThreadInv(u)') /\ RunInv' /\ OneLeaves(p, t) /\ NoneNew(q)
    BY <2>3, <2>4, <1>0, QuietStep
  <2>6. (\A u : ~ Linked(k, q, u)) /\ NoMoreWait(q)
    BY <2>5, <1>2, WaitersFacts DEF NoneNew
  <2> QED
    BY <2>2, <2>3, <2>4, <2>5, <2>6, <1>0 DEF Goes
<1> QED
  BY <1>1, <1>2

-----------------------------------------------------------------------------
(* The steps of a transfer *)

LEMMA SendStoresStep ==
    ASSUME MailInv, NEW t \in App, NEW m \in Mail, Acts(t, receivers), SendStores(t, m)
    PROVE  MailInv'
<1>0. /\ t \in Thread /\ mb.entry # Size /\ mb' = Put(m) /\ WakesOther(t, receivers)
      /\ call' = [call EXCEPT ![t] = NoCall] /\ alive' = alive /\ alive
      /\ done' = [by |-> t, result |-> "EOK"]
  BY DEF SendStores, Ends, App, Acts
<1>1. mb' \in MailboxState /\ RingOK(mb') /\ mb'.entry = mb.entry + 1
  <2>1. mb' = PutIn(mb, m)
    BY <1>0 DEF Put, PutIn
  <2>2. mb \in MailboxState /\ RingOK(mb) /\ mb.entry # Size
    BY <1>0, SameMailbox
  <2> QED
    BY <2>1, <2>2, PutRing
<1>2. /\ Sound(k') /\ (\A u \in Thread : ThreadInv(u)') /\ RunInv'
      /\ pc' \in [Thread -> Location] /\ call' \in [Thread -> CallRecord]
      /\ \A u \in Thread \ {t} : pc'[u] = pc[u]
      /\ pc[t] \notin Detaching /\ pc'[t] \notin Detaching
      /\ OneLeaves(senders, t)
      /\ \/ (\A u : ~ Linked(k, receivers, u)) /\ NoMoreWait(receivers)
         \/ \E h : OneJoins(receivers, h)
  BY <1>0, MailQueues, TransferWakes
<1>3. NobodyForgotten'
  BY <1>1, <1>2, ForgottenSend
<1>4. LifeInv'
  BY <1>0, <1>2, LifeSame
<1>5. done' \in DoneRecord /\ alive' \in BOOLEAN
  BY <1>0, DoneTypes
<1> QED
  BY <1>1, <1>2, <1>3, <1>4, <1>5, MailInvFrom

LEMMA ReceiveTakesStep ==
    ASSUME MailInv, NEW t \in App, Acts(t, senders), ReceiveTakes(t)
    PROVE  MailInv'
<1>0. /\ t \in Thread /\ mb.entry # 0 /\ WakesOther(t, senders) /\ mb' = TakeOut(mb)
      /\ call' = [call EXCEPT ![t] = NoCall] /\ alive' = alive /\ alive
      /\ done' = [by |-> t, result |-> mb.pool[mb.out]]
  BY DEF ReceiveTakes, TakeOut, Ends, App, Acts
<1>1. /\ mb' \in MailboxState /\ RingOK(mb') /\ mb'.entry = mb.entry - 1
      /\ mb.pool[mb.out] \in Mail
  BY <1>0, SameMailbox, TakeRing
<1>2. /\ Sound(k') /\ (\A u \in Thread : ThreadInv(u)') /\ RunInv'
      /\ pc' \in [Thread -> Location] /\ call' \in [Thread -> CallRecord]
      /\ \A u \in Thread \ {t} : pc'[u] = pc[u]
      /\ pc[t] \notin Detaching /\ pc'[t] \notin Detaching
      /\ OneLeaves(receivers, t)
      /\ \/ (\A u : ~ Linked(k, senders, u)) /\ NoMoreWait(senders)
         \/ \E h : OneJoins(senders, h)
  BY <1>0, MailQueues, TransferWakes
<1>3. NobodyForgotten'
  BY <1>1, <1>2, ForgottenReceive
<1>4. LifeInv'
  BY <1>0, <1>2, LifeSame
<1>5. done' \in DoneRecord /\ alive' \in BOOLEAN
  BY <1>0, <1>1, DoneTypes
<1> QED
  BY <1>1, <1>2, <1>3, <1>4, <1>5, MailInvFrom

\* A call ends with an error and without a transfer: nobody is owed anything on the
\* side of the caller.
LEMMA GivesUp ==
    ASSUME MailInv, NEW t \in App, NEW other \in {receivers, senders}, Acts(t, other),
           IF other = receivers THEN mb.entry = Size ELSE mb.entry = 0,
           k' = k \/ \E e \in Error : k' = SetError(k, t, e),
           Goto(t, "run"), call' = [call EXCEPT ![t] = NoCall], mb' = mb, alive' = alive,
           done' \in DoneRecord
    PROVE  MailInv'
<1>0. /\ t \in Thread /\ TypeOK /\ Sound(k) /\ k.cur = t /\ ~ Suspended(k, t) /\ alive
      /\ t \notin Woken(other) /\ pc[t] \notin Detaching
      /\ receivers \in Queue /\ senders \in Queue /\ receivers # senders
  BY MailFacts, MailQueues DEF App, Acts, Detaching
<1>1. "run" \in Location /\ "run" \notin Waits /\ "run" \notin Detaching
  BY DEF Location, Waits, Detaching
<1>2. /\ Goes(t) /\ pc'[t] = "run"
      /\ pc' \in [Thread -> Location] /\ call' \in [Thread -> CallRecord]
  BY <1>0, <1>1, Leaves
<1>3. /\ Sound(k') /\ Calm(k, k') /\ k'.cur = k.cur
      /\ \A u \in Thread \ {t} : k'.err[u] = k.err[u]
  <2>1. CASE k' = k
    BY <2>1, <1>0, CalmSame
  <2>2. ASSUME NEW e \in Error, k' = SetError(k, t, e)
        PROVE  /\ Sound(k') /\ Calm(k, k') /\ k'.cur = k.cur
               /\ \A u \in Thread \ {t} : k'.err[u] = k.err[u]
    <3>1. /\ Sound(k') /\ k'.list = k.list /\ k'.stat = k.stat /\ k'.cur = k.cur
          /\ k'.lock = k.lock /\ \A u \in Thread \ {t} : k'.err[u] = k.err[u]
      BY <2>2, <1>0, SetErrorFrame DEF SetError
    <3> QED
      BY <3>1 DEF Calm, SameActivity
  <2> QED
    BY <2>1, <2>2
<1>4. CurrentStays
  BY <1>0, <1>3 DEF CurrentStays
<1>5. /\ (\A u \in Thread : ThreadInv(u)') /\ RunInv' /\ NoLoss(other)
  BY <1>0, <1>1, <1>2, <1>3, <1>4, QuietStep
<1>6. NobodyForgotten'
  <2>1. CASE other = receivers
    BY <2>1, <1>5, ForgottenSame
  <2>2. CASE other = senders
    BY <2>2, <1>0, <1>5, ForgottenSame
  <2> QED
    BY <2>1, <2>2
<1>7. LifeInv'
  BY <1>0, <1>1, <1>2, LifeSame DEF Goes
<1> QED
  BY <1>2, <1>3, <1>5, <1>6, <1>7, SameMailbox, MailInvFrom

\* A thread suspends itself in a list.
LEMMA BlocksStep ==
    ASSUME MailInv, NEW t \in App, NEW q \in {receivers, senders},
           NEW other \in {receivers, senders} \ {q}, Acts(t, other),
           IF other = receivers THEN mb.entry = Size ELSE mb.entry = 0,
           NEW time \in {"zero", "ticks", "forever"}, NEW flag \in SuspendFlag,
           NEW m \in Mail \cup {NoMail}, q = senders => m \in Mail,
           Blocks(t, q, time, flag, m)
    PROVE  MailInv'
<1>0. /\ t \in Thread /\ TypeOK /\ Sound(k) /\ k.cur = t /\ ~ Suspended(k, t) /\ alive
      /\ t \notin Woken(other) /\ pc[t] \notin Detaching /\ k.lock = 0
      /\ receivers \in Queue /\ senders \in Queue /\ receivers # senders
      /\ q \in Queue /\ other \in Queue /\ other # q /\ \A u \in Thread : ThreadInv(u)
  BY MailFacts, MailQueues DEF App, Acts, Detaching
<1>1. PICK s : s = SetError(k, t, "EINTR")
  OBVIOUS
<1>2. "EINTR" \in Error /\ "blocking" \in Location /\ "blocking" \in Waits
      /\ "blocking" \notin Detaching
  BY DEF Error, Location, Waits, Detaching
<1>3. /\ Sound(s) /\ s.list = k.list /\ s.stat = k.stat /\ s.cur = k.cur /\ s.lock = k.lock
      /\ s.err[t] = "EINTR" /\ \A u \in Thread \ {t} : s.err[u] = k.err[u]
  BY <1>0, <1>1, <1>2, SetErrorFrame DEF SetError
<1>4. PICK r : r = rt_ipc_list_suspend(s, q, t, Order, flag)
  OBVIOUS
<1>5. s.stat[t] \in {"READY", "RUNNING"} /\ s.stat[t] \in Active
  BY <1>3 DEF Blocks, MaySuspend, Active
<1>6. /\ Sound(r) /\ Suspended(r, t) /\ r.err = s.err
      /\ \A n \in Queue : \A u : Linked(r, n, u) <=> Linked(s, n, u) \/ (n = q /\ u = t)
  BY <1>0, <1>3, <1>4, <1>5, ListSuspendSound
<1>7. OthersKeep(s, r, t) /\ r.cur = s.cur /\ r.lock = s.lock
  BY <1>0, <1>3, <1>4, <1>5, ListSuspendFrame
<1>8. k' = r \/ k' = StartThreadTimer(r, t)
  BY <1>1, <1>4 DEF Blocks
<1>9. /\ Sound(k') /\ k'.list = r.list /\ k'.stat = r.stat /\ k'.err = r.err
      /\ k'.cur = r.cur /\ k'.lock = r.lock
  <2>1. CASE k' = r
    BY <2>1, <1>6
  <2>2. CASE k' = StartThreadTimer(r, t)
    BY <2>2, <1>0, <1>6, StartTimerSound, StartTimerFrame DEF Sound
  <2> QED
    BY <1>8, <2>1, <2>2
<1>10. /\ \A n \in Queue : \A u : Linked(k', n, u) <=> Linked(k, n, u) \/ (n = q /\ u = t)
       /\ Suspended(k', t) /\ \A u \in Thread \ {t} : Suspended(k', u) <=> Suspended(k, u)
       /\ k'.err[t] = "EINTR" /\ \A u \in Thread \ {t} : k'.err[u] = k.err[u]
       /\ k'.cur = t /\ k'.lock = 0
  <2>1. \A n \in Queue : \A u : Linked(k', n, u) <=> Linked(k, n, u) \/ (n = q /\ u = t)
    BY <1>3, <1>6, <1>9 DEF Linked
  <2>2. Suspended(k', t) /\ \A u \in Thread \ {t} : Suspended(k', u) <=> Suspended(k, u)
    <3>1. \A u \in Thread \ {t} : SameActivity(k, k', u)
      BY <1>3, <1>7, <1>9 DEF OthersKeep, SameActivity
    <3> QED
      BY <3>1, <1>6, <1>9 DEF SameActivity, Suspended, SuspendFlag, Active
  <2> QED
    BY <2>1, <2>2, <1>0, <1>3, <1>6, <1>7, <1>9
<1>11. /\ Goto(t, "blocking") /\ mb' = mb /\ alive' = alive /\ done' = NothingDone
       /\ call' = [call EXCEPT ![t] = [list |-> q, time |-> time, flag |-> flag, mail |-> m]]
  BY DEF Blocks
<1>12. /\ [list |-> q, time |-> time, flag |-> flag, mail |-> m] \in CallRecord
       /\ pc \in [Thread -> Location] /\ call \in [Thread -> CallRecord]
  BY <1>0, TypeFacts DEF CallRecord
<1>13. /\ pc'[t] = "blocking" /\ call'[t].list = q /\ call'[t].mail = m
       /\ \A u \in Thread \ {t} : pc'[u] = pc[u] /\ call'[u] = call[u]
       /\ pc' \in [Thread -> Location] /\ call' \in [Thread -> CallRecord]
  BY <1>0, <1>2, <1>11, <1>12 DEF Goto
<1>14. ASSUME NEW u \in Thread PROVE ThreadInv(u)'
  <2>1. CASE u = t
    BY <2>1, <1>0, <1>2, <1>10, <1>13 DEF ThreadInv
  <2>2. CASE u # t
    <3>1. ThreadInv(u) /\ call[u].list \in Queue
      BY <1>0, CallListIsQueue
    <3> QED
      BY <2>2, <3>1, <1>10, <1>13 DEF ThreadInv
  <2> QED
    BY <2>1, <2>2
<1>15. RunInv'
  BY <1>10, <1>13 DEF RunInv
<1>16. NoLoss(other)
  <2>1. NoMoreWait(other)
    BY <1>0, <1>10 DEF NoMoreWait
  <2>2. \A u \in Woken(other) : u \in Thread /\ u # t
    BY <1>0, WokenFacts
  <2>3. \A u \in Woken(other) : u \in Woken(other)'
    BY <2>2, <1>0, <1>10, <1>13, WokenFacts
  <2> QED
    BY <2>1, <2>3 DEF NoLoss
<1>17. NobodyForgotten'
  <2>1. CASE other = receivers
    BY <2>1, <1>11, <1>16, ForgottenSame
  <2>2. CASE other = senders
    BY <2>2, <1>0, <1>11, <1>16, ForgottenSame
  <2> QED
    BY <2>1, <2>2
<1>18. LifeInv'
  BY <1>0, <1>2, <1>11, <1>13, LifeSame
<1>19. done' \in DoneRecord /\ mb' \in MailboxState /\ RingOK(mb') /\ alive' \in BOOLEAN
  BY <1>11, DoneTypes, SameMailbox
<1> QED
  BY <1>9, <1>13, <1>14, <1>15, <1>17, <1>18, <1>19, MailInvFrom

LEMMA TransferStep ==
    ASSUME MailInv, NEW t \in App, Transfer(t)
    PROVE  MailInv'
<1>0. /\ t \in Thread /\ TypeOK /\ Sound(k) /\ k.lock = 0
      /\ receivers \in Queue /\ senders \in Queue /\ receivers # senders
  BY MailFacts, MailQueues DEF App
<1>1. /\ \A e \in {"EINTR", "ETIMEOUT"} : e \in Error
      /\ \A time \in Time : time \in {"zero", "ticks", "forever"}
      /\ \A flag \in Flag : flag \in SuspendFlag
      /\ \A time \in TimeLeft(t) : time \in {"zero", "ticks", "forever"}
      /\ call[t].flag \in SuspendFlag
  BY <1>0, MailboxAssumption DEF Error, TimeLeft, TypeOK
<1>2. ASSUME NEW m \in Mail, NEW time \in {"zero", "ticks", "forever"}, NEW flag \in SuspendFlag,
             Acts(t, receivers),
             SendStores(t, m) \/ SendFull(t, time) \/ SendWaits(t, m, time, flag)
      PROVE  MailInv'
  <2>1. CASE SendStores(t, m)
    BY <2>1, <1>2, SendStoresStep
  <2>2. CASE SendFull(t, time)
    <3>1. k' = k \/ \E e \in Error : k' = SetError(k, t, e)
      BY <2>2, <1>1 DEF SendFull
    <3>2. /\ mb.entry = Size /\ Goto(t, "run") /\ call' = [call EXCEPT ![t] = NoCall]
          /\ mb' = mb /\ alive' = alive /\ done' \in DoneRecord
      BY <2>2, <1>0, DoneTypes DEF SendFull, Ends
    <3> QED
      BY <3>1, <3>2, <1>2, GivesUp
  <2>3. CASE mb.entry = Size /\ Blocks(t, senders, time, flag, m)
    BY <2>3, <1>0, <1>2, BlocksStep
  <2>4. CASE mb.entry = Size /\ Interrupted(t, time, flag)
    <3>1. k' = k \/ \E e \in Error : k' = SetError(k, t, e)
      BY <2>4, <1>1 DEF Interrupted
    <3>2. /\ mb.entry = Size /\ Goto(t, "run") /\ call' = [call EXCEPT ![t] = NoCall]
          /\ mb' = mb /\ alive' = alive /\ done' \in DoneRecord
      BY <2>4, <1>0, DoneTypes DEF Interrupted, Ends
    <3> QED
      BY <3>1, <3>2, <1>2, GivesUp
  <2> QED
    BY <1>2, <2>1, <2>2, <2>3, <2>4 DEF SendWaits
<1>3. ASSUME NEW time \in {"zero", "ticks", "forever"}, NEW flag \in SuspendFlag,
             Acts(t, senders),
             ReceiveTakes(t) \/ ReceiveEmpty(t, time) \/ ReceiveWaits(t, time, flag)
      PROVE  MailInv'
  <2>1. CASE ReceiveTakes(t)
    BY <2>1, <1>3, ReceiveTakesStep
  <2>2. CASE ReceiveEmpty(t, time)
    <3>1. k' = k \/ \E e \in Error : k' = SetError(k, t, e)
      BY <2>2, <1>1 DEF ReceiveEmpty
    <3>2. /\ mb.entry = 0 /\ Goto(t, "run") /\ call' = [call EXCEPT ![t] = NoCall]
          /\ mb' = mb /\ alive' = alive /\ done' \in DoneRecord
      BY <2>2, <1>0, DoneTypes DEF ReceiveEmpty, Ends
    <3> QED
      BY <3>1, <3>2, <1>0, <1>3, GivesUp
  <2>3. CASE mb.entry = 0 /\ Blocks(t, receivers, time, flag, NoMail)
    BY <2>3, <1>0, <1>3, BlocksStep
  <2>4. CASE mb.entry = 0 /\ Interrupted(t, time, flag)
    <3>1. k' = k \/ \E e \in Error : k' = SetError(k, t, e)
      BY <2>4, <1>1 DEF Interrupted
    <3>2. /\ mb.entry = 0 /\ Goto(t, "run") /\ call' = [call EXCEPT ![t] = NoCall]
          /\ mb' = mb /\ alive' = alive /\ done' \in DoneRecord
      BY <2>4, <1>0, DoneTypes DEF Interrupted, Ends
    <3> QED
      BY <3>1, <3>2, <1>0, <1>3, GivesUp
  <2> QED
    BY <1>3, <2>1, <2>2, <2>3, <2>4 DEF ReceiveWaits
<1>4. ASSUME NEW m \in Mail, NEW time \in Time, NEW flag \in Flag, SendBegins(t, m, time, flag)
      PROVE  MailInv'
  <2>1. Acts(t, receivers)
    BY <1>4, CallerIsActive DEF SendBegins
  <2>2. time \in {"zero", "ticks", "forever"} /\ flag \in SuspendFlag
    BY <1>1
  <2> QED
    BY <2>1, <2>2, <1>2, <1>4 DEF SendBegins
<1>5. ASSUME NEW time \in Time, NEW flag \in Flag, ReceiveBegins(t, time, flag)
      PROVE  MailInv'
  <2>1. Acts(t, senders)
    BY <1>5, CallerIsActive DEF ReceiveBegins
  <2>2. time \in {"zero", "ticks", "forever"} /\ flag \in SuspendFlag
    BY <1>1
  <2> QED
    BY <2>1, <2>2, <1>3, <1>5 DEF ReceiveBegins
<1>6. CASE SendAgain(t)
  <2>1. TriesAgain(t, senders)
    BY <1>6 DEF SendAgain
  <2>2. Acts(t, receivers)
    BY <2>1, <1>0, TrierIsActive
  <2>3. call[t].mail \in Mail
    BY <2>1, <1>0, MailFacts DEF TriesAgain, ThreadInv, At, Waits
  <2>4. PICK time \in TimeLeft(t) :
             \/ SendStores(t, call[t].mail) \/ SendFull(t, time)
             \/ SendWaits(t, call[t].mail, time, call[t].flag)
    BY <1>6 DEF SendAgain
  <2>5. time \in {"zero", "ticks", "forever"}
    BY <1>1
  <2> QED
    BY <2>2, <2>3, <2>4, <2>5, <1>1, <1>2
<1>7. CASE ReceiveAgain(t)
  <2>1. TriesAgain(t, receivers)
    BY <1>7 DEF ReceiveAgain
  <2>2. Acts(t, senders)
    BY <2>1, <1>0, TrierIsActive
  <2>3. PICK time \in TimeLeft(t) :
             ReceiveTakes(t) \/ ReceiveEmpty(t, time) \/ ReceiveWaits(t, time, call[t].flag)
    BY <1>7 DEF ReceiveAgain
  <2>4. time \in {"zero", "ticks", "forever"}
    BY <1>1
  <2> QED
    BY <2>2, <2>3, <2>4, <1>1, <1>3
<1>8. CASE BlockedSchedules(t) \/ Reschedule(t)
  <2>1. PICK l \in {"blocked", "run"} :
             /\ k' = rt_schedule(k) /\ Goto(t, l) /\ call' = call /\ mb' = mb
             /\ alive' = alive /\ done' = NothingDone
             /\ l \in Location /\ (l \in Waits <=> pc[t] \in Waits)
             /\ pc[t] \notin Detaching /\ l \notin Detaching
    BY <1>8 DEF BlockedSchedules, Reschedule, At, Location, Waits, Detaching
  <2>2. Goes(t) /\ pc'[t] = l /\ pc' \in [Thread -> Location]
    BY <2>1, <1>0, GoesOn
  <2>3. /\ Sound(k') /\ Calm(k, k') /\ k'.err = k.err /\ k'.stat[k'.cur] = "RUNNING"
    BY <2>1, <1>0, ScheduleSound, ScheduleFrame, ScheduleRuns
  <2>4. CurrentStays
    BY <2>3 DEF CurrentStays
  <2>5. t \in Woken(receivers) \/ t \in Woken(senders) => pc'[t] \in Waits
    BY <2>1, <2>2, WokenFacts
  <2>6. /\ (\A u \in Thread : ThreadInv(u)') /\ RunInv' /\ NoLoss(receivers) /\ NoLoss(senders)
        /\ NoneNew(receivers) /\ NoneNew(senders)
    BY <2>2, <2>3, <2>4, <2>5, <1>0, QuietStep
  <2>7. NobodyForgotten'
    BY <2>1, <2>6, ForgottenSame
  <2>8. LifeInv'
    BY <2>1, <2>2, <2>6, <1>0, LifeSame DEF Goes
  <2>9. /\ done' \in DoneRecord /\ mb' \in MailboxState /\ RingOK(mb') /\ alive' \in BOOLEAN
        /\ call' \in [Thread -> CallRecord]
    BY <2>1, DoneTypes, SameMailbox
  <2> QED
    BY <2>2, <2>3, <2>6, <2>7, <2>8, <2>9, MailInvFrom
<1>9. CASE BlockedFails(t)
  <2>1. /\ At(t, "blocked") /\ k.err[t] # "EOK" /\ k' = k /\ mb' = mb /\ alive' = alive
        /\ call' = [call EXCEPT ![t] = NoCall] /\ Goto(t, "run")
        /\ done' = [by |-> t, result |-> k.err[t]]
    BY <1>9 DEF BlockedFails, Ends
  <2>2. "blocked" \in Location \ {"blocking"} /\ "run" \in Location /\ "run" \notin Waits
        /\ "run" \notin Detaching /\ "blocked" \notin Detaching
    BY DEF Location, Waits, Detaching
  <2>3. k.cur = t /\ pc[t] = "blocked" /\ ~ Suspended(k, t)
    BY <2>1, <2>2, <1>0, RunnerFacts
  <2>4. /\ Goes(t) /\ pc'[t] = "run"
        /\ pc' \in [Thread -> Location] /\ call' \in [Thread -> CallRecord]
    BY <2>1, <2>2, <2>3, <1>0, Leaves
  <2>5. CurrentStays /\ Calm(k, k') /\ Sound(k') /\ k'.err = k.err
    BY <2>1, <2>3, <1>0, CalmSame DEF CurrentStays
  <2>6. t \notin Woken(receivers) /\ t \notin Woken(senders)
    BY <2>1, WokenFacts
  <2>7. /\ (\A u \in Thread : ThreadInv(u)') /\ RunInv' /\ NoLoss(receivers) /\ NoLoss(senders)
        /\ NoneNew(receivers) /\ NoneNew(senders)
    BY <2>4, <2>5, <2>6, <1>0, QuietStep
  <2>8. NobodyForgotten'
    BY <2>1, <2>7, ForgottenSame
  <2>9. LifeInv'
    BY <2>1, <2>2, <2>3, <2>4, <2>7, <1>0, LifeSame DEF Goes
  <2>10. /\ done' \in DoneRecord /\ mb' \in MailboxState /\ RingOK(mb') /\ alive' \in BOOLEAN
    <3>1. k.err[t] \in Error
      BY <1>0 DEF Sound, KernelState
    <3> QED
      BY <3>1, <2>1, <1>0, DoneTypes, SameMailbox
  <2> QED
    BY <2>4, <2>5, <2>7, <2>8, <2>9, <2>10, MailInvFrom
<1> QED
  BY <1>4, <1>5, <1>6, <1>7, <1>8, <1>9 DEF Transfer

-----------------------------------------------------------------------------
(* The other steps *)

\* A step in which t goes on, nobody is resumed without an error and the mails stay
\* as they are.
LEMMA PlainStep ==
    ASSUME MailInv, NEW t \in Thread, Goes(t), CurrentStays, Sound(k'),
           \/ Calm(k, k') /\ \A u \in Thread : k'.err[u] = k.err[u]
           \/ \E h \in Thread : /\ Wakes(k, k', h)
                                /\ \/ Suspended(k, h) /\ k'.err[h] # "EOK"
                                   \/ k'.err[h] = k.err[h],
           pc'[t] \in Waits <=> pc[t] \in Waits
    PROVE  /\ (\A u \in Thread : ThreadInv(u)') /\ RunInv'
           /\ NoLoss(receivers) /\ NoLoss(senders) /\ NoneNew(receivers) /\ NoneNew(senders)
<1>1. receivers \in Queue /\ senders \in Queue
  BY MailQueues
<1>2. t \in Woken(receivers) \/ t \in Woken(senders) => pc'[t] \in Waits
  BY WokenFacts
<1>3. CASE Calm(k, k') /\ \A u \in Thread : k'.err[u] = k.err[u]
  BY <1>1, <1>2, <1>3, QuietStep
<1>4. ASSUME NEW h \in Thread, Wakes(k, k', h),
             \/ Suspended(k, h) /\ k'.err[h] # "EOK"
             \/ k'.err[h] = k.err[h]
      PROVE  /\ (\A u \in Thread : ThreadInv(u)') /\ RunInv'
             /\ NoLoss(receivers) /\ NoLoss(senders) /\ NoneNew(receivers) /\ NoneNew(senders)
  BY <1>1, <1>2, <1>4, WakeStep
<1> QED
  BY <1>3, <1>4

\* The same with the mailbox in the state it was in.
LEMMA PlainStepKeeps ==
    ASSUME MailInv, NEW t \in Thread, Goes(t), CurrentStays, Sound(k'),
           \/ Calm(k, k') /\ \A u \in Thread : k'.err[u] = k.err[u]
           \/ \E h \in Thread : /\ Wakes(k, k', h)
                                /\ \/ Suspended(k, h) /\ k'.err[h] # "EOK"
                                   \/ k'.err[h] = k.err[h],
           pc'[t] \in Waits <=> pc[t] \in Waits,
           pc'[t] = pc[t] \/ (pc[t] \notin Detaching /\ pc'[t] \notin Detaching),
           pc' \in [Thread -> Location],
           mb' = mb, alive' = alive, call' = call, done' = NothingDone
    PROVE  MailInv'
<1>1. /\ (\A u \in Thread : ThreadInv(u)') /\ RunInv'
      /\ NoLoss(receivers) /\ NoLoss(senders) /\ NoneNew(receivers) /\ NoneNew(senders)
  BY PlainStep
<1>2. NobodyForgotten'
  BY <1>1, ForgottenSame
<1>3. \A u \in Thread \ {t} : pc'[u] = pc[u]
  BY DEF Goes
<1>4. LifeInv'
  BY <1>1, <1>3, LifeSame
<1>5. /\ done' \in DoneRecord /\ mb' \in MailboxState /\ RingOK(mb') /\ alive' \in BOOLEAN
      /\ call' \in [Thread -> CallRecord]
  BY DoneTypes, SameMailbox
<1> QED
  BY <1>1, <1>2, <1>4, <1>5, MailInvFrom

LEMMA OthersStep ==
    ASSUME MailInv, NEW t \in App, Others(t)
    PROVE  MailInv'
<1>0. /\ t \in Thread /\ TypeOK /\ Sound(k) /\ k.lock = 0 /\ k \in KernelState
      /\ pc \in [Thread -> Location] /\ k.cur \in Thread
  BY MailFacts, TypeFacts DEF App
<1>1. /\ "run" \in Location \ {"blocking"} /\ "run" \notin Waits /\ "run" \notin Detaching
      /\ "resched" \in Location /\ "resched" \notin Waits /\ "resched" \notin Detaching
  BY DEF Location, Waits, Detaching
<1>2. At(t, "run")
  BY DEF Others, Startup, Kill, Deliver
<1>3. k.cur = t /\ pc[t] = "run" /\ ~ Suspended(k, t)
  BY <1>0, <1>1, <1>2, RunnerFacts
<1>4. ASSUME NEW u \in App, Startup(t, u) PROVE MailInv'
  <2>1. /\ k.stat[u] = "INIT" /\ k' = rt_thread_startup(k, u) /\ Goto(t, "resched")
        /\ mb' = mb /\ alive' = alive /\ call' = call /\ done' = NothingDone
    BY <1>4 DEF Startup
  <2>2. u \in Thread
    BY DEF App
  <2>3. Sound(k') /\ Wakes(k, k', u) /\ k'.err = k.err /\ k'.cur = k.cur
    BY <2>1, <1>0, StartupSound, StartupFrame
  <2>4. Goes(t) /\ pc'[t] = "resched" /\ pc' \in [Thread -> Location]
    BY <2>1, <1>0, <1>1, <1>3, GoesOn
  <2>5. CurrentStays
    BY <2>3, <1>3 DEF CurrentStays
  <2> QED
    BY <2>1, <2>2, <2>3, <2>4, <2>5, <1>0, <1>1, <1>3, PlainStepKeeps
<1>5. ASSUME NEW u \in Process, NEW s \in Sig, Kill(t, u, s) PROVE MailInv'
  <2>1. /\ k' = lwp_thread_kill(k, u, s) /\ pc' = pc
        /\ mb' = mb /\ alive' = alive /\ call' = call /\ done' = NothingDone
    BY <1>5 DEF Kill
  <2>2. u \in Thread /\ s \in Signal
    BY MailboxAssumption DEF App
  <2>3. Sound(k') /\ k'.err = k.err
    BY <2>1, <2>2, <1>0, KillSound, KillFrame
  <2>4. Dispatches(k, k') /\ (Calm(k, k') \/ Wakes(k, k', u))
    BY <2>1, <2>2, <1>0, KillFrame
  <2>5. Goes(t)
    BY <2>1, <1>0, NobodyGoes
  <2>6. CurrentStays
    BY <2>1, <2>4, <1>0 DEF CurrentStays, Dispatches
  <2> QED
    BY <2>1, <2>2, <2>3, <2>4, <2>5, <2>6, <1>0, PlainStepKeeps
<1>6. CASE Deliver(t)
  <2>1. PICK s \in k.sig[t] : k' = [k EXCEPT !.sig[t] = @ \ {s}]
    BY <1>6 DEF Deliver
  <2>2. /\ pc' = pc /\ mb' = mb /\ alive' = alive /\ call' = call /\ done' = NothingDone
    BY <1>6 DEF Deliver
  <2>3. k.sig \in [Thread -> SUBSET Signal]
    BY <1>0 DEF KernelState
  <2>4. [k.sig EXCEPT ![t] = @ \ {s}] \in [Thread -> SUBSET Signal]
    BY <2>3, <1>0
  <2>5. /\ k' \in KernelState /\ k'.list = k.list /\ k'.group = k.group /\ k'.stat = k.stat
        /\ k'.cur = k.cur /\ k'.prio = k.prio /\ k'.timer = k.timer /\ k'.err = k.err
        /\ k'.lock = k.lock
    BY <2>1, <2>4, <1>0 DEF KernelState
  <2>6. Sound(k')
    BY <2>5, <1>0, MiscSound
  <2>7. Calm(k, k') /\ CurrentStays
    BY <2>2, <2>5 DEF Calm, SameActivity, CurrentStays
  <2>8. Goes(t)
    BY <2>2, <1>0, NobodyGoes
  <2> QED
    BY <2>2, <2>5, <2>6, <2>7, <2>8, <1>0, PlainStepKeeps
<1> QED
  BY <1>4, <1>5, <1>6 DEF Others

\* A step of a thread in rt_mb_control or rt_mb_detach that leaves the kernel alone
\* or resumes a thread with an error.
LEMMA ControlPlain ==
    ASSUME MailInv, NEW t \in App, NEW l \in Location \ Waits, At(t, l),
           NEW l2 \in Location \ Waits, Goto(t, l2), call' = call,
           k' = k \/ \E q \in Queue : Waiters(q) # {} /\ k' = ResumeAllRound(k, q)
    PROVE  /\ (\A u \in Thread : ThreadInv(u)') /\ RunInv' /\ Sound(k')
           /\ NoLoss(receivers) /\ NoLoss(senders) /\ NoneNew(receivers) /\ NoneNew(senders)
           /\ pc' \in [Thread -> Location] /\ pc[t] = l /\ pc'[t] = l2
           /\ \A u \in Thread \ {t} : pc'[u] = pc[u]
<1>0. t \in Thread /\ Sound(k) /\ "blocking" \in Waits
  BY MailFacts DEF App, Waits
<1>1. k.cur = t /\ pc[t] = l /\ ~ Suspended(k, t)
  BY <1>0, RunnerFacts
<1>2. Goes(t) /\ pc'[t] = l2 /\ pc' \in [Thread -> Location]
  BY <1>0, <1>1, GoesOn
<1>3. \A u \in Thread \ {t} : pc'[u] = pc[u]
  BY <1>2 DEF Goes
<1>4. CASE k' = k
  <2>1. CurrentStays /\ Calm(k, k') /\ Sound(k') /\ k'.err = k.err
    BY <1>0, <1>1, <1>4, CalmSame DEF CurrentStays
  <2> QED
    BY <2>1, <1>0, <1>1, <1>2, <1>3, PlainStep
<1>5. ASSUME NEW q \in Queue, Waiters(q) # {}, k' = ResumeAllRound(k, q)
      PROVE  /\ (\A u \in Thread : ThreadInv(u)') /\ RunInv' /\ Sound(k')
             /\ NoLoss(receivers) /\ NoLoss(senders) /\ NoneNew(receivers) /\ NoneNew(senders)
  <2>1. PICK h \in Thread : /\ Linked(k, q, h) /\ Suspended(k, h) /\ Wakes(k, k', h)
                            /\ k'.err[h] = "ERROR" /\ k'.cur = k.cur /\ Sound(k')
    BY <1>5, RoundResumes
  <2>2. CurrentStays
    BY <2>1, <1>1 DEF CurrentStays
  <2>3. k'.err[h] # "EOK"
    BY <2>1
  <2> QED
    BY <2>1, <2>2, <2>3, <1>0, <1>1, <1>2, PlainStep
<1> QED
  BY <1>1, <1>2, <1>3, <1>4, <1>5

LEMMA ControlStep ==
    ASSUME MailInv, NEW t \in App, Control(t)
    PROVE  MailInv'
<1>0. /\ t \in Thread /\ TypeOK /\ Sound(k) /\ receivers \in Queue /\ senders \in Queue
      /\ pc \in [Thread -> Location] /\ LifeInv /\ receivers # senders
  BY MailFacts, MailQueues, TypeFacts DEF App
<1>1. /\ \A l \in {"run", "resched", "reset"} \cup Detaching : l \in Location \ Waits
      /\ "reset" \notin Detaching /\ "resched" \notin Detaching /\ "run" \notin Detaching
  BY DEF Location, Waits, Detaching
<1>2. CASE ResetBegins(t)
  <2>1. At(t, "run") /\ Goto(t, "reset") /\ k' = k /\ mb' = mb /\ alive' = alive /\ call' = call
        /\ done' = NothingDone
    BY <1>2 DEF ResetBegins, Calls
  <2>2. /\ (\A u \in Thread : ThreadInv(u)') /\ RunInv' /\ Sound(k')
        /\ NoLoss(receivers) /\ NoLoss(senders) /\ NoneNew(receivers) /\ NoneNew(senders)
        /\ pc' \in [Thread -> Location] /\ pc[t] = "run" /\ pc'[t] = "reset"
        /\ \A u \in Thread \ {t} : pc'[u] = pc[u]
    BY <2>1, <1>1, ControlPlain
  <2>3. NobodyForgotten' /\ LifeInv'
    BY <2>1, <2>2, <1>0, <1>1, ForgottenSame, LifeSame
  <2> QED
    BY <2>1, <2>2, <2>3, DoneTypes, SameMailbox, MailInvFrom
<1>3. CASE ResetResumes(t)
  <2>1. /\ At(t, "reset") /\ mb' = mb /\ alive' = alive /\ call' = call
        /\ done' = NothingDone /\ pc' = pc
    BY <1>3 DEF ResetResumes
  <2>2. \E q \in Queue : Waiters(q) # {} /\ k' = ResumeAllRound(k, q)
    <3>1. CASE Waiters(receivers) # {}
      BY <3>1, <1>0, <1>3 DEF ResetResumes
    <3>2. CASE Waiters(receivers) = {}
      <4>1. Waiters(senders) # {} /\ k' = ResumeAllRound(k, senders)
        BY <3>2, <1>3 DEF ResetResumes
      <4> QED
        BY <4>1, <1>0
    <3> QED
      BY <3>1, <3>2
  <2>3. Goto(t, "reset")
    BY <2>1, <1>0 DEF Goto, At
  <2>4. /\ (\A u \in Thread : ThreadInv(u)') /\ RunInv' /\ Sound(k')
        /\ NoLoss(receivers) /\ NoLoss(senders) /\ NoneNew(receivers) /\ NoneNew(senders)
        /\ pc' \in [Thread -> Location] /\ pc[t] = "reset" /\ pc'[t] = "reset"
        /\ \A u \in Thread \ {t} : pc'[u] = pc[u]
    BY <2>1, <2>2, <2>3, <1>1, ControlPlain
  <2>5. NobodyForgotten' /\ LifeInv'
    BY <2>1, <2>4, <1>0, <1>1, ForgottenSame, LifeSame
  <2> QED
    BY <2>1, <2>4, <2>5, DoneTypes, SameMailbox, MailInvFrom
<1>4. CASE ResetEnds(t)
  <2>1. /\ At(t, "reset") /\ k' = k /\ mb' = Empty /\ alive' = alive /\ call' = call
        /\ done' = NothingDone /\ Goto(t, "resched")
        /\ Waiters(receivers) = {} /\ Waiters(senders) = {}
    BY <1>4 DEF ResetEnds
  <2>2. /\ (\A u \in Thread : ThreadInv(u)') /\ RunInv' /\ Sound(k')
        /\ NoneNew(receivers) /\ NoneNew(senders)
        /\ pc' \in [Thread -> Location] /\ pc[t] = "reset" /\ pc'[t] = "resched"
        /\ \A u \in Thread \ {t} : pc'[u] = pc[u]
    BY <2>1, <1>1, ControlPlain
  <2>3. NobodyForgotten'
    BY <2>1, WaitersFacts, ForgottenFacts
  <2>4. LifeInv'
    BY <2>1, <2>2, <1>0, <1>1, LifeSame
  <2> QED
    BY <2>1, <2>2, <2>3, <2>4, DoneTypes, SameMailbox, EmptyRing, MailInvFrom
<1>5. CASE DetachBegins(t)
  <2>1. /\ At(t, "run") /\ k' = k /\ mb' = mb /\ alive /\ alive' = FALSE /\ call' = call
        /\ done' = NothingDone /\ Goto(t, "detach")
        /\ Woken(receivers) = {} /\ Woken(senders) = {}
    BY <1>5 DEF DetachBegins, Calls
  <2>2. /\ (\A u \in Thread : ThreadInv(u)') /\ RunInv' /\ Sound(k')
        /\ NoLoss(receivers) /\ NoLoss(senders) /\ NoneNew(receivers) /\ NoneNew(senders)
        /\ pc' \in [Thread -> Location] /\ pc'[t] = "detach"
        /\ \A u \in Thread \ {t} : pc'[u] = pc[u]
    BY <2>1, <1>1, ControlPlain DEF Detaching
  <2>3. NobodyForgotten'
    BY <2>1, <2>2, ForgottenSame
  <2>4. LifeInv'
    <3>1. Woken(receivers)' = {} /\ Woken(senders)' = {}
      BY <2>1, <2>2 DEF NoneNew
    <3>2. \A u \in Thread : pc'[u] \notin {"detach3", "detach4"}
      BY <2>1, <2>2, <1>0, LifeFacts DEF Detaching
    <3>3. "detach" \in Detaching
      BY DEF Detaching
    <3> QED
      BY <3>1, <3>2, <3>3, <2>1, <2>2, <1>0, LifeFacts
  <2> QED
    BY <2>1, <2>2, <2>3, <2>4, DoneTypes, SameMailbox, MailInvFrom
<1>6. CASE DetachTests(t)
  <2>1. /\ k' = k /\ mb' = mb /\ alive' = alive /\ call' = call /\ done' = NothingDone
    BY <1>6 DEF DetachTests
  <2>2. PICK l \in {"detach", "detach3"}, l2 \in {"detach2", "detach3", "detach4", "run"} :
             /\ At(t, l) /\ Goto(t, l2)
             /\ l2 \in {"detach3", "detach4"} =>
                    l = "detach3" \/ Waiters(receivers) = {}
             /\ l2 = "run" => l = "detach3" /\ Waiters(senders) = {}
    BY <1>6 DEF DetachTests
  <2>3. l \in Location \ Waits /\ l2 \in Location \ Waits /\ l \in Detaching
        /\ (l2 \in Detaching \/ l2 = "run")
    BY DEF Location, Waits, Detaching
  <2>4. /\ (\A u \in Thread : ThreadInv(u)') /\ RunInv' /\ Sound(k')
        /\ NoLoss(receivers) /\ NoLoss(senders) /\ NoneNew(receivers) /\ NoneNew(senders)
        /\ pc' \in [Thread -> Location] /\ pc[t] = l /\ pc'[t] = l2
        /\ \A u \in Thread \ {t} : pc'[u] = pc[u]
    BY <2>1, <2>2, <2>3, ControlPlain
  <2>5. NobodyForgotten'
    BY <2>1, <2>4, ForgottenSame
  <2>6. LifeInv'
    <3>1. ~ alive
      BY <2>3, <2>4, <1>0, LifeFacts
    <3>2. Woken(receivers)' = {} /\ Woken(senders)' = {}
      BY <3>1, <2>4, <1>0, LifeFacts DEF NoneNew
    <3>3. ASSUME NEW u \in Thread, pc'[u] \in {"detach3", "detach4"}
          PROVE  \A v : ~ Linked(k', receivers, v)
      <4>1. pc[u] \in {"detach3", "detach4"} \/ Waiters(receivers) = {}
        BY <3>3, <2>2, <2>4
      <4> QED
        BY <4>1, <2>1, <1>0, LifeFacts, WaitersFacts
    <3>4. ASSUME \A u \in Thread : pc'[u] \notin Detaching
          PROVE  \A v : ~ Linked(k', receivers, v) /\ ~ Linked(k', senders, v)
      <4>1. l = "detach3" /\ Waiters(senders) = {}
        BY <3>4, <2>2, <2>3, <2>4, <1>0
      <4> QED
        BY <4>1, <2>1, <2>4, <1>0, LifeFacts, WaitersFacts
    <3> QED
      BY <3>1, <3>2, <3>3, <3>4, <2>1, LifeFacts
  <2> QED
    BY <2>1, <2>4, <2>5, <2>6, DoneTypes, SameMailbox, MailInvFrom
<1>7. ASSUME NEW q \in {receivers, senders}, DetachResumes(t, q) PROVE MailInv'
  <2>1. /\ mb' = mb /\ alive' = alive /\ call' = call /\ done' = NothingDone
    BY <1>7 DEF DetachResumes
  <2>2. k' = k \/ \E n \in Queue : Waiters(n) # {} /\ k' = ResumeAllRound(k, n)
    BY <1>0, <1>7 DEF DetachResumes
  <2>3. PICK l \in {"detach2", "detach4"}, l2 \in {"detach", "detach3"} :
             /\ At(t, l) /\ Goto(t, l2)
             /\ l2 = "detach3" => l = "detach4"
    BY <1>0, <1>7 DEF DetachResumes
  <2>4. /\ l \in Location \ Waits /\ l2 \in Location \ Waits
        /\ l \in Detaching /\ l2 \in Detaching
    BY DEF Location, Waits, Detaching
  <2>5. /\ (\A u \in Thread : ThreadInv(u)') /\ RunInv' /\ Sound(k')
        /\ NoLoss(receivers) /\ NoLoss(senders) /\ NoneNew(receivers) /\ NoneNew(senders)
        /\ pc' \in [Thread -> Location] /\ pc[t] = l /\ pc'[t] = l2
        /\ \A u \in Thread \ {t} : pc'[u] = pc[u]
    BY <2>1, <2>2, <2>3, <2>4, ControlPlain
  <2>6. NobodyForgotten'
    BY <2>1, <2>5, ForgottenSame
  <2>7. LifeInv'
    <3>1. ~ alive
      BY <2>4, <2>5, <1>0, LifeFacts
    <3>2. Woken(receivers)' = {} /\ Woken(senders)' = {}
      BY <3>1, <2>5, <1>0, LifeFacts DEF NoneNew
    <3>3. ASSUME NEW u \in Thread, pc'[u] \in {"detach3", "detach4"}
          PROVE  \A v : ~ Linked(k', receivers, v)
      <4>1. pc[u] \in {"detach3", "detach4"}
        BY <3>3, <2>3, <2>5
      <4> QED
        BY <4>1, <2>5, <1>0, LifeFacts DEF NoneNew, NoMoreWait
    <3> QED
      BY <3>1, <3>2, <3>3, <2>1, <2>4, <2>5, <1>0, LifeFacts
  <2> QED
    BY <2>1, <2>5, <2>6, <2>7, DoneTypes, SameMailbox, MailInvFrom
<1>8. CASE Reinit(t)
  <2>1. /\ At(t, "run") /\ k' = k /\ ~ alive /\ mb' = Empty /\ alive' = TRUE /\ call' = call
        /\ done' = NothingDone /\ pc' = pc /\ \A u \in Thread : pc[u] \notin Detaching
    BY <1>8 DEF Reinit
  <2>2. Goto(t, "run")
    BY <2>1, <1>0 DEF Goto, At
  <2>3. /\ (\A u \in Thread : ThreadInv(u)') /\ RunInv' /\ Sound(k')
        /\ pc' \in [Thread -> Location]
    BY <2>1, <2>2, <1>1, ControlPlain
  <2>4. \A v : ~ Linked(k', receivers, v) /\ ~ Linked(k', senders, v)
    BY <2>1, <1>0, LifeFacts
  <2>5. NobodyForgotten' /\ LifeInv'
    BY <2>1, <2>4, ForgottenFacts, LifeFacts DEF Detaching
  <2> QED
    BY <2>1, <2>3, <2>5, DoneTypes, SameMailbox, EmptyRing, MailInvFrom
<1> QED
  BY <1>2, <1>3, <1>4, <1>5, <1>6, <1>7, <1>8 DEF Control

-----------------------------------------------------------------------------
(* Interrupts *)

\* A mail that a handler sends: the first receiver, if there is one, is resumed.
LEMMA HandlerStep ==
    ASSUME MailInv, NEW m \in Mail, HandlerSends(m)
    PROVE  MailInv'
<1>0. /\ TypeOK /\ Sound(k) /\ k.cur \in Thread /\ k.lock = 0 /\ RunInv
      /\ receivers \in Queue /\ senders \in Queue
  BY MailFacts, MailQueues
<1>1. /\ alive /\ mb.entry # Size /\ mb' = Put(m) /\ alive' = alive /\ pc' = pc
      /\ call' = call /\ done' = NothingDone
  BY DEF HandlerSends
<1>2. Goes(k.cur)
  BY <1>0, <1>1, NobodyGoes
<1>3. mb' = PutIn(mb, m)
  BY <1>1 DEF Put, PutIn
<1>4. mb' \in MailboxState /\ RingOK(mb') /\ mb'.entry = mb.entry + 1
  BY <1>1, <1>3, SameMailbox, PutRing
<1>5. /\ Sound(k') /\ (\A u \in Thread : ThreadInv(u)') /\ RunInv'
      /\ OneLeaves(senders, k.cur)
      /\ \/ (\A u : ~ Linked(k, receivers, u)) /\ NoMoreWait(receivers)
         \/ \E h : OneJoins(receivers, h)
  <2>1. CASE Waiters(receivers) = {}
    <3>1. k' = k
      BY <2>1 DEF HandlerSends
    <3>2. Calm(k, k') /\ CurrentStays /\ \A u \in Thread : k'.err[u] = k.err[u]
      BY <3>1, <1>1, CalmSame DEF CurrentStays
    <3>3. /\ (\A u \in Thread : ThreadInv(u)') /\ RunInv'
          /\ NoneNew(receivers) /\ OneLeaves(senders, k.cur)
      BY <3>2, <1>0, <1>2, QuietStep
    <3> QED
      BY <3>1, <3>3, <2>1, <1>0, WaitersFacts DEF NoneNew
  <2>2. CASE Waiters(receivers) # {}
    <3> DEFINE i == rt_ipc_list_resume(k, receivers)
    <3>1. k' = rt_schedule(i)
      BY <2>2 DEF HandlerSends
    <3>2. PICK h \in Thread : /\ Linked(k, receivers, h) /\ Suspended(k, h)
                              /\ Wakes(k, i, h) /\ i.err[h] = "EOK" /\ i.cur = k.cur /\ Sound(i)
      BY <2>2, <1>0, ListIsResumed
    <3>3. i.lock = 0
      BY <3>2, <1>0 DEF Wakes
    <3> HIDE DEF i
    <3>4. /\ Sound(k') /\ Calm(i, k') /\ k'.err = i.err /\ k'.prio = i.prio
          /\ k'.stat[k'.cur] = "RUNNING"
      BY <3>1, <3>2, <3>3, ScheduleSound, ScheduleFrame, ScheduleRuns
    <3>5. Wakes(k, k', h) /\ k'.err[h] = "EOK"
      BY <3>2, <3>4, WakesThenCalm
    <3>6. CurrentStays
      BY <3>4 DEF CurrentStays
    <3>7. k.cur \notin Woken(receivers) \/ pc'[k.cur] \in Waits
      BY <1>0, <1>1, WokenFacts
    <3>8. /\ (\A u \in Thread : ThreadInv(u)') /\ RunInv'
          /\ OneLeaves(senders, k.cur) /\ OneJoins(receivers, h)
      BY <3>2, <3>5, <3>6, <3>7, <1>0, <1>2, WakeStep
    <3> QED
      BY <3>4, <3>8
  <2> QED
    BY <2>1, <2>2
<1>6. NobodyForgotten'
  BY <1>4, <1>5, ForgottenSend
<1>7. LifeInv'
  BY <1>0, <1>1, LifeSame
<1> QED
  BY <1>1, <1>4, <1>5, <1>6, <1>7, DoneTypes, SameMailbox, MailInvFrom

LEMMA InterruptStep ==
    ASSUME MailInv, Interrupt
    PROVE  MailInv'
<1>0. /\ TypeOK /\ Sound(k) /\ k.cur \in Thread /\ k.lock = 0 /\ pc \in [Thread -> Location]
  BY MailFacts, TypeFacts
<1>1. ASSUME NEW m \in Mail, HandlerSends(m) PROVE MailInv'
  BY <1>1, HandlerStep
<1>2. CASE TimeSlice
  <2>1. /\ k' = TimeSliceEnds(k) /\ mb' = mb /\ alive' = alive /\ pc' = pc /\ call' = call
        /\ done' = NothingDone
    BY <1>2 DEF TimeSlice
  <2>2. /\ Sound(k') /\ Calm(k, k') /\ Dispatches(k, k') /\ k'.err = k.err
    BY <2>1, <1>0, TimeSliceSound, TimeSliceFrame
  <2>3. CurrentStays /\ Goes(k.cur)
    BY <2>1, <2>2, <1>0, NobodyGoes DEF Dispatches, CurrentStays
  <2> QED
    BY <2>1, <2>2, <2>3, <1>0, PlainStepKeeps
<1>3. ASSUME NEW t \in App, ThreadTimer(t) PROVE MailInv'
  <2>1. /\ k' = rt_thread_timeout(k, t) /\ mb' = mb /\ alive' = alive /\ pc' = pc /\ call' = call
        /\ done' = NothingDone /\ t \in k.timer /\ t \in Thread
    BY <1>3 DEF ThreadTimer, App
  <2>2. Sound(k') /\ Wakes(k, k', t) /\ Dispatches(k, k') /\ k'.err[t] = "ETIMEOUT"
    BY <2>1, <1>0, TimeoutSound, TimeoutFrame
  <2>3. CurrentStays /\ Goes(k.cur)
    BY <2>1, <2>2, <1>0, NobodyGoes DEF Dispatches, CurrentStays
  <2>4. Suspended(k, t)
    BY <2>1, <1>0, SoundFacts DEF ThreadOK
  <2>5. \E h \in Thread : /\ Wakes(k, k', h)
                          /\ \/ Suspended(k, h) /\ k'.err[h] # "EOK"
                             \/ k'.err[h] = k.err[h]
    BY <2>1, <2>2, <2>4
  <2> QED
    BY <2>1, <2>2, <2>3, <2>5, <1>0, PlainStepKeeps
<1> QED
  BY <1>1, <1>2, <1>3 DEF Interrupt

-----------------------------------------------------------------------------
(* The invariant *)

LEMMA InitHolds ==
    ASSUME Init
    PROVE  MailInv
<1>1. PICK main \in App : k = KernelStart(main)
  BY DEF Init
<1>2. Sound(k) /\ \A q \in Queue : \A u : ~ Linked(k, q, u)
  BY <1>1, KernelStartSound
<1>3. /\ mb = Empty /\ alive = TRUE /\ pc = [t \in Thread |-> "run"]
      /\ call = [t \in Thread |-> NoCall] /\ done = NothingDone
  BY DEF Init
<1>4. k \in KernelState /\ k.lock = 0 /\ \A t \in Thread : ~ Suspended(k, t)
  BY <1>1, <1>2 DEF Sound, KernelStart, Suspended, SuspendFlag
<1>5. k.cur \in Thread
  BY <1>4 DEF KernelState
<1>6. pc \in [Thread -> Location] /\ \A t \in Thread : pc[t] = "run"
  BY <1>3 DEF Location
<1>7. TypeOK
  <2>1. mb \in MailboxState
    BY <1>3, EmptyRing
  <2>2. call \in [Thread -> CallRecord]
    BY <1>3, NoCallType
  <2>3. done \in DoneRecord
    BY <1>3, DoneTypes
  <2> QED
    BY <2>1, <2>2, <2>3, <1>3, <1>4, <1>6 DEF TypeOK, MailboxState, CallRecord, DoneRecord
<1>8. (\A t \in Thread : ThreadInv(t)) /\ RunInv
  BY <1>4, <1>5, <1>6 DEF ThreadInv, RunInv, Waits
<1>9. NobodyForgotten
  BY <1>2, MailQueues, ForgottenFacts
<1>10. LifeInv
  <2>1. \A u \in Thread : pc[u] \notin Detaching /\ pc[u] \notin {"detach3", "detach4"}
    BY <1>6 DEF Detaching
  <2> QED
    BY <2>1, <1>3, LifeFacts
<1>11. RingInv
  BY <1>3, EmptyRing, RingFacts
<1> QED
  BY <1>2, <1>7, <1>8, <1>9, <1>10, <1>11 DEF MailInv, KernelInv, Sound

LEMMA StepHolds ==
    ASSUME MailInv, [Next]_vars
    PROVE  MailInv'
<1>1. CASE Next
  <2>1. ASSUME NEW t \in App, Transfer(t) \/ Control(t) \/ Others(t) PROVE MailInv'
    BY <2>1, TransferStep, ControlStep, OthersStep
  <2> QED
    BY <1>1, <2>1, InterruptStep DEF Next
<1>2. CASE UNCHANGED vars
  BY <1>2 DEF vars, MailInv, KernelInv, TypeOK, ThreadInv, RunInv, NobodyForgotten, LifeInv,
              DetachedIsEmpty, RingInv, Woken, Waiters
<1> QED
  BY <1>1, <1>2

\* Whatever threads send, receive, reset and detach, and whatever time-outs, signals
\* and mails from interrupt handlers come in between, the state of the mailbox and of
\* the threads that use it is one of those the inductive invariant describes.
THEOREM MailboxInvariant == Spec => []MailInv
<1>1. Init => MailInv
  BY InitHolds
<1>2. MailInv /\ [Next]_vars => MailInv'
  BY StepHolds
<1> QED
  BY <1>1, <1>2, PTL DEF Spec

\* The ready table, its bitmap, the two suspend lists of the mailbox and the states of
\* the threads agree after every operation on the mailbox (ipc.c, scheduler.c).
THEOREM MailboxKernel == Spec => []KernelInv
<1>1. MailInv => KernelInv
  BY DEF MailInv
<1> QED
  BY <1>1, MailboxInvariant, PTL

\* While receivers wait, every mail has a receiver on its way to it, and while senders
\* wait every free slot has a sender on its way, although a woken thread may find that
\* another was faster (the loops of _rt_mb_recv and _rt_mb_send_wait).
THEOREM MailboxNobodyForgotten == Spec => []NobodyForgotten
<1>1. MailInv => NobodyForgotten
  BY DEF MailInv
<1> QED
  BY <1>1, MailboxInvariant, PTL

\* When rt_mb_detach has returned nobody is left on either list, although interrupts
\* are enabled between the test of a list and the resumption of its head.
THEOREM MailboxDetached == Spec => []DetachedIsEmpty
<1>1. MailInv => DetachedIsEmpty
  BY DEF MailInv, LifeInv
<1> QED
  BY <1>1, MailboxInvariant, PTL

-----------------------------------------------------------------------------
(* The mailbox implements a bounded queue, first in first out *)

\* What Contents is, for any mailbox state.
QueueOf(b) == [i \in 1 .. b.entry |-> b.pool[(b.out + i - 1) % Size]]

LEMMA ModIsSlot ==
    ASSUME NEW x \in 0 .. 2 * Size - 1
    PROVE  x % Size = Slot(x)
<1>1. Size \in Nat /\ Size > 0 /\ x \in Int
  BY MailboxAssumption
<1>2. x % Size \in 0 .. Size - 1
  BY <1>1
<1>3. PICK r \in 0 .. Size - 1 : r = x % Size
  BY <1>2
<1>4. CASE x < Size
  BY <1>1, <1>3, <1>4 DEF Slot
<1>5. CASE x >= Size
  <2>1. x - Size \in 0 .. Size - 1
    BY <1>1, <1>5
  <2>2. r = x - Size
    BY <2>1, <1>1, <1>3, SMTT(30)
  <2> QED
    BY <2>2, <1>1, <1>3, <1>5 DEF Slot
<1> QED
  BY <1>1, <1>4, <1>5

\* The i-th mail of the queue is in the i-th place of the ring from out_offset on.
LEMMA QueueFacts ==
    ASSUME NEW b \in MailboxState, RingOK(b)
    PROVE  /\ QueueOf(b) \in Seq(Mail) /\ Len(QueueOf(b)) = b.entry
           /\ \A i \in 1 .. b.entry : QueueOf(b)[i] = b.pool[Slot(b.out + (i - 1))]
<1>1. b.out \in 0 .. Size - 1 /\ b.entry \in 0 .. Size /\ Size \in Nat
  BY MailboxAssumption DEF MailboxState
<1>2. ASSUME NEW i \in 1 .. b.entry
      PROVE  (b.out + i - 1) % Size = Slot(b.out + (i - 1)) /\ i - 1 \in 0 .. b.entry - 1
  <2>1. /\ b.out + i - 1 \in 0 .. 2 * Size - 1 /\ i - 1 \in 0 .. b.entry - 1
        /\ b.out + i - 1 = b.out + (i - 1)
    BY <1>1
  <2> QED
    BY <2>1, ModIsSlot
<1>3. \A i \in 1 .. b.entry : QueueOf(b)[i] = b.pool[Slot(b.out + (i - 1))]
  BY <1>2 DEF QueueOf
<1>4. \A i \in 1 .. b.entry : QueueOf(b)[i] \in Mail
  BY <1>2, <1>3 DEF RingOK
<1>5. b.entry \in Nat /\ DOMAIN QueueOf(b) = 1 .. b.entry
  BY <1>1 DEF QueueOf
<1>6. QueueOf(b) \in [1 .. b.entry -> Mail]
  <2>1. QueueOf(b) = [i \in 1 .. b.entry |-> QueueOf(b)[i]]
    BY DEF QueueOf
  <2> QED
    BY <2>1, <1>4
<1> QED
  BY <1>3, <1>5, <1>6

\* A mail that is stored goes to the end.
LEMMA PutAppends ==
    ASSUME NEW b \in MailboxState, RingOK(b), b.entry # Size, NEW m \in Mail, NEW c,
           c = PutIn(b, m)
    PROVE  QueueOf(c) = Append(QueueOf(b), m) /\ Len(QueueOf(b)) < Size
<1>0. b.entry \in 0 .. Size /\ Size \in Nat
  BY MailboxAssumption DEF MailboxState
<1>1. /\ c \in MailboxState /\ RingOK(c) /\ c.entry = b.entry + 1
      /\ c.out = b.out /\ c.pool[Slot(b.out + b.entry)] = m
      /\ \A i \in 0 .. b.entry - 1 : c.pool[Slot(b.out + i)] = b.pool[Slot(b.out + i)]
  BY PutRing
<1>2. /\ QueueOf(b) \in Seq(Mail) /\ Len(QueueOf(b)) = b.entry
      /\ \A i \in 1 .. b.entry : QueueOf(b)[i] = b.pool[Slot(b.out + (i - 1))]
  BY QueueFacts
<1>3. /\ QueueOf(c) \in Seq(Mail) /\ Len(QueueOf(c)) = b.entry + 1
      /\ \A i \in 1 .. b.entry + 1 : QueueOf(c)[i] = c.pool[Slot(b.out + (i - 1))]
  BY <1>1, QueueFacts
<1>4. PICK n \in Nat : n = b.entry
  BY <1>0
<1>5. ASSUME NEW i \in 1 .. n + 1
      PROVE  QueueOf(c)[i] = Append(QueueOf(b), m)[i]
  <2>1. CASE i = n + 1
    <3>1. i - 1 = n
      BY <2>1
    <3>2. QueueOf(c)[i] = m
      BY <3>1, <1>1, <1>3, <1>4
    <3> QED
      BY <3>2, <2>1, <1>2, <1>4
  <2>2. CASE i # n + 1
    <3>1. i \in 1 .. n /\ i - 1 \in 0 .. n - 1
      BY <2>2
    <3>2. QueueOf(c)[i] = QueueOf(b)[i]
      BY <3>1, <1>1, <1>2, <1>3, <1>4
    <3> QED
      BY <3>1, <3>2, <1>2, <1>4
  <2> QED
    BY <2>1, <2>2
<1>6. Append(QueueOf(b), m) \in Seq(Mail) /\ Len(Append(QueueOf(b), m)) = n + 1
  BY <1>2, <1>4
<1>7. QueueOf(c) = Append(QueueOf(b), m)
  BY <1>3, <1>4, <1>5, <1>6, SeqEqual
<1> QED
  BY <1>0, <1>2, <1>7

\* The mail that is taken was the first.
LEMMA TakeRemoves ==
    ASSUME NEW b \in MailboxState, RingOK(b), b.entry # 0, NEW c, c = TakeOut(b)
    PROVE  /\ QueueOf(b) # <<>> /\ b.pool[b.out] = Head(QueueOf(b))
           /\ QueueOf(c) = Tail(QueueOf(b))
<1>0. b.entry \in 0 .. Size /\ Size \in Nat /\ b.out \in 0 .. Size - 1
  BY MailboxAssumption DEF MailboxState
<1>1. /\ c \in MailboxState /\ RingOK(c) /\ c.entry = b.entry - 1 /\ b.out = Slot(b.out)
      /\ \A i \in 0 .. c.entry - 1 : c.pool[Slot(c.out + i)] = b.pool[Slot(b.out + (i + 1))]
  BY TakeRing
<1>2. /\ QueueOf(b) \in Seq(Mail) /\ Len(QueueOf(b)) = b.entry
      /\ \A i \in 1 .. b.entry : QueueOf(b)[i] = b.pool[Slot(b.out + (i - 1))]
  BY QueueFacts
<1>3. /\ QueueOf(c) \in Seq(Mail) /\ Len(QueueOf(c)) = c.entry
      /\ \A i \in 1 .. c.entry : QueueOf(c)[i] = c.pool[Slot(c.out + (i - 1))]
  BY <1>1, QueueFacts
<1>4. PICK n \in Nat : n = c.entry
  BY <1>0, <1>1
<1>5. b.entry = n + 1 /\ 1 \in 1 .. b.entry /\ b.out + (1 - 1) = b.out
  BY <1>0, <1>1, <1>4
<1>6. QueueOf(b)[1] = b.pool[b.out]
  BY <1>1, <1>2, <1>5
<1>7. QueueOf(b) # <<>> /\ Head(QueueOf(b)) = b.pool[b.out]
  BY <1>2, <1>5, <1>6
<1>8. ASSUME NEW i \in 1 .. n
      PROVE  QueueOf(c)[i] = Tail(QueueOf(b))[i]
  <2>1. i - 1 \in 0 .. n - 1 /\ (i - 1) + 1 = i /\ i + 1 \in 1 .. n + 1 /\ (i + 1) - 1 = i
    OBVIOUS
  <2>2. QueueOf(c)[i] = b.pool[Slot(b.out + i)]
    BY <2>1, <1>1, <1>3, <1>4
  <2>3. QueueOf(b)[i + 1] = b.pool[Slot(b.out + i)]
    BY <2>1, <1>2, <1>5
  <2>4. Tail(QueueOf(b))[i] = QueueOf(b)[i + 1]
    BY <1>2, <1>5, <1>7
  <2> QED
    BY <2>2, <2>3, <2>4
<1>9. Tail(QueueOf(b)) \in Seq(Mail) /\ Len(Tail(QueueOf(b))) = n
  BY <1>2, <1>5, <1>7
<1>10. QueueOf(c) = Tail(QueueOf(b))
  BY <1>3, <1>4, <1>8, <1>9, SeqEqual
<1> QED
  BY <1>7, <1>10

LEMMA EmptyQueue == QueueOf(Empty) = <<>>
<1>1. QueueOf(Empty) \in Seq(Mail) /\ Len(QueueOf(Empty)) = 0
  BY EmptyRing, QueueFacts
<1> QED
  BY <1>1

\* The queue of the abstract specification is the contents of the mailbox.
LEMMA ContentsFacts == Contents = QueueOf(mb) /\ Contents' = QueueOf(mb')
  BY DEF Contents, QueueOf

LEMMA AbstractOther ==
    ASSUME mb' = mb, done' = NothingDone
    PROVE  Abstract!Next
<1>1. Contents' = Contents
  BY ContentsFacts
<1> QED
  BY <1>1 DEF Abstract!Next, Abstract!Other, Abstract!Nothing, Abstract!Result, NothingDone

LEMMA AbstractFail ==
    ASSUME mb' = mb, NEW t \in Thread, NEW e \in {"EINTR", "ETIMEOUT", "ERROR", "EFULL"},
           Ends(t, e)
    PROVE  Abstract!Next
<1>1. Contents' = Contents
  BY ContentsFacts
<1>2. Abstract!Fail(t)
  BY <1>1 DEF Abstract!Fail, Abstract!Failure, Abstract!Result, Ends
<1> QED
  BY <1>2 DEF Abstract!Next

LEMMA AbstractReset ==
    ASSUME mb' = Empty, done' = NothingDone
    PROVE  Abstract!Next
<1>1. Contents' = <<>>
  BY ContentsFacts, EmptyQueue
<1> QED
  BY <1>1 DEF Abstract!Next, Abstract!Reset, Abstract!Nothing, Abstract!Result, NothingDone

\* A mail that a thread or a handler sends.
LEMMA AbstractSend ==
    ASSUME MailInv, mb.entry # Size, NEW m \in Mail, mb' = Put(m),
           done' = NothingDone \/ \E t \in Thread : Ends(t, "EOK")
    PROVE  Abstract!Next
<1>1. mb' = PutIn(mb, m)
  BY DEF Put, PutIn
<1>2. QueueOf(mb') = Append(QueueOf(mb), m) /\ Len(QueueOf(mb)) < Size
  BY <1>1, SameMailbox, PutAppends
<1>3. Contents' = Append(Contents, m) /\ Len(Contents) < Size
  BY <1>2, ContentsFacts
<1>4. CASE done' = NothingDone
  <2>1. Abstract!Post
    BY <1>3, <1>4 DEF Abstract!Post, Abstract!Nothing, Abstract!Result, NothingDone
  <2> QED
    BY <2>1 DEF Abstract!Next
<1>5. ASSUME NEW t \in Thread, Ends(t, "EOK") PROVE Abstract!Next
  <2>1. Abstract!Send(t)
    BY <1>3, <1>5 DEF Abstract!Send, Abstract!Result, Ends
  <2> QED
    BY <2>1 DEF Abstract!Next
<1> QED
  BY <1>4, <1>5

LEMMA AbstractReceive ==
    ASSUME MailInv, NEW t \in Thread, ReceiveTakes(t)
    PROVE  Abstract!Next
<1>1. /\ mb.entry # 0 /\ mb' = TakeOut(mb) /\ done' = [by |-> t, result |-> mb.pool[mb.out]]
  BY DEF ReceiveTakes, TakeOut, Ends
<1>2. /\ QueueOf(mb) # <<>> /\ mb.pool[mb.out] = Head(QueueOf(mb))
      /\ QueueOf(mb') = Tail(QueueOf(mb))
  BY <1>1, SameMailbox, TakeRemoves
<1>3. Contents # <<>> /\ mb.pool[mb.out] = Head(Contents) /\ Contents' = Tail(Contents)
  BY <1>2, ContentsFacts
<1>4. Abstract!Receive(t)
  BY <1>1, <1>3 DEF Abstract!Receive, Abstract!Result
<1> QED
  BY <1>4 DEF Abstract!Next

\* Every step of a send, a receive, a reset and a detach.
LEMMA TransferImplements ==
    ASSUME MailInv, NEW t \in App, Transfer(t)
    PROVE  Abstract!Next
<1>0. t \in Thread /\ TypeOK /\ k \in KernelState
  BY MailFacts DEF App
<1>1. ASSUME NEW m \in Mail, NEW time, NEW flag,
             SendStores(t, m) \/ SendFull(t, time) \/ SendWaits(t, m, time, flag)
      PROVE  Abstract!Next
  <2>1. CASE SendStores(t, m)
    BY <2>1, <1>0, AbstractSend DEF SendStores
  <2>2. CASE SendFull(t, time)
    BY <2>2, <1>0, AbstractFail DEF SendFull
  <2>3. CASE Blocks(t, senders, time, flag, m)
    BY <2>3, AbstractOther DEF Blocks
  <2>4. CASE Interrupted(t, time, flag)
    BY <2>4, <1>0, AbstractFail DEF Interrupted
  <2> QED
    BY <1>1, <2>1, <2>2, <2>3, <2>4 DEF SendWaits
<1>2. ASSUME NEW time, NEW flag,
             ReceiveTakes(t) \/ ReceiveEmpty(t, time) \/ ReceiveWaits(t, time, flag)
      PROVE  Abstract!Next
  <2>1. CASE ReceiveTakes(t)
    BY <2>1, <1>0, AbstractReceive
  <2>2. CASE ReceiveEmpty(t, time)
    BY <2>2, <1>0, AbstractFail DEF ReceiveEmpty
  <2>3. CASE Blocks(t, receivers, time, flag, NoMail)
    BY <2>3, AbstractOther DEF Blocks
  <2>4. CASE Interrupted(t, time, flag)
    BY <2>4, <1>0, AbstractFail DEF Interrupted
  <2> QED
    BY <1>2, <2>1, <2>2, <2>3, <2>4 DEF ReceiveWaits
<1>3. CASE \E m \in Mail, time \in Time, flag \in Flag : SendBegins(t, m, time, flag)
  BY <1>1, <1>3 DEF SendBegins
<1>4. CASE \E time \in Time, flag \in Flag : ReceiveBegins(t, time, flag)
  BY <1>2, <1>4 DEF ReceiveBegins
<1>5. CASE SendAgain(t)
  <2>1. call[t].mail \in Mail
    BY <1>0, <1>5, MailFacts DEF SendAgain, TriesAgain, ThreadInv, At, Waits
  <2> QED
    BY <2>1, <1>1, <1>5 DEF SendAgain
<1>6. CASE ReceiveAgain(t)
  BY <1>2, <1>6 DEF ReceiveAgain
<1>7. CASE BlockedSchedules(t) \/ Reschedule(t)
  BY <1>7, AbstractOther DEF BlockedSchedules, Reschedule
<1>8. CASE BlockedFails(t)
  <2>1. k.err[t] \in {"EINTR", "ETIMEOUT", "ERROR", "EFULL"}
    BY <1>0, <1>8 DEF BlockedFails, KernelState, Error
  <2> QED
    BY <2>1, <1>0, <1>8, AbstractFail DEF BlockedFails
<1> QED
  BY <1>3, <1>4, <1>5, <1>6, <1>7, <1>8 DEF Transfer

LEMMA ControlImplements ==
    ASSUME NEW t \in App, Control(t)
    PROVE  Abstract!Next
<1>1. CASE \/ ResetBegins(t) \/ ResetResumes(t) \/ DetachBegins(t) \/ DetachTests(t)
           \/ DetachResumes(t, receivers) \/ DetachResumes(t, senders)
  BY <1>1, AbstractOther
     DEF ResetBegins, ResetResumes, DetachBegins, DetachTests, DetachResumes
<1>2. CASE ResetEnds(t) \/ Reinit(t)
  BY <1>2, AbstractReset DEF ResetEnds, Reinit
<1> QED
  BY <1>1, <1>2 DEF Control

LEMMA OthersImplement ==
    ASSUME MailInv, (\E t \in App : Others(t)) \/ Interrupt
    PROVE  Abstract!Next
<1>1. CASE \E t \in App : Others(t)
  BY <1>1, AbstractOther DEF Others, Startup, Kill, Deliver
<1>2. ASSUME NEW m \in Mail, HandlerSends(m) PROVE Abstract!Next
  BY <1>2, AbstractSend DEF HandlerSends
<1>3. CASE TimeSlice \/ \E t \in App : ThreadTimer(t)
  BY <1>3, AbstractOther DEF TimeSlice, ThreadTimer
<1> QED
  BY <1>1, <1>2, <1>3 DEF Interrupt

\* The initial states map to initial states.
LEMMA InitImplements == Init => Abstract!Init
<1> SUFFICES ASSUME Init PROVE Abstract!Init
  OBVIOUS
<1>1. Contents = <<>>
  BY ContentsFacts, EmptyQueue DEF Init
<1> QED
  BY <1>1 DEF Init, NothingDone, Abstract!Init, Abstract!Nothing, Abstract!Result

\* Every step maps to a step or a stutter.
LEMMA StepImplements == MailInv /\ [Next]_vars => [Abstract!Next]_Abstract!vars
<1> SUFFICES ASSUME MailInv, [Next]_vars PROVE [Abstract!Next]_Abstract!vars
  OBVIOUS
<1>1. CASE UNCHANGED vars
  BY <1>1, ContentsFacts DEF vars, Abstract!vars
<1>2. CASE Next
  BY <1>2, TransferImplements, ControlImplements, OthersImplement DEF Next
<1> QED
  BY <1>1, <1>2

\* The mailbox implements a bounded queue: mails arrive once and in the order in which
\* _rt_mb_send_wait or a handler stored them, a call that fails has neither sent nor
\* taken one, and only RT_IPC_CMD_RESET and a new initialisation drop any, for every
\* number of threads, every size and every interleaving with timeouts and signals.
THEOREM MailboxImplements == Spec => ImplementsAbstract
<1>1. MailInv /\ [Next]_vars => [Abstract!Next]_Abstract!vars
  BY StepImplements
<1> QED
  BY <1>1, InitImplements, MailboxInvariant, PTL DEF Spec, ImplementsAbstract, Abstract!Spec

=============================================================================
