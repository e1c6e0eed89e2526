---------------------------- MODULE ThreadsProofs ----------------------------
(***************************************************************************)
(* The invariants of the life of threads, for every number of threads and  *)
(* every assignment of priorities.                                         *)
(*                                                                         *)
(* Deleting, detaching and resuming a thread take several stretches, so    *)
(* KernelOK does not hold throughout: a thread that is being closed is out *)
(* of the ready table before its state changes, and the defunct list holds *)
(* threads that are closed.  The invariant is stated for a kernel state s, *)
(* the threads E that exist, the places P and the targets G of the         *)
(* threads, so that it can be carried through the functions that a step    *)
(* calls one after the other.  A thread that is asleep may be worked on;   *)
(* the invariant lasts until its thread_timer fires in the middle of that  *)
(* (late).                                                                 *)
(***************************************************************************)
EXTENDS Threads, KernelProofs

-----------------------------------------------------------------------------
(* The inductive invariant *)

\* The places of a thread that works on another one, or on itself.
Acting == {"resume2", "resume3", "remove", "untimer", "close", "enqueue", "cleanup", "free"}

\* Nobody works on u.
Alone(G, u) == \A v \in Thread : G[v] # u

\* Another thread has taken u out of the ready table to close it.
Hidden(P, G, u) == \E t \in Thread \ {u} : G[t] = u /\ P[t] \in {"untimer", "close"}

\* Whoever works on u has not come to stop its thread_timer.
TimerLeft(P, G, u) == \A t \in Thread : G[t] = u => P[t] \in {"resume2", "remove", "untimer"}

LinkOK(s, E, P, G, u) ==
    /\ \A p \in Prio :
           Linked(s, p, u) <=> (s.stat[u] = "READY" /\ s.prio[u] = p /\ ~ Hidden(P, G, u))
    /\ \A q \in Queue : Linked(s, q, u) =>
           q = defunct /\ s.stat[u] = "CLOSE" /\ u \in E /\ Alone(G, u)
    /\ s.stat[u] = "RUNNING" => u = s.cur
    /\ u = s.cur => s.stat[u] # "READY"
    /\ u = Idle => s.stat[u] \in Active
    /\ u \in s.timer => Suspended(s, u) /\ TimerLeft(P, G, u)

\* t has the processor for itself.
Keeps(s, t) == s.cur = t /\ s.lock > 0

\* t, which is at l, works on u: nobody else does, u is no worker itself and does not
\* run, and t, if it is not t itself that is to be closed, is ready or runs.  A thread
\* that is about to be taken out of the ready table cannot run before t.
WorkOn(s, E, G, t, l, u) ==
    /\ u \in E
    /\ \A v \in Thread \ {t} : G[v] # u
    /\ u # t => G[u] = Idle /\ s.stat[t] \in Active /\ u # s.cur
    /\ u = t => Keeps(s, t) \/ (t \notin Static /\ s.stat[t] \in Active)
    /\ l \in {"resume2", "resume3"} => u # t /\ Suspended(s, u)
    /\ l \in {"remove", "untimer", "close"} =>
           s.stat[u] # "CLOSE" /\ (u = t => s.stat[t] \in Active)
    /\ l = "remove" => /\ s.stat[u] # "INIT"
                       /\ u # t => Keeps(s, t) \/ s.prio[t] < s.prio[u]
    /\ l = "enqueue" => u \in Static /\ (u = t => Keeps(s, t))
    /\ l \in {"cleanup", "free"} => u # t
    /\ l \in {"enqueue", "cleanup", "free"} =>
           s.stat[u] = "CLOSE" /\ \A q \in Queue : ~ Linked(s, q, u)

WorkOK(s, E, P, G, t) ==
    /\ P[t] \in Acting <=> G[t] # Idle
    /\ P[t] \in {"cleanup", "free"} => t = Idle
    /\ t = Idle => P[t] \in {"run", "cleanup", "free"}
    /\ P[t] \in Acting => WorkOn(s, E, G, t, P[t], G[t])

\* A thread that does not exist is closed; it runs only if it has detached itself.
FreedOK(s, E) ==
    /\ Idle \in E
    /\ \A u \in Thread \ E : s.stat[u] = "CLOSE" /\ (s.cur = u => u \in Static)

\* A closed thread that exists is on the defunct list or in somebody's hands.
ReapOK(s, E, P, G) ==
    \A u \in E : s.stat[u] = "CLOSE" =>
        \/ Linked(s, defunct, u)
        \/ \E t \in Thread : G[t] = u /\ P[t] \in {"enqueue", "cleanup", "free"}

\* Nobody changes a priority, and there are no signals.
FixedOK(s) == s.prio = InitPrio /\ \A t \in Thread : s.sig[t] = {}

\* All that rt_schedule does not depend on.
Fit(s, E, P, G) ==
    /\ s \in KernelState /\ NodesLinkedOnce(s) /\ GroupOK(s)
    /\ E \subseteq Thread /\ P \in [Thread -> Location] /\ G \in [Thread -> Thread]
    /\ \A u \in Thread : LinkOK(s, E, P, G, u)
    /\ \A t \in Thread : WorkOK(s, E, P, G, t)
    /\ FreedOK(s, E) /\ ReapOK(s, E, P, G) /\ FixedOK(s)

\* The current thread runs, or it has suspended or closed itself and comes to its call
\* of rt_schedule without a lock, or it is on its way to release the lock.
CurOK(s, P) ==
    /\ \/ s.stat[s.cur] = "RUNNING"
       \/ Suspended(s, s.cur) /\ P[s.cur] \in {"sleeping", "resched"} /\ s.lock = 0
       \/ s.stat[s.cur] = "CLOSE" /\ P[s.cur] = "resched" /\ s.lock = 0
       \/ s.stat[s.cur] = "CLOSE" /\ P[s.cur] \in {"dead", "enqueue"} /\ s.lock > 0
    /\ P[s.cur] = "sleeping" => s.lock = 0

\* No ready thread is more urgent than the one that runs.
Urgent(s) == \A p \in Prio : \A u \in Thread : Linked(s, p, u) => s.prio[s.cur] <= p

PreemptOK(s, P) ==
    s.lock = 0 /\ s.stat[s.cur] = "RUNNING" /\ P[s.cur] # "resched" => Urgent(s)

LifeInv ==
    /\ k.lock \in 0 .. NestMax
    /\ Fit(k, exists, pc, target) /\ CurOK(k, pc) /\ PreemptOK(k, pc)

\* It lasts until a thread_timer fires in the middle of a resume or a delete.
UntilLate == late \in BOOLEAN /\ (~ late => LifeInv)

-----------------------------------------------------------------------------
(* What rt_schedule does, link by link *)

Loose(s) ==
    /\ s \in KernelState /\ NodesLinkedOnce(s) /\ GroupOK(s)
    /\ \A p \in Prio : \A u \in Thread : Linked(s, p, u) => s.prio[u] = p /\ s.stat[u] = "READY"
    /\ s.stat[s.cur] # "READY"
    /\ s.stat[s.cur] = "RUNNING" => \A q \in Queue : ~ Linked(s, q, s.cur)

\* The switch from the current thread to r.cur.
Switched(s, r) ==
    /\ r.cur \in Thread /\ r.cur # s.cur
    /\ s.stat[r.cur] = "READY" /\ Linked(s, s.prio[r.cur], r.cur)
    /\ r.stat[r.cur] = "RUNNING"
    /\ \A u \in Thread \ {r.cur, s.cur} : r.stat[u] = s.stat[u]
    /\ r.stat[s.cur] = IF s.stat[s.cur] = "RUNNING" THEN "READY" ELSE s.stat[s.cur]
    /\ \A l \in Prio \cup Queue : \A u \in Thread :
           Linked(r, l, u) <=> \/ Linked(s, l, u) /\ u # r.cur
                               \/ u = s.cur /\ s.stat[u] = "RUNNING" /\ l = s.prio[u]

\* Nothing happens to threads and lists.
Alike(s, r) ==
    /\ r.cur = s.cur /\ r.stat = s.stat
    /\ \A l \in Prio \cup Queue : \A u \in Thread : Linked(r, l, u) <=> Linked(s, l, u)

Regular(s, r) ==
    /\ r \in KernelState /\ NodesLinkedOnce(r) /\ GroupOK(r)
    /\ r.prio = s.prio /\ r.sig = s.sig

LEMMA SwitchEffect ==
    ASSUME NEW s, Loose(s), NEW to \in Thread, to # s.cur, Linked(s, s.prio[to], to),
           NEW r, r = SwitchTo(s, to)
    PROVE  /\ Regular(s, r) /\ r.lock = s.lock /\ r.timer = s.timer
           /\ Switched(s, r) /\ r.cur = to
<1>1. /\ s \in KernelState /\ NodesLinkedOnce(s) /\ GroupOK(s) /\ s.cur \in Thread
      /\ s.prio \in [Thread -> Prio]
  BY DEF Loose, KernelState
<1>2. PICK from \in Thread : from = s.cur
  BY <1>1
<1>3. from # to /\ s.stat[to] = "READY" /\ s.prio[from] \in Prio /\ s.prio[to] \in Prio
  BY <1>1, <1>2 DEF Loose
<1>4. PICK a : a = [s EXCEPT !.cur = to]
  OBVIOUS
<1>5. /\ a \in KernelState /\ a.cur = to
      /\ a.list = s.list /\ a.group = s.group /\ a.stat = s.stat /\ a.prio = s.prio
      /\ a.timer = s.timer /\ a.sig = s.sig /\ a.lock = s.lock
  BY <1>1, <1>4 DEF KernelState
<1>6. \A l, u : Linked(a, l, u) <=> Linked(s, l, u)
  BY <1>5 DEF Linked
<1>7. NodesLinkedOnce(a) /\ GroupOK(a)
  BY <1>1, <1>5, <1>6 DEF NodesLinkedOnce, GroupOK
<1>8. PICK f : f = IF s.stat[from] = "RUNNING" THEN rt_schedule_insert_thread(a, from) ELSE a
  OBVIOUS
<1>9. /\ f \in KernelState /\ NodesLinkedOnce(f) /\ GroupOK(f)
      /\ f.cur = to /\ f.prio = s.prio /\ f.timer = s.timer /\ f.sig = s.sig /\ f.lock = s.lock
      /\ \A u \in Thread \ {from} : f.stat[u] = s.stat[u]
      /\ f.stat[from] = IF s.stat[from] = "RUNNING" THEN "READY" ELSE s.stat[from]
      /\ \A l \in Prio \cup Queue : \A u :
             Linked(f, l, u) <=> \/ Linked(s, l, u)
                                 \/ u = from /\ s.stat[from] = "RUNNING" /\ l = s.prio[from]
  <2>1. CASE s.stat[from] = "RUNNING"
    <3>1. \A l \in Prio \cup Queue : ~ Linked(s, l, from)
      BY <2>1, <1>2 DEF Loose
    <3>2. f = rt_schedule_insert_thread(a, from)
      BY <2>1, <1>8
    <3>3. /\ f \in KernelState /\ NodesLinkedOnce(f) /\ GroupOK(f)
          /\ \A l \in Prio \cup Queue : \A u :
                Linked(f, l, u) <=> Linked(a, l, u) \/ (l = a.prio[from] /\ u = from)
          /\ SameBut(a, f, from) /\ f.stat[from] = "READY"
      BY <3>1, <3>2, <1>3, <1>5, <1>6, <1>7, InsertLinks
    <3> QED
      BY <3>3, <2>1, <1>5, <1>6 DEF SameBut
  <2>2. CASE s.stat[from] # "RUNNING"
    <3>1. f = a
      BY <2>2, <1>8
    <3> QED
      BY <3>1, <2>2, <1>5, <1>6, <1>7
  <2> QED
    BY <2>1, <2>2
<1>10. PICK g : g = rt_schedule_remove_thread(f, to)
  OBVIOUS
<1>11. /\ g \in KernelState /\ NodesLinkedOnce(g) /\ GroupOK(g)
       /\ \A l \in Prio \cup Queue : \A u : Linked(g, l, u) <=> Linked(f, l, u) /\ u # to
       /\ SameBut(f, g, to) /\ g.stat = f.stat
  <2>1. \A p \in Prio : Linked(f, p, to) => p = f.prio[to]
    BY <1>3, <1>9 DEF Loose
  <2> QED
    BY <2>1, <1>9, <1>10, RemoveLinks
<1>12. PICK z : z = [g EXCEPT !.stat[to] = "RUNNING"]
  OBVIOUS
<1>13. /\ z \in KernelState /\ SameBut(g, z, to) /\ z.stat[to] = "RUNNING"
       /\ \A l, u : Linked(z, l, u) <=> Linked(g, l, u)
       /\ GroupOK(z) /\ NodesLinkedOnce(z)
  BY <1>11, <1>12, SetStat DEF Stat
<1>14. z = r
  BY <1>2, <1>4, <1>8, <1>10, <1>12 DEF SwitchTo
<1>15. /\ r.cur = to /\ r.prio = s.prio /\ r.timer = s.timer /\ r.sig = s.sig /\ r.lock = s.lock
       /\ r.stat[to] = "RUNNING"
       /\ \A u \in Thread \ {to, from} : r.stat[u] = s.stat[u]
       /\ r.stat[from] = IF s.stat[from] = "RUNNING" THEN "READY" ELSE s.stat[from]
  BY <1>3, <1>9, <1>11, <1>13, <1>14 DEF SameBut
<1>16. \A l \in Prio \cup Queue : \A u \in Thread :
           Linked(r, l, u) <=> \/ Linked(s, l, u) /\ u # to
                               \/ u = from /\ s.stat[from] = "RUNNING" /\ l = s.prio[from]
  BY <1>3, <1>9, <1>11, <1>13, <1>14
<1>17. Switched(s, r)
  BY <1>2, <1>3, <1>15, <1>16 DEF Switched
<1> QED
  BY <1>13, <1>14, <1>15, <1>17 DEF Regular

\* After a call of rt_schedule without a lock a thread runs, and no ready one is more
\* urgent.
Scheduled(s, r) ==
    /\ Regular(s, r) /\ r.lock = s.lock /\ r.timer = s.timer
    /\ Alike(s, r) \/ Switched(s, r)
    /\ s.lock # 0 => Alike(s, r)
    /\ s.lock = 0 => r.stat[r.cur] = "RUNNING" /\ Urgent(r)

LEMMA ScheduleEffect ==
    ASSUME NEW s, Loose(s),
           s.stat[s.cur] = "RUNNING" \/ \E p \in Prio : \E u \in Thread : Linked(s, p, u),
           NEW r, r = rt_schedule(s)
    PROVE  Scheduled(s, r)
<1>1. /\ s \in KernelState /\ NodesLinkedOnce(s) /\ GroupOK(s) /\ s.cur \in Thread
      /\ s.prio \in [Thread -> Prio] /\ s.group \in SUBSET Prio
  BY DEF Loose, KernelState
<1>2. CASE s.lock # 0
  <2>1. r = s
    BY <1>2 DEF rt_schedule
  <2> QED
    BY <2>1, <1>1, <1>2 DEF Scheduled, Regular, Alike
<1>3. CASE s.lock = 0 /\ s.group = {}
  <2>1. r = s
    BY <1>3 DEF rt_schedule
  <2>2. \A p \in Prio : \A u \in Thread : ~ Linked(s, p, u)
    BY <1>1, <1>3 DEF GroupOK
  <2> QED
    BY <2>1, <2>2, <1>1, <1>3 DEF Scheduled, Regular, Alike, Urgent
<1>4. CASE s.lock = 0 /\ s.group # {}
  <2>1. PICK highest : highest = HighestReadyPriority(s)
    OBVIOUS
  <2>2. highest \in s.group /\ highest \in Prio /\ \A p \in s.group : highest <= p
    BY <2>1, <1>1, <1>4, MostUrgentExists DEF HighestReadyPriority
  <2>3. PICK first : first = Head(s.list[highest])
    OBVIOUS
  <2>4. first \in Thread /\ Linked(s, highest, first)
    <3>1. \E u \in Thread : Linked(s, highest, u)
      BY <2>2, <1>1 DEF GroupOK
    <3>2. s.list[highest] \in Seq(Thread) /\ s.list[highest] # <<>>
      BY <3>1, <2>2, <1>1, ListTypes
    <3> QED
      BY <3>2, <2>3, HeadInList DEF Linked
  <2>5. s.prio[first] = highest /\ s.stat[first] = "READY" /\ first # s.cur
    BY <2>2, <2>4 DEF Loose
  <2>6. \A p \in Prio : \A u \in Thread : Linked(s, p, u) => highest <= p
    BY <2>2, <1>1 DEF GroupOK
  <2>7. PICK y : y = IF s.stat[s.cur] = "RUNNING" THEN [s EXCEPT !.yield = @ \ {s.cur}] ELSE s
    OBVIOUS
  <2>8. /\ y \in KernelState /\ y.list = s.list /\ y.group = s.group /\ y.stat = s.stat
        /\ y.cur = s.cur /\ y.prio = s.prio /\ y.timer = s.timer /\ y.sig = s.sig
        /\ y.lock = s.lock
    BY <2>7, <1>1 DEF KernelState
  <2>9. \A l, u : Linked(y, l, u) <=> Linked(s, l, u)
    BY <2>8 DEF Linked
  <2>10. NodesLinkedOnce(y) /\ GroupOK(y)
    BY <2>8, <2>9, <1>1 DEF NodesLinkedOnce, GroupOK
  <2>11. CASE ~ KeepsCurrent(s, highest)
    <3>1. r = SwitchTo(y, first)
      BY <2>1, <2>3, <2>5, <2>7, <2>11, <1>4 DEF rt_schedule
    <3>2. Loose(y)
      BY <2>8, <2>9, <2>10 DEF Loose
    <3>3. Regular(y, r) /\ r.lock = y.lock /\ r.timer = y.timer /\ Switched(y, r) /\ r.cur = first
      BY <3>1, <3>2, <2>4, <2>5, <2>8, <2>9, SwitchEffect
    <3>4. Switched(s, r)
      BY <3>3, <2>8, <2>9 DEF Switched
    <3>5. Regular(s, r)
      BY <3>3, <2>8 DEF Regular
    <3>6. Urgent(r)
      <4>1. SUFFICES ASSUME NEW p \in Prio, NEW u \in Thread, Linked(r, p, u)
                     PROVE  r.prio[r.cur] <= p
        BY DEF Urgent
      <4>2. r.prio[r.cur] = highest
        BY <3>3, <3>5, <2>5 DEF Regular
      <4>3. CASE Linked(s, p, u)
        BY <4>2, <4>3, <2>6
      <4>4. CASE ~ Linked(s, p, u)
        <5>1. u = s.cur /\ s.stat[u] = "RUNNING" /\ p = s.prio[u]
          BY <4>1, <4>4, <3>4 DEF Switched
        <5>2. ~ (p < highest) /\ p \in Nat /\ highest \in Nat
          BY <5>1, <2>2, <2>11, KernelAssumption DEF KeepsCurrent
        <5> QED
          BY <5>2, <4>2
      <4> QED
        BY <4>3, <4>4
    <3>7. r.stat[r.cur] = "RUNNING"
      BY <3>4 DEF Switched
    <3> QED
      BY <3>3, <3>4, <3>5, <3>6, <3>7, <2>8, <1>4 DEF Scheduled
  <2>12. CASE KeepsCurrent(s, highest)
    <3>1. s.stat[s.cur] = "RUNNING" /\ s.prio[s.cur] \in Nat /\ highest \in Nat
      BY <2>2, <2>12, <1>1, KernelAssumption DEF KeepsCurrent
    <3>2. s.prio[s.cur] <= highest
      BY <3>1, <2>12 DEF KeepsCurrent
    <3>3. PICK g : g = rt_schedule_remove_thread(y, s.cur)
      OBVIOUS
    <3>4. PICK z : z = [g EXCEPT !.stat[s.cur] = "RUNNING"]
      OBVIOUS
    <3>5. r = z
      BY <3>3, <3>4, <2>1, <2>7, <2>12, <1>4 DEF rt_schedule
    <3>6. \A l \in Prio \cup Queue : ~ Linked(y, l, s.cur)
      BY <3>1, <2>9, <1>1 DEF Loose
    <3>7. /\ g \in KernelState /\ NodesLinkedOnce(g) /\ GroupOK(g)
          /\ \A l \in Prio \cup Queue : \A u : Linked(g, l, u) <=> Linked(y, l, u) /\ u # s.cur
          /\ SameBut(y, g, s.cur) /\ g.stat = y.stat
      BY <3>3, <3>6, <2>8, <2>10, <1>1, RemoveLinks
    <3>8. /\ z \in KernelState /\ SameBut(g, z, s.cur) /\ z.stat[s.cur] = "RUNNING"
          /\ \A l, u : Linked(z, l, u) <=> Linked(g, l, u)
          /\ GroupOK(z) /\ NodesLinkedOnce(z)
      <4>1. "RUNNING" \in Stat
        BY DEF Stat
      <4>2. g \in KernelState /\ GroupOK(g) /\ NodesLinkedOnce(g) /\ s.cur \in Thread
        BY <3>7, <1>1
      <4> QED
        BY <4>1, <4>2, <3>4, SetStat
    <3>9. \A l \in Prio \cup Queue : \A u : Linked(z, l, u) <=> Linked(s, l, u)
      BY <3>6, <3>7, <3>8, <2>9
    <3>10. /\ z.cur = s.cur /\ z.prio = s.prio /\ z.sig = s.sig /\ z.timer = s.timer
           /\ z.lock = s.lock
      BY <3>7, <3>8, <2>8 DEF SameBut
    <3>11. z.stat = s.stat
      <4>1. \A u \in Thread : z.stat[u] = s.stat[u]
        BY <3>1, <3>7, <3>8, <2>8 DEF SameBut
      <4>2. z.stat \in [Thread -> Stat] /\ s.stat \in [Thread -> Stat]
        BY <3>8, <1>1 DEF KernelState
      <4> QED
        BY <4>1, <4>2
    <3>12. Urgent(z)
      <4>1. SUFFICES ASSUME NEW p \in Prio, NEW u \in Thread, Linked(z, p, u)
                     PROVE  z.prio[z.cur] <= p
        BY DEF Urgent
      <4>2. highest <= p /\ p \in Nat
        BY <4>1, <3>9, <2>6, KernelAssumption
      <4>3. z.prio[z.cur] = s.prio[s.cur]
        BY <3>10
      <4> QED
        BY <4>2, <4>3, <3>1, <3>2
    <3> QED
      BY <3>1, <3>5, <3>8, <3>9, <3>10, <3>11, <3>12, <1>4 DEF Scheduled, Regular, Alike
  <2> QED
    BY <2>11, <2>12
<1> QED
  BY <1>2, <1>3, <1>4

-----------------------------------------------------------------------------
(* The invariant and rt_schedule *)

\* Nobody works on a thread that is at work, nor on the one that runs.
LEMMA WorkerIsAlone ==
    ASSUME NEW s, NEW E, NEW P, NEW G, Fit(s, E, P, G), NEW t \in Thread,
           P[t] \in Acting \/ t = s.cur \/ t = Idle
    PROVE  /\ \A v \in Thread \ {t} : G[v] = t => v # t /\ t = Idle /\ P[v] \notin Acting
           /\ ~ Hidden(P, G, t)
<1>1. /\ s.cur \in Thread /\ \A v \in Thread : WorkOK(s, E, P, G, v)
      /\ G \in [Thread -> Thread]
  BY DEF Fit, KernelState
<1>2. ASSUME NEW v \in Thread \ {t}, G[v] = t
      PROVE  v # t /\ t = Idle /\ P[v] \notin Acting
  <2>1. WorkOK(s, E, P, G, v) /\ WorkOK(s, E, P, G, t)
    BY <1>1
  <2>2. CASE P[v] \in Acting
    <3>1. G[t] = Idle /\ t # s.cur /\ t # Idle
      BY <2>1, <2>2, <1>2 DEF WorkOK, WorkOn
    <3> QED
      BY <3>1, <2>1, <1>1 DEF WorkOK
  <2>3. CASE P[v] \notin Acting
    BY <2>1, <2>3, <1>2 DEF WorkOK
  <2> QED
    BY <2>2, <2>3
<1>3. ~ Hidden(P, G, t)
  BY <1>2 DEF Hidden, Acting
<1> QED
  BY <1>2, <1>3

LEMMA FitIsLoose ==
    ASSUME NEW s, NEW E, NEW P, NEW G, Fit(s, E, P, G)
    PROVE  /\ Loose(s)
           /\ s.stat[s.cur] = "RUNNING" \/ \E p \in Prio : \E u \in Thread : Linked(s, p, u)
<1>1. /\ s.cur \in Thread /\ Idle \in Thread /\ s.prio[Idle] \in Prio
      /\ \A u \in Thread : LinkOK(s, E, P, G, u)
  BY KernelAssumption DEF Fit, KernelState
<1>2. \A p \in Prio : \A u \in Thread : Linked(s, p, u) => s.prio[u] = p /\ s.stat[u] = "READY"
  BY <1>1 DEF LinkOK
<1>3. s.stat[s.cur] # "READY"
  BY <1>1 DEF LinkOK
<1>4. s.stat[s.cur] = "RUNNING" => \A q \in Queue : ~ Linked(s, q, s.cur)
  BY <1>1 DEF LinkOK
<1>5. Loose(s)
  BY <1>2, <1>3, <1>4 DEF Loose, Fit
<1>6. ~ Hidden(P, G, Idle)
  BY <1>1, WorkerIsAlone
<1>7. LinkOK(s, E, P, G, Idle)
  BY <1>1
<1>8. s.stat[Idle] = "RUNNING" => s.stat[s.cur] = "RUNNING"
  BY <1>7 DEF LinkOK
<1>9. s.stat[Idle] = "READY" => Linked(s, s.prio[Idle], Idle)
  BY <1>1, <1>6, <1>7 DEF LinkOK
<1>10. s.stat[Idle] \in Active
  BY <1>7 DEF LinkOK
<1> QED
  BY <1>1, <1>5, <1>8, <1>9, <1>10 DEF Active

\* A change that threads and lists do not notice: a flag or an error code, the scheduler
\* lock while the current thread works on nobody, a timer that is stopped.
LEMMA AlikeKeeps ==
    ASSUME NEW s, NEW E, NEW P, NEW G, Fit(s, E, P, G),
           NEW r, Regular(s, r), Alike(s, r), r.timer \subseteq s.timer,
           r.lock = s.lock \/ P[s.cur] \notin Acting
    PROVE  Fit(r, E, P, G)
<1>1. /\ r \in KernelState /\ NodesLinkedOnce(r) /\ GroupOK(r)
      /\ r.prio = s.prio /\ r.sig = s.sig /\ r.cur = s.cur /\ r.stat = s.stat
      /\ \A l \in Prio \cup Queue : \A u \in Thread : Linked(r, l, u) <=> Linked(s, l, u)
  BY DEF Regular, Alike
<1>2. /\ E \subseteq Thread /\ P \in [Thread -> Location] /\ G \in [Thread -> Thread]
      /\ \A u \in Thread : LinkOK(s, E, P, G, u)
      /\ \A t \in Thread : WorkOK(s, E, P, G, t)
      /\ FreedOK(s, E) /\ ReapOK(s, E, P, G) /\ FixedOK(s)
  BY DEF Fit
<1>3. ASSUME NEW u \in Thread
      PROVE  LinkOK(r, E, P, G, u)
  <2>1. LinkOK(s, E, P, G, u)
    BY <1>2
  <2> QED
    BY <2>1, <1>1 DEF LinkOK, Suspended
<1>4. ASSUME NEW t \in Thread
      PROVE  WorkOK(r, E, P, G, t)
  <2>1. WorkOK(s, E, P, G, t)
    BY <1>2
  <2>2. ASSUME P[t] \in Acting
        PROVE  WorkOn(r, E, G, t, P[t], G[t])
    <3>1. WorkOn(s, E, G, t, P[t], G[t]) /\ G[t] \in Thread
      BY <2>1, <2>2, <1>2 DEF WorkOK
    <3>2. Keeps(r, t) <=> Keeps(s, t)
      BY <2>2, <1>1 DEF Keeps
    <3> QED
      BY <3>1, <3>2, <1>1 DEF WorkOn, Suspended
  <2> QED
    BY <2>1, <2>2 DEF WorkOK
<1>5. FreedOK(r, E)
  BY <1>1, <1>2 DEF FreedOK
<1>6. ReapOK(r, E, P, G)
  BY <1>1, <1>2, ThreadsAssumption DEF ReapOK
<1>7. FixedOK(r)
  BY <1>1, <1>2 DEF FixedOK
<1> QED
  BY <1>1, <1>2, <1>3, <1>4, <1>5, <1>6, <1>7 DEF Fit

\* A worker is chosen before the ready thread that it works on.
LEMMA WorkerGoesFirst ==
    ASSUME NEW s, NEW E, NEW P, NEW G, Fit(s, E, P, G),
           NEW r, Regular(s, r), Switched(s, r), Urgent(r), s.lock = 0,
           NEW t \in Thread, P[t] \in Acting, G[t] # t
    PROVE  G[t] # r.cur
<1>1. PICK u \in Thread : u = G[t]
  BY DEF Fit
<1>2. SUFFICES ASSUME u = r.cur
               PROVE  FALSE
  BY <1>1
<1>3. /\ \A v \in Thread : LinkOK(s, E, P, G, v)
      /\ WorkOK(s, E, P, G, t) /\ s.prio[t] \in Prio /\ s.prio[u] \in Prio
  BY DEF Fit, KernelState
<1>4. s.stat[u] = "READY" /\ Linked(s, s.prio[u], u)
  BY <1>2 DEF Switched
<1>5. WorkOn(s, E, G, t, P[t], u)
  BY <1>1, <1>3 DEF WorkOK
<1>6. ~ Hidden(P, G, u)
  BY <1>3, <1>4 DEF LinkOK
<1>7. P[t] = "remove"
  BY <1>1, <1>4, <1>5, <1>6 DEF WorkOn, Suspended, SuspendFlag, Acting, Hidden
<1>8. s.stat[t] \in Active /\ s.prio[t] < s.prio[u]
  BY <1>1, <1>4, <1>5, <1>7 DEF WorkOn, Keeps
<1>9. ~ Hidden(P, G, t)
  BY WorkerIsAlone
<1>10. LinkOK(s, E, P, G, t)
  BY <1>3
<1>11. Linked(r, s.prio[t], t)
  <2>1. t # r.cur
    BY <1>1, <1>2
  <2>2. s.stat[t] = "READY" => Linked(s, s.prio[t], t)
    BY <1>3, <1>9, <1>10 DEF LinkOK
  <2>3. s.stat[t] = "RUNNING" => t = s.cur
    BY <1>10 DEF LinkOK
  <2> QED
    BY <2>1, <2>2, <2>3, <1>3, <1>8 DEF Switched, Active
<1>12. r.prio[r.cur] <= s.prio[t] /\ r.prio[r.cur] = s.prio[u]
  BY <1>2, <1>3, <1>11 DEF Urgent, Regular
<1>13. s.prio[t] \in Nat /\ s.prio[u] \in Nat
  BY <1>3, KernelAssumption
<1>14. s.prio[u] <= s.prio[t]
  BY <1>12
<1> QED
  BY <1>8, <1>13, <1>14

LEMMA SwitchKeeps ==
    ASSUME NEW s, NEW E, NEW P, NEW G, Fit(s, E, P, G),
           NEW r, Regular(s, r), Switched(s, r), Urgent(r), s.lock = 0, r.lock = 0,
           r.timer = s.timer
    PROVE  Fit(r, E, P, G)
<1>1. /\ r \in KernelState /\ NodesLinkedOnce(r) /\ GroupOK(r)
      /\ r.prio = s.prio /\ r.sig = s.sig /\ s.prio \in [Thread -> Prio] /\ s.cur \in Thread
      /\ r.cur \in Thread
  BY DEF Regular, Fit, KernelState
<1>2. /\ E \subseteq Thread /\ P \in [Thread -> Location] /\ G \in [Thread -> Thread]
      /\ \A u \in Thread : LinkOK(s, E, P, G, u)
      /\ \A t \in Thread : WorkOK(s, E, P, G, t)
      /\ FreedOK(s, E) /\ ReapOK(s, E, P, G) /\ FixedOK(s)
  BY DEF Fit
<1>3. /\ r.cur # s.cur /\ s.stat[r.cur] = "READY" /\ r.stat[r.cur] = "RUNNING"
      /\ \A u \in Thread \ {r.cur, s.cur} : r.stat[u] = s.stat[u]
      /\ r.stat[s.cur] = IF s.stat[s.cur] = "RUNNING" THEN "READY" ELSE s.stat[s.cur]
  BY DEF Switched
<1>4. \A u \in Thread : r.stat[u] = s.stat[u] \/ (s.stat[u] \in Active /\ r.stat[u] \in Active)
  BY <1>3 DEF Active
<1>5. \A q \in Queue : \A u \in Thread : Linked(r, q, u) <=> Linked(s, q, u) /\ u # r.cur
  <2>1. s.prio[s.cur] \notin Queue
    BY <1>1, KernelAssumption
  <2> QED
    BY <2>1 DEF Switched
<1>6. \A p \in Prio : \A u \in Thread :
          Linked(r, p, u) <=> \/ Linked(s, p, u) /\ u # r.cur
                              \/ u = s.cur /\ s.stat[u] = "RUNNING" /\ p = s.prio[u]
  BY DEF Switched
<1>7. ASSUME NEW u \in Thread
      PROVE  LinkOK(r, E, P, G, u)
  <2>1. LinkOK(s, E, P, G, u)
    BY <1>2
  <2>2. CASE u = r.cur
    <3>1. \A l \in Prio \cup Queue : ~ Linked(r, l, u)
      BY <2>2, <1>3, <1>5, <1>6
    <3>2. u \notin s.timer
      BY <2>1, <2>2, <1>3 DEF LinkOK, Suspended, SuspendFlag
    <3> QED
      BY <3>1, <3>2, <2>2, <1>3 DEF LinkOK, Active
  <2>3. CASE u = s.cur
    <3>1. ~ Hidden(P, G, u)
      BY <2>3, WorkerIsAlone
    <3>2. \A p \in Prio : Linked(r, p, u) <=> s.stat[u] = "RUNNING" /\ p = s.prio[u]
      BY <2>1, <2>3, <1>3, <1>6 DEF LinkOK
    <3>3. \A p \in Prio :
             Linked(r, p, u) <=> (r.stat[u] = "READY" /\ r.prio[u] = p /\ ~ Hidden(P, G, u))
      BY <3>1, <3>2, <2>1, <2>3, <1>1, <1>3 DEF LinkOK
    <3>4. \A q \in Queue : Linked(r, q, u) =>
             q = defunct /\ r.stat[u] = "CLOSE" /\ u \in E /\ Alone(G, u)
      BY <2>1, <2>3, <1>3, <1>5 DEF LinkOK
    <3>5. r.stat[u] # "RUNNING" /\ u # r.cur
      BY <2>3, <1>3
    <3>6. u = Idle => r.stat[u] \in Active
      BY <2>1, <1>4 DEF LinkOK
    <3>7. u \in r.timer => Suspended(r, u) /\ TimerLeft(P, G, u)
      BY <2>1, <2>3, <1>3 DEF LinkOK, Suspended, SuspendFlag
    <3> QED
      BY <3>3, <3>4, <3>5, <3>6, <3>7 DEF LinkOK
  <2>4. CASE u # r.cur /\ u # s.cur
    <3>1. /\ \A l \in Prio \cup Queue : Linked(r, l, u) <=> Linked(s, l, u)
          /\ r.stat[u] = s.stat[u]
      BY <2>4, <1>3, <1>5, <1>6
    <3> QED
      BY <3>1, <2>1, <2>4, <1>1 DEF LinkOK, Suspended
  <2> QED
    BY <2>2, <2>3, <2>4
<1>8. ASSUME NEW t \in Thread
      PROVE  WorkOK(r, E, P, G, t)
  <2>1. WorkOK(s, E, P, G, t)
    BY <1>2
  <2>2. ASSUME P[t] \in Acting
        PROVE  WorkOn(r, E, G, t, P[t], G[t])
    <3>1. PICK u \in Thread : u = G[t]
      BY <1>2
    <3>2. WorkOn(s, E, G, t, P[t], u)
      BY <3>1, <2>1, <2>2 DEF WorkOK
    <3>3. ~ Keeps(s, t)
      BY DEF Keeps
    <3>4. u # t => u # r.cur /\ u # s.cur /\ r.stat[u] = s.stat[u]
      BY <3>1, <3>2, <2>2, <1>3, WorkerGoesFirst DEF WorkOn
    <3>5. \A v \in Thread : s.stat[v] \in Active => r.stat[v] \in Active
      BY <1>4
    <3>6. s.stat[u] # "CLOSE" => r.stat[u] # "CLOSE"
      BY <1>4 DEF Active
    <3>7. s.stat[u] = "CLOSE" => r.stat[u] = "CLOSE"
      BY <1>4 DEF Active
    <3>8. s.stat[u] # "INIT" => r.stat[u] # "INIT"
      BY <1>4 DEF Active
    <3>9. /\ u \in E
          /\ \A v \in Thread \ {t} : G[v] # u
          /\ u # t => G[u] = Idle /\ r.stat[t] \in Active /\ u # r.cur
          /\ u = t => Keeps(r, t) \/ (t \notin Static /\ r.stat[t] \in Active)
      BY <3>2, <3>3, <3>4, <3>5 DEF WorkOn
    <3>10. P[t] \in {"resume2", "resume3"} => u # t /\ Suspended(r, u)
      BY <3>2, <3>4 DEF WorkOn, Suspended
    <3>11. P[t] \in {"remove", "untimer", "close"} =>
              r.stat[u] # "CLOSE" /\ (u = t => r.stat[t] \in Active)
      BY <3>2, <3>5, <3>6 DEF WorkOn
    <3>12. P[t] = "remove" =>
              /\ r.stat[u] # "INIT"
              /\ u # t => Keeps(r, t) \/ r.prio[t] < r.prio[u]
      BY <3>2, <3>3, <3>4, <3>8, <1>1 DEF WorkOn
    <3>13. P[t] = "enqueue" => u \in Static /\ (u = t => Keeps(r, t))
      BY <3>2, <3>3 DEF WorkOn
    <3>14. P[t] \in {"cleanup", "free"} => u # t
      BY <3>2 DEF WorkOn
    <3>15. P[t] \in {"enqueue", "cleanup", "free"} =>
              r.stat[u] = "CLOSE" /\ \A q \in Queue : ~ Linked(r, q, u)
      BY <3>2, <3>7, <1>5 DEF WorkOn
    <3> QED
      BY <3>1, <3>9, <3>10, <3>11, <3>12, <3>13, <3>14, <3>15 DEF WorkOn
  <2> QED
    BY <2>1, <2>2 DEF WorkOK
<1>9. FreedOK(r, E)
  BY <1>2, <1>3, <1>4 DEF FreedOK, Active
<1>10. ReapOK(r, E, P, G)
  <2>1. \A u \in Thread : r.stat[u] = "CLOSE" => s.stat[u] = "CLOSE" /\ u # r.cur
    BY <1>3, <1>4 DEF Active
  <2> QED
    BY <2>1, <1>2, <1>5, ThreadsAssumption DEF ReapOK
<1>11. FixedOK(r)
  BY <1>1, <1>2 DEF FixedOK
<1> QED
  BY <1>1, <1>2, <1>7, <1>8, <1>9, <1>10, <1>11 DEF Fit

\* rt_schedule keeps all of it, and after it the current thread runs as it should.
LEMMA ScheduleKeeps ==
    ASSUME NEW s, NEW E, NEW P, NEW G, Fit(s, E, P, G), NEW r, r = rt_schedule(s)
    PROVE  Fit(r, E, P, G) /\ Scheduled(s, r)
<1>1. Scheduled(s, r)
  BY FitIsLoose, ScheduleEffect
<1>2. CASE Alike(s, r)
  BY <1>1, <1>2, AlikeKeeps DEF Scheduled
<1>3. CASE Switched(s, r)
  <2>1. s.lock = 0
    BY <1>1, <1>3 DEF Scheduled, Switched, Alike
  <2> QED
    BY <2>1, <1>1, <1>3, SwitchKeeps DEF Scheduled
<1> QED
  BY <1>1, <1>2, <1>3 DEF Scheduled

-----------------------------------------------------------------------------
(* What a step changes: the state of one thread u, and the place of the    *)
(* thread t that works on it                                               *)

\* Only the state of u changes.
Only(s, r, u) ==
    /\ Regular(s, r) /\ r.cur = s.cur /\ r.lock = s.lock
    /\ \A v \in Thread \ {u} :
          /\ r.stat[v] = s.stat[v]
          /\ v \in r.timer <=> v \in s.timer
          /\ \A l \in Prio \cup Queue : Linked(r, l, v) <=> Linked(s, l, v)

\* Nobody but t works on u, and t works on nobody else.
Touches(s, E, P, G, r, F, Q, H, t, u) ==
    /\ Only(s, r, u)
    /\ F \subseteq Thread /\ Q \in [Thread -> Location] /\ H \in [Thread -> Thread]
    /\ \A v \in Thread \ {u} : v \in F <=> v \in E
    /\ \A v \in Thread \ {t, u} : Q[v] = P[v]
    /\ \A v \in Thread \ {t} : H[v] = G[v] /\ G[v] # u
    /\ G[t] \in {Idle, u} /\ H[t] \in {Idle, u}
    /\ u # t => G[u] = Idle /\ Q[u] \notin Acting
    /\ H[t] = G[t] \/ t = s.cur

\* The other threads are as they should be.
OthersSettled(r, E, F, Q, H, t, u) ==
    /\ \A v \in Thread \ {u} : LinkOK(r, F, Q, H, v)
    /\ \A v \in Thread \ {t, u} : WorkOK(r, F, Q, H, v)
    /\ FixedOK(r)
    /\ \A v \in E \ {u} : r.stat[v] = "CLOSE" =>
          \/ Linked(r, defunct, v)
          \/ \E x \in Thread : H[x] = v /\ Q[x] \in {"enqueue", "cleanup", "free"}

LEMMA TouchOthers ==
    ASSUME NEW s, NEW E, NEW P, NEW G, Fit(s, E, P, G),
           NEW r, NEW F, NEW Q, NEW H, NEW t \in Thread, NEW u \in App,
           Touches(s, E, P, G, r, F, Q, H, t, u),
           Q[t] \in Acting => H[t] # Idle
    PROVE  OthersSettled(r, E, F, Q, H, t, u)
<1>1. /\ r \in KernelState /\ r.prio = s.prio /\ r.sig = s.sig
      /\ r.cur = s.cur /\ r.lock = s.lock /\ u \in Thread /\ u # Idle /\ Idle \in Thread
      /\ s.cur \in Thread
  BY KernelAssumption DEF Touches, Only, Regular, App, Fit, KernelState
<1>2. /\ E \subseteq Thread /\ P \in [Thread -> Location] /\ G \in [Thread -> Thread]
      /\ \A v \in Thread : LinkOK(s, E, P, G, v)
      /\ \A v \in Thread : WorkOK(s, E, P, G, v)
      /\ FreedOK(s, E) /\ ReapOK(s, E, P, G) /\ FixedOK(s)
  BY DEF Fit
<1>3. /\ \A v \in Thread \ {u} :
            /\ r.stat[v] = s.stat[v]
            /\ v \in r.timer <=> v \in s.timer
            /\ v \in F <=> v \in E
            /\ \A l \in Prio \cup Queue : Linked(r, l, v) <=> Linked(s, l, v)
      /\ \A v \in Thread \ {t, u} : Q[v] = P[v]
      /\ \A v \in Thread \ {t} : H[v] = G[v] /\ G[v] # u
      /\ G[t] \in {Idle, u} /\ H[t] \in {Idle, u}
      /\ u # t => G[u] = Idle /\ Q[u] \notin Acting
      /\ H[t] = G[t] \/ t = s.cur
  BY DEF Touches, Only
<1>4. P[t] \in Acting <=> G[t] # Idle
  BY <1>2 DEF WorkOK
<1>5. u # t => P[u] \notin Acting
  BY <1>1, <1>2, <1>3 DEF WorkOK
<1>6. ASSUME NEW v \in Thread \ {u}, v # Idle, NEW x \in Thread
      PROVE  /\ H[x] = v <=> G[x] = v
             /\ H[x] = v => Q[x] = P[x]
  BY <1>1, <1>3, <1>6
<1>7. ASSUME NEW v \in Thread \ {u}
      PROVE  LinkOK(r, F, Q, H, v)
  <2>1. LinkOK(s, E, P, G, v)
    BY <1>2
  <2>2. CASE v # Idle
    <3>1. Hidden(Q, H, v) <=> Hidden(P, G, v)
      BY <2>2, <1>6 DEF Hidden
    <3>2. Alone(H, v) <=> Alone(G, v)
      BY <2>2, <1>6 DEF Alone
    <3>3. TimerLeft(P, G, v) => TimerLeft(Q, H, v)
      BY <2>2, <1>6 DEF TimerLeft
    <3> QED
      BY <3>1, <3>2, <3>3, <2>1, <2>2, <1>1, <1>3 DEF LinkOK, Suspended
  <2>3. CASE v = Idle
    <3>1. ~ Hidden(P, G, v)
      BY <2>3, WorkerIsAlone
    <3>2. ~ Hidden(Q, H, v)
      <4>1. SUFFICES ASSUME NEW x \in Thread \ {v}, H[x] = Idle, Q[x] \in {"untimer", "close"}
                     PROVE  FALSE
        BY <2>3 DEF Hidden
      <4>2. Q[x] \in Acting
        BY <4>1 DEF Acting
      <4>3. x # t /\ x # u
        BY <4>1, <4>2, <1>3
      <4>4. G[x] = Idle /\ P[x] \in Acting /\ WorkOK(s, E, P, G, x)
        BY <4>1, <4>2, <4>3, <1>2, <1>3
      <4> QED
        BY <4>4 DEF WorkOK
    <3>3. s.stat[v] \in Active
      BY <2>1, <2>3 DEF LinkOK
    <3>4. \A q \in Queue : ~ Linked(s, q, v)
      BY <3>3, <2>1 DEF LinkOK, Active
    <3>5. v \notin s.timer
      BY <3>3, <2>1 DEF LinkOK, Active, Suspended, SuspendFlag
    <3> QED
      BY <3>1, <3>2, <3>3, <3>4, <3>5, <2>1, <2>3, <1>1, <1>3 DEF LinkOK
  <2> QED
    BY <2>2, <2>3
<1>8. ASSUME NEW v \in Thread \ {t, u}
      PROVE  WorkOK(r, F, Q, H, v)
  <2>1. WorkOK(s, E, P, G, v) /\ Q[v] = P[v] /\ H[v] = G[v]
    BY <1>2, <1>3
  <2>2. ASSUME P[v] \in Acting
        PROVE  WorkOn(r, F, H, v, P[v], G[v])
    <3>1. PICK w \in Thread : w = G[v]
      BY <1>2
    <3>2. WorkOn(s, E, G, v, P[v], w) /\ w # Idle
      BY <3>1, <2>1, <2>2 DEF WorkOK
    <3>3. w # u
      BY <3>1, <1>3
    <3>4. \A x \in Thread \ {v} : H[x] # w
      BY <3>2, <3>3, <1>6 DEF WorkOn
    <3>5. w # v => H[w] = Idle
      <4>1. CASE w = t /\ w # v
        <5>1. t # s.cur /\ G[t] = Idle
          BY <4>1, <3>2 DEF WorkOn
        <5> QED
          BY <5>1, <4>1, <1>3
      <4>2. CASE w # t /\ w # v
        BY <4>2, <3>2, <3>3, <1>3 DEF WorkOn
      <4> QED
        BY <4>1, <4>2
    <3>6. Keeps(r, v) <=> Keeps(s, v)
      BY <1>1 DEF Keeps
    <3>7. r.stat[v] = s.stat[v] /\ r.stat[w] = s.stat[w] /\ (w \in F <=> w \in E)
      BY <3>3, <1>3
    <3>8. \A q \in Queue : Linked(r, q, w) <=> Linked(s, q, w)
      BY <3>3, <1>3
    <3> QED
      BY <3>1, <3>2, <3>4, <3>5, <3>6, <3>7, <3>8, <1>1 DEF WorkOn, Suspended
  <2> QED
    BY <2>1, <2>2 DEF WorkOK
<1>9. FixedOK(r)
  BY <1>1, <1>2 DEF FixedOK
<1>10. ASSUME NEW v \in E \ {u}, r.stat[v] = "CLOSE"
       PROVE  \/ Linked(r, defunct, v)
              \/ \E x \in Thread : H[x] = v /\ Q[x] \in {"enqueue", "cleanup", "free"}
  <2>1. v \in Thread /\ s.stat[v] = "CLOSE" /\ LinkOK(s, E, P, G, Idle)
    BY <1>1, <1>2, <1>3, <1>10
  <2>2. v # Idle
    BY <2>1 DEF LinkOK, Active
  <2>3. CASE Linked(s, defunct, v)
    BY <2>1, <2>3, <1>3, ThreadsAssumption
  <2>4. CASE ~ Linked(s, defunct, v)
    <3>1. PICK x \in Thread : G[x] = v /\ P[x] \in {"enqueue", "cleanup", "free"}
      BY <2>1, <2>4, <1>2 DEF ReapOK
    <3> QED
      BY <3>1, <2>1, <2>2, <1>6
  <2> QED
    BY <2>3, <2>4
<1> QED
  BY <1>7, <1>8, <1>9, <1>10 DEF OthersSettled

\* What is left to show of the two.
Settled(r, F, Q, H, t, u) ==
    /\ LinkOK(r, F, Q, H, u) /\ WorkOK(r, F, Q, H, t)
    /\ u # t => H[u] = Idle /\ Q[u] \notin Acting /\ Q[u] \notin {"cleanup", "free"}
    /\ u \notin F => r.stat[u] = "CLOSE" /\ (r.cur = u => u \in Static)
    /\ u \in F /\ r.stat[u] = "CLOSE" =>
          Linked(r, defunct, u) \/ (H[t] = u /\ Q[t] \in {"enqueue", "cleanup", "free"})

LEMMA TouchKeeps ==
    ASSUME NEW s, NEW E, NEW P, NEW G, Fit(s, E, P, G),
           NEW r, NEW F, NEW Q, NEW H, NEW t \in Thread, NEW u \in App,
           Touches(s, E, P, G, r, F, Q, H, t, u), Settled(r, F, Q, H, t, u)
    PROVE  Fit(r, F, Q, H)
<1>1. /\ r \in KernelState /\ NodesLinkedOnce(r) /\ GroupOK(r) /\ r.cur = s.cur
      /\ F \subseteq Thread /\ Q \in [Thread -> Location] /\ H \in [Thread -> Thread]
      /\ \A v \in Thread \ {u} : r.stat[v] = s.stat[v] /\ (v \in F <=> v \in E)
      /\ u \in Thread /\ u # Idle /\ Idle \in Thread
  BY KernelAssumption DEF Touches, Only, Regular, App
<1>2. /\ LinkOK(r, F, Q, H, u) /\ WorkOK(r, F, Q, H, t)
      /\ u # t => H[u] = Idle /\ Q[u] \notin Acting /\ Q[u] \notin {"cleanup", "free"}
      /\ u \notin F => r.stat[u] = "CLOSE" /\ (r.cur = u => u \in Static)
      /\ u \in F /\ r.stat[u] = "CLOSE" =>
            Linked(r, defunct, u) \/ (H[t] = u /\ Q[t] \in {"enqueue", "cleanup", "free"})
  BY DEF Settled
<1>3. Q[t] \in Acting => H[t] # Idle
  BY <1>2 DEF WorkOK
<1>4. /\ \A v \in Thread \ {u} : LinkOK(r, F, Q, H, v)
      /\ \A v \in Thread \ {t, u} : WorkOK(r, F, Q, H, v)
      /\ FixedOK(r)
      /\ \A v \in E \ {u} : r.stat[v] = "CLOSE" =>
            \/ Linked(r, defunct, v)
            \/ \E x \in Thread : H[x] = v /\ Q[x] \in {"enqueue", "cleanup", "free"}
  <2>1. OthersSettled(r, E, F, Q, H, t, u)
    BY <1>3, TouchOthers
  <2> QED
    BY <2>1 DEF OthersSettled
<1>5. \A v \in Thread : LinkOK(r, F, Q, H, v)
  BY <1>2, <1>4
<1>6. u # t => WorkOK(r, F, Q, H, u)
  BY <1>1, <1>2 DEF WorkOK
<1>7. \A v \in Thread : WorkOK(r, F, Q, H, v)
  BY <1>2, <1>4, <1>6
<1>8. FreedOK(r, F)
  <2>1. FreedOK(s, E)
    BY DEF Fit
  <2> QED
    BY <2>1, <1>1, <1>2 DEF FreedOK
<1>9. ReapOK(r, F, Q, H)
  BY <1>1, <1>2, <1>4 DEF ReapOK
<1> QED
  BY <1>1, <1>4, <1>5, <1>7, <1>8, <1>9 DEF Fit

-----------------------------------------------------------------------------
(* The functions of the kernel, as far as they only change one thread *)

Plain(s) == s \in KernelState /\ NodesLinkedOnce(s) /\ GroupOK(s)

Nowhere(s, u) == \A l \in Prio \cup Queue : ~ Linked(s, l, u)

LEMMA OnlyTwice ==
    ASSUME NEW s, NEW m, NEW r, NEW u \in Thread, Only(s, m, u), Only(m, r, u)
    PROVE  Only(s, r, u)
BY DEF Only, Regular

LEMMA OnlyPlain ==
    ASSUME NEW s, NEW r, NEW u, Only(s, r, u)
    PROVE  Plain(r) /\ r.prio = s.prio /\ r.sig = s.sig /\ r.cur = s.cur /\ r.lock = s.lock
BY DEF Only, Regular, Plain

LEMMA InsertOnly ==
    ASSUME NEW s, Plain(s), NEW u \in Thread, Nowhere(s, u),
           NEW r, r = rt_schedule_insert_thread(s, u)
    PROVE  /\ Only(s, r, u) /\ r.timer = s.timer
           /\ u = s.cur => r.stat[u] = "RUNNING" /\ Nowhere(r, u)
           /\ u # s.cur => /\ r.stat[u] = "READY"
                           /\ \A l \in Prio \cup Queue : Linked(r, l, u) <=> l = s.prio[u]
<1>1. CASE u = s.cur
  <2>1. r = [s EXCEPT !.stat[u] = "RUNNING"]
    BY <1>1 DEF rt_schedule_insert_thread
  <2>2. /\ r \in KernelState /\ SameBut(s, r, u) /\ r.stat[u] = "RUNNING"
        /\ \A l, v : Linked(r, l, v) <=> Linked(s, l, v)
        /\ GroupOK(r) /\ NodesLinkedOnce(r)
    BY <2>1, SetStat DEF Plain, Stat
  <2> QED
    BY <2>2, <1>1 DEF SameBut, Only, Regular, Nowhere
<1>2. CASE u # s.cur
  <2>1. /\ r \in KernelState /\ NodesLinkedOnce(r) /\ GroupOK(r)
        /\ \A l \in Prio \cup Queue : \A v :
              Linked(r, l, v) <=> Linked(s, l, v) \/ (l = s.prio[u] /\ v = u)
        /\ SameBut(s, r, u) /\ r.stat[u] = "READY"
    BY <1>2, InsertLinks DEF Plain, Nowhere
  <2> QED
    BY <2>1, <1>2 DEF SameBut, Only, Regular, Nowhere
<1> QED
  BY <1>1, <1>2

LEMMA RemoveOnly ==
    ASSUME NEW s, Plain(s), NEW u \in Thread, \A p \in Prio : Linked(s, p, u) => p = s.prio[u],
           NEW r, r = rt_schedule_remove_thread(s, u)
    PROVE  Only(s, r, u) /\ r.timer = s.timer /\ r.stat = s.stat /\ Nowhere(r, u)
<1>1. /\ r \in KernelState /\ NodesLinkedOnce(r) /\ GroupOK(r)
      /\ \A l \in Prio \cup Queue : \A v : Linked(r, l, v) <=> Linked(s, l, v) /\ v # u
      /\ SameBut(s, r, u) /\ r.stat = s.stat
  BY RemoveLinks DEF Plain
<1> QED
  BY <1>1 DEF SameBut, Only, Regular, Nowhere

LEMMA UnlinkOnly ==
    ASSUME NEW s, Plain(s), NEW u \in Thread, \A p \in Prio : ~ Linked(s, p, u),
           NEW r, r = rt_list_remove(s, u)
    PROVE  Only(s, r, u) /\ r.timer = s.timer /\ r.stat = s.stat /\ Nowhere(r, u)
<1>1. /\ r \in KernelState /\ NodesLinkedOnce(r)
      /\ \A l \in Prio \cup Queue : \A v : Linked(r, l, v) <=> Linked(s, l, v) /\ v # u
      /\ SameBut(s, r, u) /\ r.stat = s.stat /\ r.group = s.group
  BY UnlinkLists DEF Plain
<1>2. GroupOK(r)
  BY <1>1 DEF GroupOK, Plain
<1> QED
  BY <1>1, <1>2 DEF SameBut, Only, Regular, Nowhere

LEMMA StatOnly ==
    ASSUME NEW s, Plain(s), NEW u \in Thread, NEW v \in Stat,
           NEW r, r = [s EXCEPT !.stat[u] = v]
    PROVE  /\ Only(s, r, u) /\ r.timer = s.timer /\ r.stat[u] = v
           /\ \A l \in Prio \cup Queue : Linked(r, l, u) <=> Linked(s, l, u)
<1>1. /\ r \in KernelState /\ SameBut(s, r, u) /\ r.stat[u] = v
      /\ \A l, x : Linked(r, l, x) <=> Linked(s, l, x)
      /\ GroupOK(r) /\ NodesLinkedOnce(r)
  BY SetStat DEF Plain
<1> QED
  BY <1>1 DEF SameBut, Only, Regular

LEMMA TimerOnly ==
    ASSUME NEW s, Plain(s), NEW u \in Thread, NEW T \in SUBSET Thread,
           \A v \in Thread \ {u} : v \in T <=> v \in s.timer,
           NEW r, r = [s EXCEPT !.timer = T]
    PROVE  /\ Only(s, r, u) /\ r.timer = T /\ r.stat = s.stat
           /\ \A l \in Prio \cup Queue : Linked(r, l, u) <=> Linked(s, l, u)
<1>1. /\ r \in KernelState /\ r.timer = T /\ r.stat = s.stat /\ r.list = s.list
      /\ r.cur = s.cur /\ r.prio = s.prio /\ r.sig = s.sig /\ r.lock = s.lock /\ r.group = s.group
  BY DEF Plain, KernelState
<1>2. \A l, x : Linked(r, l, x) <=> Linked(s, l, x)
  BY <1>1 DEF Linked
<1>3. GroupOK(r) /\ NodesLinkedOnce(r)
  BY <1>1, <1>2 DEF Plain, GroupOK, NodesLinkedOnce
<1> QED
  BY <1>1, <1>2, <1>3 DEF Only, Regular

\* A list with one more element in front.
LEMMA PushList ==
    ASSUME NEW S, NEW s \in Seq(S), NEW t \in S, NoRepeats(s), t \notin ToSet(s)
    PROVE  /\ <<t>> \o s \in Seq(S)
           /\ ToSet(<<t>> \o s) = ToSet(s) \cup {t}
           /\ NoRepeats(<<t>> \o s)
<1> DEFINE r == <<t>> \o s
<1>1. /\ r \in Seq(S) /\ Len(r) = Len(s) + 1 /\ r[1] = t /\ Len(s) \in Nat
      /\ \A i \in 1 .. Len(s) : r[i + 1] = s[i]
  OBVIOUS
<1> HIDE DEF r
<1>2. \A i \in 1 .. Len(r) : i = 1 \/ (i - 1 \in 1 .. Len(s) /\ r[i] = s[i - 1])
  <2>1. SUFFICES ASSUME NEW i \in 1 .. Len(r), i # 1
                 PROVE  i - 1 \in 1 .. Len(s) /\ r[i] = s[i - 1]
    OBVIOUS
  <2>2. i - 1 \in 1 .. Len(s) /\ (i - 1) + 1 = i
    BY <2>1, <1>1
  <2> QED
    BY <2>2, <1>1
<1>3. ToSet(r) = ToSet(s) \cup {t}
  <2>1. \A i \in 1 .. Len(r) : r[i] \in ToSet(s) \cup {t}
    <3>1. \A j \in 1 .. Len(s) : s[j] \in ToSet(s)
      BY DEF ToSet
    <3> QED
      BY <3>1, <1>1, <1>2
  <2>2. t \in ToSet(r)
    <3>1. 1 \in 1 .. Len(r)
      BY <1>1
    <3> QED
      BY <3>1, <1>1 DEF ToSet
  <2>3. \A i \in 1 .. Len(s) : s[i] \in ToSet(r)
    <3>1. \A i \in 1 .. Len(s) : i + 1 \in 1 .. Len(r)
      BY <1>1
    <3> QED
      BY <3>1, <1>1 DEF ToSet
  <2>4. ToSet(r) \subseteq ToSet(s) \cup {t}
    <3>1. SUFFICES ASSUME NEW x \in ToSet(r)
                   PROVE  x \in ToSet(s) \cup {t}
      OBVIOUS
    <3>2. PICK i \in 1 .. Len(r) : x = r[i]
      BY DEF ToSet
    <3> QED
      BY <3>2, <2>1
  <2>5. ToSet(s) \subseteq ToSet(r)
    <3>1. SUFFICES ASSUME NEW x \in ToSet(s)
                   PROVE  x \in ToSet(r)
      OBVIOUS
    <3>2. PICK i \in 1 .. Len(s) : x = s[i]
      BY DEF ToSet
    <3> QED
      BY <3>2, <2>3
  <2> QED
    BY <2>2, <2>4, <2>5
<1>4. NoRepeats(r)
  <2>1. SUFFICES ASSUME NEW i \in 1 .. Len(r), NEW j \in 1 .. Len(r), r[i] = r[j]
                 PROVE  i = j
    BY DEF NoRepeats
  <2>2. \A m \in 1 .. Len(s) : s[m] # t
    BY DEF ToSet
  <2>3. CASE i = 1 \/ j = 1
    BY <2>1, <2>2, <2>3, <1>1, <1>2
  <2>4. CASE i # 1 /\ j # 1
    <3>1. i - 1 \in 1 .. Len(s) /\ j - 1 \in 1 .. Len(s) /\ s[i - 1] = s[j - 1]
      BY <2>1, <2>4, <1>2
    <3>2. i - 1 = j - 1
      BY <3>1 DEF NoRepeats
    <3> QED
      BY <3>2
  <2> QED
    BY <2>3, <2>4
<1> QED
  BY <1>1, <1>3, <1>4 DEF r

LEMMA EnqueueOnly ==
    ASSUME NEW s, Plain(s), NEW u \in Thread, Nowhere(s, u),
           NEW r, r = rt_thread_defunct_enqueue(s, u)
    PROVE  /\ Only(s, r, u) /\ r.timer = s.timer /\ r.stat = s.stat
           /\ \A l \in Prio \cup Queue : Linked(r, l, u) <=> l = defunct
<1>1. defunct \in Prio \cup Queue /\ defunct \notin Prio
  BY ThreadsAssumption, KernelAssumption
<1>2. /\ s.list \in [Prio \cup Queue -> Seq(Thread)] /\ NoRepeats(s.list[defunct])
      /\ s.list[defunct] \in Seq(Thread) /\ u \notin ToSet(s.list[defunct])
  BY <1>1 DEF Plain, KernelState, NodesLinkedOnce, Nowhere, Linked
<1>3. PICK d : d = <<u>> \o s.list[defunct]
  OBVIOUS
<1>4. d \in Seq(Thread) /\ ToSet(d) = ToSet(s.list[defunct]) \cup {u} /\ NoRepeats(d)
  BY <1>2, <1>3, PushList
<1>5. r = [s EXCEPT !.list[defunct] = d]
  BY <1>3 DEF rt_thread_defunct_enqueue
<1>6. PICK L : L = [s.list EXCEPT ![defunct] = d]
  OBVIOUS
<1>7. /\ L \in [Prio \cup Queue -> Seq(Thread)] /\ L[defunct] = d
      /\ \A l \in Prio \cup Queue : l # defunct => L[l] = s.list[l]
  BY <1>1, <1>2, <1>4, <1>6
<1>8. r = [s EXCEPT !.list = L]
  BY <1>5, <1>6
<1>9. /\ r \in KernelState /\ r.timer = s.timer /\ r.stat = s.stat /\ r.group = s.group
      /\ r.list[defunct] = d /\ \A l \in Prio \cup Queue : l # defunct => r.list[l] = s.list[l]
      /\ r.cur = s.cur /\ r.prio = s.prio /\ r.sig = s.sig /\ r.lock = s.lock
  BY <1>7, <1>8 DEF Plain, KernelState
<1>10. \A l \in Prio \cup Queue : \A v :
           Linked(r, l, v) <=> Linked(s, l, v) \/ (l = defunct /\ v = u)
  BY <1>4, <1>9 DEF Linked
<1>11. GroupOK(r)
  BY <1>1, <1>9, <1>10 DEF GroupOK, Plain
<1>12. NodesLinkedOnce(r)
  <2>1. \A l \in Prio \cup Queue : NoRepeats(r.list[l])
    BY <1>4, <1>9 DEF Plain, NodesLinkedOnce
  <2>2. \A l, m \in Prio \cup Queue : \A v \in Thread : Linked(r, l, v) /\ Linked(r, m, v) => l = m
    BY <1>10 DEF Plain, NodesLinkedOnce, Nowhere
  <2> QED
    BY <2>1, <2>2 DEF NodesLinkedOnce
<1> QED
  BY <1>9, <1>10, <1>11, <1>12 DEF Only, Regular, Nowhere

-----------------------------------------------------------------------------
(* The invariant for one thread, in the cases that occur *)

LEMMA LinkNowhere ==
    ASSUME NEW r, NEW F, NEW Q, NEW H, NEW u \in App, Nowhere(r, u),
           r.stat[u] \notin Active, u \in r.timer => Suspended(r, u) /\ TimerLeft(Q, H, u)
    PROVE  LinkOK(r, F, Q, H, u)
BY DEF LinkOK, Nowhere, Active, App

LEMMA LinkReady ==
    ASSUME NEW r \in KernelState, NEW F, NEW Q, NEW H, NEW u \in App,
           \A l \in Prio \cup Queue : Linked(r, l, u) <=> l = r.prio[u],
           r.stat[u] = "READY", u # r.cur, u \notin r.timer, ~ Hidden(Q, H, u)
    PROVE  LinkOK(r, F, Q, H, u)
<1>1. r.prio[u] \in Prio /\ r.prio[u] \notin Queue
  BY KernelAssumption DEF App, KernelState
<1> QED
  BY <1>1 DEF LinkOK, App

LEMMA LinkRunning ==
    ASSUME NEW r, NEW F, NEW Q, NEW H, NEW u \in App, Nowhere(r, u),
           r.stat[u] = "RUNNING", u = r.cur, u \notin r.timer
    PROVE  LinkOK(r, F, Q, H, u)
BY DEF LinkOK, Nowhere, App

LEMMA LinkHidden ==
    ASSUME NEW r, NEW F, NEW Q, NEW H, NEW u \in App, Nowhere(r, u),
           r.stat[u] = "READY", u # r.cur, u \notin r.timer, Hidden(Q, H, u)
    PROVE  LinkOK(r, F, Q, H, u)
BY DEF LinkOK, Nowhere, App

LEMMA LinkDefunct ==
    ASSUME NEW r, NEW F, NEW Q, NEW H, NEW u \in App,
           \A l \in Prio \cup Queue : Linked(r, l, u) => l = defunct,
           r.stat[u] = "CLOSE", u \in F, Alone(H, u), u \notin r.timer
    PROVE  LinkOK(r, F, Q, H, u)
<1>1. defunct \notin Prio
  BY ThreadsAssumption, KernelAssumption
<1> QED
  BY <1>1 DEF LinkOK, App

\* Working on nobody.
LEMMA WorksOnNobody ==
    ASSUME NEW r, NEW F, NEW Q, NEW H, NEW t \in Thread, Q[t] \notin Acting, H[t] = Idle,
           t = Idle => Q[t] = "run"
    PROVE  WorkOK(r, F, Q, H, t)
BY DEF WorkOK, Acting

\* A thread that does not exist is in no list and nobody's business.
LEMMA NotThere ==
    ASSUME NEW s, NEW E, NEW P, NEW G, Fit(s, E, P, G), NEW u \in Thread \ E
    PROVE  /\ u \in App /\ s.stat[u] = "CLOSE" /\ Nowhere(s, u) /\ u \notin s.timer
           /\ Alone(G, u) /\ G[u] = Idle /\ P[u] \notin Acting
           /\ s.cur = u => u \in Static
<1>1. /\ LinkOK(s, E, P, G, u) /\ WorkOK(s, E, P, G, u) /\ G \in [Thread -> Thread]
      /\ \A v \in Thread : WorkOK(s, E, P, G, v)
  BY DEF Fit
<1>2. u # Idle /\ s.stat[u] = "CLOSE" /\ (s.cur = u => u \in Static)
  BY DEF Fit, FreedOK
<1>3. Nowhere(s, u) /\ u \notin s.timer
  BY <1>1, <1>2 DEF LinkOK, Nowhere, Suspended, SuspendFlag
<1>4. ASSUME NEW v \in Thread, G[v] = u
      PROVE  FALSE
  <2>1. WorkOn(s, E, G, v, P[v], u)
    BY <1>1, <1>2, <1>4 DEF WorkOK
  <2> QED
    BY <2>1 DEF WorkOn
<1>5. P[u] \notin Acting
  <2>1. SUFFICES ASSUME P[u] \in Acting
                 PROVE  FALSE
    OBVIOUS
  <2>2. WorkOn(s, E, G, u, P[u], G[u]) /\ G[u] # u
    BY <2>1, <1>1, <1>4 DEF WorkOK
  <2> QED
    BY <2>2, <1>2 DEF WorkOn, Active
<1>6. G[u] = Idle
  BY <1>1, <1>5 DEF WorkOK
<1> QED
  BY <1>2, <1>3, <1>4, <1>5, <1>6 DEF App, Alone

\* The thread that runs application code.
LEMMA AtRun ==
    ASSUME LifeInv, NEW t \in App, At(t, "run")
    PROVE  /\ t = k.cur /\ t \in Thread /\ pc[t] = "run" /\ k.stat[t] = "RUNNING"
           /\ t \in exists /\ Nowhere(k, t) /\ t \notin k.timer
           /\ target[t] = Idle /\ Alone(target, t)
<1>1. t = k.cur /\ t \in Thread /\ t # Idle /\ pc[t] = "run"
  BY DEF At, App
<1>2. Fit(k, exists, pc, target) /\ CurOK(k, pc)
  BY DEF LifeInv
<1>3. k.stat[t] = "RUNNING"
  BY <1>1, <1>2 DEF CurOK
<1>4. LinkOK(k, exists, pc, target, t) /\ WorkOK(k, exists, pc, target, t)
  BY <1>1, <1>2 DEF Fit
<1>5. t \in exists
  BY <1>1, <1>2, <1>3, NotThere
<1>6. Nowhere(k, t) /\ t \notin k.timer
  BY <1>3, <1>4 DEF LinkOK, Nowhere, Suspended, SuspendFlag
<1>7. target[t] = Idle
  BY <1>1, <1>4 DEF WorkOK, Acting
<1>8. \A v \in Thread \ {t} : target[v] # t
  BY <1>1, <1>2, WorkerIsAlone
<1> QED
  BY <1>1, <1>3, <1>5, <1>6, <1>7, <1>8 DEF Alone

LEMMA LifeTypes ==
    ASSUME LifeInv
    PROVE  /\ Plain(k) /\ k \in KernelState /\ exists \subseteq Thread
           /\ pc \in [Thread -> Location] /\ target \in [Thread -> Thread]
           /\ k.prio = InitPrio /\ k.timer \subseteq Thread /\ k.cur \in Thread
           /\ k.lock \in 0 .. NestMax
           /\ Fit(k, exists, pc, target) /\ CurOK(k, pc) /\ PreemptOK(k, pc)
BY DEF LifeInv, Fit, Plain, FixedOK, KernelState

LEMMA NoChange ==
    ASSUME NEW s, Plain(s), NEW u
    PROVE  Only(s, s, u)
BY DEF Plain, Only, Regular

\* A step that makes no thread ready.
LEMMA PreemptStays ==
    ASSUME NEW s, NEW P, PreemptOK(s, P), P[s.cur] # "resched",
           NEW r, NEW Q, r.cur = s.cur, r.prio = s.prio, r.lock = s.lock,
           r.stat[s.cur] = "RUNNING" => s.stat[s.cur] = "RUNNING",
           \A p \in Prio : \A u \in Thread : Linked(r, p, u) => Linked(s, p, u)
    PROVE  PreemptOK(r, Q)
BY DEF PreemptOK, Urgent

-----------------------------------------------------------------------------
(* Each action keeps the invariant *)

LEMMA CreateKeeps ==
    ASSUME LifeInv, NEW t \in App, NEW u \in App, Create(t, u)
    PROVE  LifeInv'
<1>1. /\ t = k.cur /\ t \in Thread /\ pc[t] = "run" /\ k.stat[t] = "RUNNING" /\ t \in exists
      /\ target[t] = Idle
  BY AtRun DEF Create
<1>2. /\ Plain(k) /\ k \in KernelState /\ exists \subseteq Thread
      /\ pc \in [Thread -> Location] /\ target \in [Thread -> Thread]
      /\ k.prio = InitPrio /\ k.lock \in 0 .. NestMax
      /\ Fit(k, exists, pc, target) /\ CurOK(k, pc) /\ PreemptOK(k, pc)
  BY LifeTypes
<1>3. u \in Thread /\ u \notin exists /\ u # t /\ u # Idle
  BY <1>1 DEF Create, App
<1>4. /\ k.stat[u] = "CLOSE" /\ Nowhere(k, u) /\ u \notin k.timer
      /\ Alone(target, u) /\ target[u] = Idle
  BY <1>2, <1>3, NotThere
<1>5. k' = [k EXCEPT !.stat[u] = "INIT", !.err[u] = "EOK", !.prio[u] = InitPrio[u],
                     !.yield = @ \ {u}]
  BY DEF Create
<1>6. /\ k' \in KernelState /\ k'.list = k.list /\ k'.group = k.group /\ k'.cur = k.cur
      /\ k'.lock = k.lock /\ k'.timer = k.timer /\ k'.sig = k.sig
      /\ k'.stat = [k.stat EXCEPT ![u] = "INIT"]
      /\ k'.prio = [k.prio EXCEPT ![u] = InitPrio[u]]
  BY <1>2, <1>3, <1>5, KernelAssumption DEF KernelState, Stat, Error
<1>7. k'.prio = k.prio /\ k'.stat[u] = "INIT" /\ \A v \in Thread \ {u} : k'.stat[v] = k.stat[v]
  BY <1>2, <1>3, <1>6, KernelAssumption DEF KernelState
<1>8. \A l, v : Linked(k', l, v) <=> Linked(k, l, v)
  BY <1>6 DEF Linked
<1>9. GroupOK(k') /\ NodesLinkedOnce(k')
  BY <1>2, <1>6, <1>8 DEF Plain, GroupOK, NodesLinkedOnce
<1>10. Only(k, k', u) /\ Nowhere(k', u)
  BY <1>4, <1>6, <1>7, <1>8, <1>9 DEF Only, Regular, Nowhere
<1>11. exists' = exists \cup {u} /\ pc' = [pc EXCEPT ![u] = "run"] /\ target' = target
  BY DEF Create
<1>12. Touches(k, exists, pc, target, k', exists', pc', target', t, u)
  BY <1>1, <1>2, <1>3, <1>4, <1>10, <1>11 DEF Touches, Alone, Location, Acting
<1>13. LinkOK(k', exists', pc', target', u)
  BY <1>4, <1>6, <1>7, <1>10, LinkNowhere DEF Active
<1>14. WorkOK(k', exists', pc', target', t)
  BY <1>1, <1>2, <1>3, <1>11, WorksOnNobody DEF Acting
<1>15. Settled(k', exists', pc', target', t, u)
  BY <1>2, <1>3, <1>4, <1>7, <1>11, <1>13, <1>14 DEF Settled, Acting
<1>16. Fit(k', exists', pc', target')
  BY <1>1, <1>2, <1>12, <1>15, TouchKeeps
<1>17. CurOK(k', pc')
  BY <1>1, <1>2, <1>3, <1>6, <1>7, <1>11 DEF CurOK
<1>18. PreemptOK(k', pc')
  BY <1>1, <1>2, <1>3, <1>6, <1>7, <1>8, PreemptStays
<1> QED
  BY <1>2, <1>6, <1>16, <1>17, <1>18 DEF LifeInv

\* Nobody but t works on u, and t works on nobody else.
Hands(G, t, u) ==
    /\ G[t] \in {Idle, u}
    /\ \A v \in Thread \ {t} : G[v] # u
    /\ u # t => G[u] = Idle

\* A step of the thread t that has the processor and works on u: it goes on to l, and
\* works on w then.
Step(r, F, Q, H, t, u, l, w) ==
    /\ t = k.cur /\ Hands(target, t, u) /\ Only(k, r, u)
    /\ F \subseteq Thread /\ \A v \in Thread \ {u} : v \in F <=> v \in exists
    /\ l \in Location /\ w \in {Idle, u}
    /\ Q = [pc EXCEPT ![t] = l] /\ H = [target EXCEPT ![t] = w]
    /\ LinkOK(r, F, Q, H, u) /\ WorkOK(r, F, Q, H, t)
    /\ u \notin F => r.stat[u] = "CLOSE" /\ (r.cur = u => u \in Static)
    /\ u \in F /\ r.stat[u] = "CLOSE" =>
          Linked(r, defunct, u) \/ (w = u /\ l \in {"enqueue", "cleanup", "free"})

LEMMA StepKeeps ==
    ASSUME LifeInv, NEW t \in Thread, NEW u \in App,
           NEW r, NEW F, NEW Q, NEW H, NEW l, NEW w, Step(r, F, Q, H, t, u, l, w)
    PROVE  Fit(r, F, Q, H)
<1>1. /\ pc \in [Thread -> Location] /\ target \in [Thread -> Thread]
      /\ Fit(k, exists, pc, target) /\ u \in Thread /\ u # Idle /\ Idle \in Thread
  BY LifeTypes, KernelAssumption DEF App
<1>2. /\ Q \in [Thread -> Location] /\ H \in [Thread -> Thread] /\ Q[t] = l /\ H[t] = w
      /\ \A v \in Thread \ {t} : Q[v] = pc[v] /\ H[v] = target[v]
  BY <1>1 DEF Step
<1>3. u # t => pc[u] \notin Acting
  BY <1>1 DEF Fit, WorkOK, Hands, Step
<1>4. Touches(k, exists, pc, target, r, F, Q, H, t, u)
  BY <1>1, <1>2, <1>3 DEF Touches, Hands, Step
<1>5. Settled(r, F, Q, H, t, u)
  BY <1>1, <1>2, <1>3 DEF Settled, Hands, Acting, Step
<1> QED
  BY <1>1, <1>4, <1>5, TouchKeeps

\* A thread that another one may work on.
LEMMA ExclusiveHands ==
    ASSUME LifeInv, NEW t \in Thread, NEW u \in App, target[t] = Idle, Exclusive(u)
    PROVE  /\ Hands(target, t, u) /\ Alone(target, u) /\ target[u] = Idle /\ pc[u] \notin Acting
           /\ \A Q : ~ Hidden(Q, target, u)
<1>1. target[u] = Idle /\ \A v \in Thread : target[v] # u
  BY DEF Exclusive
<1>2. pc[u] \notin Acting
  BY <1>1, LifeTypes DEF Fit, WorkOK, App
<1> QED
  BY <1>1, <1>2 DEF Hands, Alone, Hidden

\* rt_thread_suspend_with_flag
LEMMA SuspendOnly ==
    ASSUME NEW s, Plain(s), NEW u \in Thread, NEW flag \in SuspendFlag,
           \A p \in Prio : Linked(s, p, u) => p = s.prio[u],
           NEW r, r = rt_thread_suspend_with_flag(s, u, flag)
    PROVE  Only(s, r, u) /\ r.timer = s.timer \ {u} /\ r.stat[u] = flag /\ Nowhere(r, u)
<1>1. PICK a : a = rt_schedule_remove_thread(s, u)
  OBVIOUS
<1>2. Only(s, a, u) /\ a.timer = s.timer /\ Nowhere(a, u)
  BY <1>1, RemoveOnly
<1>3. Plain(a) /\ a.timer \subseteq Thread
  BY <1>2, OnlyPlain DEF Plain, KernelState
<1>4. PICK b : b = [a EXCEPT !.stat[u] = flag]
  OBVIOUS
<1>5. /\ Only(a, b, u) /\ b.timer = a.timer /\ b.stat[u] = flag
      /\ \A l \in Prio \cup Queue : Linked(b, l, u) <=> Linked(a, l, u)
  BY <1>3, <1>4, StatOnly DEF Stat
<1>6. Plain(b)
  BY <1>5, OnlyPlain
<1>7. r = [b EXCEPT !.timer = b.timer \ {u}]
  BY <1>1, <1>3, <1>4 DEF rt_thread_suspend_with_flag, Plain, KernelState
<1>8. /\ Only(b, r, u) /\ r.timer = b.timer \ {u} /\ r.stat = b.stat
      /\ \A l \in Prio \cup Queue : Linked(r, l, u) <=> Linked(b, l, u)
  BY <1>3, <1>5, <1>6, <1>7, TimerOnly
<1>9. Only(s, b, u)
  BY <1>2, <1>5, OnlyTwice
<1>10. Only(s, r, u)
  BY <1>8, <1>9, OnlyTwice
<1> QED
  BY <1>2, <1>5, <1>8, <1>10 DEF Nowhere

LEMMA SuspendKeeps ==
    ASSUME LifeInv, NEW t \in App, NEW u \in App, Suspend(t, u)
    PROVE  LifeInv'
<1>1. /\ t = k.cur /\ t \in Thread /\ pc[t] = "run" /\ k.stat[t] = "RUNNING" /\ t \in exists
      /\ target[t] = Idle
  BY AtRun DEF Suspend
<1>2. /\ Plain(k) /\ exists \subseteq Thread
      /\ pc \in [Thread -> Location] /\ target \in [Thread -> Thread]
      /\ k.lock \in 0 .. NestMax /\ k.timer \subseteq Thread /\ Fit(k, exists, pc, target)
  BY LifeTypes
<1>3. /\ u \in Thread /\ u \in exists /\ Exclusive(u) /\ u # Idle
      /\ u = t => k.lock = 0
      /\ k' = rt_thread_suspend_with_flag(k, u, "UNINTERRUPTIBLE")
      /\ pc' = [pc EXCEPT ![t] = "resched"] /\ exists' = exists /\ target' = target
  BY DEF Suspend, Goto, App
<1>4. Hands(target, t, u)
  BY <1>1, <1>3, ExclusiveHands
<1>5. \A p \in Prio : Linked(k, p, u) => p = k.prio[u]
  BY <1>2, <1>3 DEF Fit, LinkOK
<1>6. /\ Only(k, k', u) /\ k'.timer = k.timer \ {u} /\ k'.stat[u] = "UNINTERRUPTIBLE"
      /\ Nowhere(k', u)
  BY <1>2, <1>3, <1>5, SuspendOnly DEF SuspendFlag
<1>7. /\ k'.cur = k.cur /\ k'.lock = k.lock
      /\ \A v \in Thread \ {u} : k'.stat[v] = k.stat[v]
  BY <1>6 DEF Only
<1>8. LinkOK(k', exists', pc', target', u)
  BY <1>6, LinkNowhere DEF Active
<1>9. pc'[t] = "resched" /\ target' = [target EXCEPT ![t] = Idle]
  BY <1>1, <1>2, <1>3
<1>10. WorkOK(k', exists', pc', target', t)
  BY <1>1, <1>3, <1>9, WorksOnNobody DEF Acting, App
<1>11. Fit(k', exists', pc', target')
  <2>1. Step(k', exists', pc', target', t, u, "resched", Idle)
    BY <1>1, <1>2, <1>3, <1>4, <1>6, <1>8, <1>9, <1>10 DEF Step, Location
  <2> QED
    BY <2>1, <1>1, StepKeeps
<1>12. CurOK(k', pc')
  BY <1>1, <1>3, <1>6, <1>7, <1>9 DEF CurOK, Suspended, SuspendFlag
<1>13. PreemptOK(k', pc')
  BY <1>1, <1>7, <1>9 DEF PreemptOK
<1> QED
  BY <1>2, <1>7, <1>11, <1>12, <1>13 DEF LifeInv

LEMMA SleepKeeps ==
    ASSUME LifeInv, NEW t \in App, Sleep(t)
    PROVE  LifeInv'
<1>1. /\ t = k.cur /\ t \in Thread /\ pc[t] = "run" /\ k.stat[t] = "RUNNING" /\ t \in exists
      /\ target[t] = Idle /\ Nowhere(k, t) /\ Alone(target, t)
  BY AtRun DEF Sleep
<1>2. /\ Plain(k) /\ exists \subseteq Thread
      /\ pc \in [Thread -> Location] /\ target \in [Thread -> Thread]
      /\ k.lock \in 0 .. NestMax /\ k.timer \subseteq Thread /\ Fit(k, exists, pc, target)
  BY LifeTypes
<1>3. /\ t # Idle /\ k.lock = 0 /\ k' = rt_thread_sleep(k, t)
      /\ pc' = [pc EXCEPT ![t] = "sleeping"] /\ exists' = exists /\ target' = target
  BY DEF Sleep, Goto, App
<1>4. Hands(target, t, t)
  BY <1>1 DEF Hands, Alone
<1>5. k.sig[t] = {}
  BY <1>1, <1>2 DEF Fit, FixedOK
<1>6. MaySuspend(k, t, "INTERRUPTIBLE")
  BY <1>1, <1>5 DEF MaySuspend, SignalForbidsSuspend
<1>7. PICK a : a = rt_thread_suspend_with_flag(k, t, "INTERRUPTIBLE")
  OBVIOUS
<1>8. Only(k, a, t) /\ a.timer = k.timer \ {t} /\ a.stat[t] = "INTERRUPTIBLE" /\ Nowhere(a, t)
  BY <1>1, <1>2, <1>7, SuspendOnly DEF SuspendFlag, Nowhere
<1>9. Plain(a) /\ a.timer \cup {t} \in SUBSET Thread
  BY <1>1, <1>2, <1>8, OnlyPlain
<1>10. k' = [a EXCEPT !.timer = a.timer \cup {t}]
  BY <1>3, <1>6, <1>7 DEF rt_thread_sleep
<1>11. /\ Only(a, k', t) /\ k'.stat = a.stat
       /\ \A l \in Prio \cup Queue : Linked(k', l, t) <=> Linked(a, l, t)
  <2>1. \A v \in Thread \ {t} : v \in a.timer \cup {t} <=> v \in a.timer
    OBVIOUS
  <2> QED
    BY <2>1, <1>1, <1>9, <1>10, TimerOnly
<1>12. Only(k, k', t) /\ k'.stat[t] = "INTERRUPTIBLE" /\ Nowhere(k', t)
  BY <1>1, <1>8, <1>11, OnlyTwice DEF Nowhere
<1>13. k'.cur = k.cur /\ k'.lock = k.lock
  BY <1>12 DEF Only
<1>14. LinkOK(k', exists', pc', target', t)
  <2>1. TimerLeft(pc', target', t)
    BY <1>1, <1>3 DEF TimerLeft, Alone
  <2> QED
    BY <2>1, <1>3, <1>12, LinkNowhere DEF Active, Suspended, SuspendFlag
<1>15. pc'[t] = "sleeping" /\ target' = [target EXCEPT ![t] = Idle]
  BY <1>1, <1>2, <1>3
<1>16. WorkOK(k', exists', pc', target', t)
  BY <1>1, <1>3, <1>15, WorksOnNobody DEF Acting
<1>17. Fit(k', exists', pc', target')
  <2>1. Step(k', exists', pc', target', t, t, "sleeping", Idle)
    BY <1>1, <1>2, <1>3, <1>4, <1>12, <1>14, <1>15, <1>16 DEF Step, Location
  <2> QED
    BY <2>1, <1>1, StepKeeps
<1>18. CurOK(k', pc')
  BY <1>1, <1>3, <1>12, <1>13, <1>15 DEF CurOK, Suspended, SuspendFlag
<1>19. PreemptOK(k', pc')
  BY <1>1, <1>12, <1>13 DEF PreemptOK
<1> QED
  BY <1>2, <1>13, <1>17, <1>18, <1>19 DEF LifeInv

LEMMA StartupKeeps ==
    ASSUME LifeInv, NEW t \in App, NEW u \in App, Startup(t, u)
    PROVE  LifeInv'
<1>1. /\ t = k.cur /\ t \in Thread /\ t # Idle /\ pc[t] = "run" /\ k.stat[t] = "RUNNING"
      /\ t \in exists /\ target[t] = Idle
  BY AtRun DEF Startup, App
<1>2. /\ Plain(k) /\ k \in KernelState /\ exists \subseteq Thread /\ k.prio = InitPrio
      /\ pc \in [Thread -> Location] /\ target \in [Thread -> Thread] /\ PreemptOK(k, pc)
      /\ k.lock \in 0 .. NestMax /\ Fit(k, exists, pc, target)
  BY LifeTypes
<1>3. /\ u \in Thread /\ u \in exists /\ Exclusive(u) /\ u # Idle /\ k.stat[u] = "INIT"
      /\ k' = [k EXCEPT !.prio[u] = InitPrio[u], !.stat[u] = "INTERRUPTIBLE"]
      /\ pc' = [pc EXCEPT ![t] = "resume2"] /\ exists' = exists
      /\ target' = [target EXCEPT ![t] = u]
  BY DEF Startup, Goto, Aim, App
<1>4. /\ Hands(target, t, u) /\ target[u] = Idle /\ u # t
      /\ \A v \in Thread : target[v] # u
  BY <1>1, <1>3, ExclusiveHands DEF Exclusive
<1>5. Nowhere(k, u) /\ u \notin k.timer
  BY <1>2, <1>3 DEF Fit, LinkOK, Nowhere, Suspended, SuspendFlag
<1>6. k' = [k EXCEPT !.stat[u] = "INTERRUPTIBLE"]
  BY <1>2, <1>3, KernelAssumption DEF KernelState
<1>7. /\ Only(k, k', u) /\ k'.timer = k.timer /\ k'.stat[u] = "INTERRUPTIBLE"
      /\ \A l \in Prio \cup Queue : Linked(k', l, u) <=> Linked(k, l, u)
  BY <1>2, <1>3, <1>6, StatOnly DEF Stat, SuspendFlag
<1>8. /\ k'.cur = k.cur /\ k'.lock = k.lock /\ k'.prio = k.prio
      /\ k'.stat[t] = k.stat[t] /\ Suspended(k', u) /\ Nowhere(k', u)
      /\ \A v \in Thread : \A p \in Prio : Linked(k', p, v) => Linked(k, p, v)
  BY <1>1, <1>4, <1>5, <1>7 DEF Only, Regular, Suspended, SuspendFlag, Nowhere
<1>9. pc'[t] = "resume2" /\ target'[t] = u /\ \A v \in Thread \ {t} : target'[v] = target[v]
  BY <1>1, <1>2, <1>3
<1>10. LinkOK(k', exists', pc', target', u)
  BY <1>5, <1>7, <1>8, LinkNowhere DEF Active
<1>11. WorkOn(k', exists', target', t, "resume2", u)
  BY <1>1, <1>3, <1>4, <1>8, <1>9 DEF WorkOn, Active
<1>12. WorkOK(k', exists', pc', target', t)
  BY <1>1, <1>3, <1>9, <1>11 DEF WorkOK, Acting
<1>13. k'.stat[u] # "CLOSE"
  BY <1>7
<1>14. Step(k', exists', pc', target', t, u, "resume2", u)
  BY <1>1, <1>2, <1>3, <1>4, <1>7, <1>10, <1>12, <1>13 DEF Step, Location
<1>15. Fit(k', exists', pc', target')
  BY <1>14, <1>1, StepKeeps
<1>16. CurOK(k', pc')
  BY <1>1, <1>8, <1>9 DEF CurOK
<1>17. PreemptOK(k', pc')
  BY <1>1, <1>2, <1>8, PreemptStays
<1> QED
  BY <1>2, <1>8, <1>15, <1>16, <1>17 DEF LifeInv

\* A step that leaves the kernel alone.
LEMMA AimKeeps ==
    ASSUME LifeInv, NEW t \in App, At(t, "run"), NEW u \in App, Exclusive(u), u \in exists,
           NEW l \in Acting, pc' = [pc EXCEPT ![t] = l], target' = [target EXCEPT ![t] = u],
           k' = k, exists' = exists,
           LinkOK(k, exists, pc', target', u), WorkOn(k, exists, target', t, l, u),
           k.stat[u] # "CLOSE", l \notin {"cleanup", "free"}
    PROVE  LifeInv'
<1>1. /\ t = k.cur /\ t \in Thread /\ t # Idle /\ pc[t] = "run" /\ k.stat[t] = "RUNNING"
      /\ target[t] = Idle
  BY AtRun DEF App
<1>2. /\ Plain(k) /\ exists \subseteq Thread /\ PreemptOK(k, pc)
      /\ pc \in [Thread -> Location] /\ target \in [Thread -> Thread]
      /\ k.lock \in 0 .. NestMax
  BY LifeTypes
<1>3. Hands(target, t, u) /\ u \in Thread /\ u # Idle
  BY <1>1, ExclusiveHands DEF App
<1>4. pc'[t] = l /\ target'[t] = u /\ l \in Location
  BY <1>1, <1>2 DEF Acting, Location
<1>5. WorkOK(k', exists', pc', target', t)
  BY <1>1, <1>3, <1>4 DEF WorkOK
<1>6. Only(k, k', u)
  BY <1>2, NoChange
<1>7. Step(k', exists', pc', target', t, u, l, u)
  BY <1>1, <1>2, <1>3, <1>4, <1>5, <1>6 DEF Step
<1>8. Fit(k', exists', pc', target')
  BY <1>7, <1>1, StepKeeps
<1>9. CurOK(k', pc')
  BY <1>1, <1>4 DEF CurOK, Acting
<1>10. PreemptOK(k', pc')
  BY <1>1, <1>2, PreemptStays
<1> QED
  BY <1>2, <1>8, <1>9, <1>10 DEF LifeInv

LEMMA ResumeTestsKeeps ==
    ASSUME LifeInv, NEW t \in App, NEW u \in App, ResumeTests(t, u)
    PROVE  LifeInv'
<1>1. /\ t = k.cur /\ t \in Thread /\ k.stat[t] = "RUNNING" /\ target[t] = Idle
  BY AtRun DEF ResumeTests
<1>2. /\ Fit(k, exists, pc, target) /\ pc \in [Thread -> Location]
      /\ target \in [Thread -> Thread]
  BY LifeTypes
<1>3. /\ u \in Thread /\ u \in exists /\ Exclusive(u) /\ Suspended(k, u)
      /\ At(t, "run") /\ k' = k /\ exists' = exists
      /\ pc' = [pc EXCEPT ![t] = "resume2"] /\ target' = [target EXCEPT ![t] = u]
  BY DEF ResumeTests, Goto, Aim, App
<1>4. target[u] = Idle /\ \A v \in Thread : target[v] # u
  BY <1>3 DEF Exclusive
<1>5. k.stat[u] \in SuspendFlag /\ u # t
  BY <1>1, <1>3 DEF Suspended, SuspendFlag
<1>6. Nowhere(k, u)
  BY <1>2, <1>3, <1>5 DEF Fit, LinkOK, Nowhere, SuspendFlag
<1>7. LinkOK(k, exists, pc', target', u)
  <2>1. TimerLeft(pc', target', u)
    BY <1>1, <1>2, <1>3, <1>4 DEF TimerLeft
  <2> QED
    BY <2>1, <1>3, <1>5, <1>6, LinkNowhere DEF Active, SuspendFlag
<1>8. WorkOn(k, exists, target', t, "resume2", u)
  BY <1>1, <1>2, <1>3, <1>4, <1>5 DEF WorkOn, Active
<1>9. k.stat[u] # "CLOSE" /\ "resume2" \in Acting
  BY <1>5 DEF SuspendFlag, Acting
<1> QED
  BY <1>3, <1>7, <1>8, <1>9, AimKeeps

LEMMA CloseTestsKeeps ==
    ASSUME LifeInv, NEW t \in App, NEW u \in App, CloseTests(t, u)
    PROVE  LifeInv'
<1>1. /\ t = k.cur /\ t \in Thread /\ k.stat[t] = "RUNNING" /\ target[t] = Idle
  BY AtRun DEF CloseTests
<1>2. /\ Fit(k, exists, pc, target) /\ pc \in [Thread -> Location]
      /\ target \in [Thread -> Thread]
  BY LifeTypes
<1>3. PICK l : l = IF k.stat[u] = "INIT" THEN "untimer" ELSE "remove"
  OBVIOUS
<1>4. /\ u \in Thread /\ u \in exists /\ Exclusive(u) /\ k.stat[u] # "CLOSE"
      /\ At(t, "run") /\ k' = k /\ exists' = exists
      /\ pc' = [pc EXCEPT ![t] = l] /\ target' = [target EXCEPT ![t] = u]
      /\ u = t => k.lock > 0 \/ u \notin Static
      /\ u # t => k.lock > 0 \/ k.prio[t] < k.prio[u]
  BY <1>3 DEF CloseTests, Goto, Aim, App, MayStop
<1>5. target[u] = Idle /\ \A v \in Thread : target[v] # u
  BY <1>4 DEF Exclusive
<1>6. LinkOK(k, exists, pc, target, u) /\ ~ Hidden(pc, target, u)
  BY <1>2, <1>4, <1>5 DEF Fit, Hidden
<1>7. pc'[t] = l /\ \A v \in Thread \ {t} : target'[v] = target[v] /\ target'[v] # u
  BY <1>1, <1>2, <1>4, <1>5
<1>8. Hidden(pc', target', u) => k.stat[u] = "INIT"
  BY <1>3, <1>7 DEF Hidden
<1>9. LinkOK(k, exists, pc', target', u)
  <2>1. TimerLeft(pc', target', u)
    BY <1>3, <1>7 DEF TimerLeft
  <2>2. \A q \in Queue : ~ Linked(k, q, u)
    BY <1>4, <1>6 DEF LinkOK
  <2> QED
    BY <2>1, <2>2, <1>4, <1>6, <1>8 DEF LinkOK
<1>10. WorkOn(k, exists, target', t, l, u)
  BY <1>1, <1>3, <1>4, <1>5, <1>7 DEF WorkOn, Active, Keeps
<1>11. l \in Acting /\ l \notin {"cleanup", "free"}
  BY <1>3 DEF Acting
<1> QED
  BY <1>4, <1>9, <1>10, <1>11, AimKeeps

\* A thread that works on another one, or closes itself.
LEMMA AtWork ==
    ASSUME LifeInv, NEW t \in Thread, NEW l \in Acting, At(t, l), NEW u, u = target[t]
    PROVE  /\ t = k.cur /\ pc[t] = l /\ u \in App /\ u \in Thread /\ u # Idle /\ u \in exists
           /\ Hands(target, t, u) /\ WorkOn(k, exists, target, t, l, u)
           /\ LinkOK(k, exists, pc, target, u)
           /\ u \in k.timer => l \in {"resume2", "remove", "untimer"}
           /\ \A v \in Thread \ {t} : target[v] # u
           /\ u # t => k.stat[t] = "RUNNING" /\ target[u] = Idle /\ u # k.cur
           /\ k.stat[t] # "RUNNING" => k.stat[t] = "CLOSE" /\ l = "enqueue" /\ k.lock > 0
<1>1. /\ Fit(k, exists, pc, target) /\ target \in [Thread -> Thread] /\ CurOK(k, pc)
      /\ t = k.cur /\ pc[t] = l
  BY LifeTypes DEF At
<1>2. WorkOK(k, exists, pc, target, t) /\ u \in Thread
  BY <1>1 DEF Fit
<1>3. u # Idle /\ WorkOn(k, exists, target, t, l, u)
  BY <1>1, <1>2 DEF WorkOK
<1>4. /\ u \in exists /\ \A v \in Thread \ {t} : target[v] # u
      /\ u # t => target[u] = Idle /\ u # k.cur /\ k.stat[t] \in Active
  BY <1>3 DEF WorkOn
<1>5. LinkOK(k, exists, pc, target, u)
  BY <1>1, <1>2 DEF Fit
<1>6. u \in k.timer => l \in {"resume2", "remove", "untimer"}
  BY <1>1, <1>5 DEF LinkOK, TimerLeft
<1>7. k.stat[t] # "RUNNING" => k.stat[t] = "CLOSE" /\ l = "enqueue" /\ k.lock > 0
  BY <1>1 DEF CurOK, Acting
<1>8. u # t => k.stat[t] = "RUNNING"
  BY <1>4, <1>7 DEF Active
<1> QED
  BY <1>1, <1>2, <1>3, <1>4, <1>5, <1>6, <1>7, <1>8 DEF Hands, App

\* A step of a thread at work that makes no thread ready: what is left to show.
LEMMA WorkKeeps ==
    ASSUME LifeInv, NEW t \in App, NEW l \in Acting, At(t, l), NEW u, u = target[t],
           NEW m \in Acting, m \notin {"cleanup", "free"},
           pc' = [pc EXCEPT ![t] = m], target' = target, exists' = exists,
           Only(k, k', u), LinkOK(k', exists, pc', target, u), WorkOn(k', exists, target, t, m, u),
           \A p \in Prio : Linked(k', p, u) => Linked(k, p, u),
           k'.stat[u] = "CLOSE" => m = "enqueue",
           u = t => \/ k'.stat[u] = "RUNNING" /\ k.stat[u] = "RUNNING"
                    \/ k'.stat[u] = "CLOSE" /\ m = "enqueue" /\ k.lock > 0
    PROVE  LifeInv'
<1>1. /\ t = k.cur /\ pc[t] = l /\ u \in App /\ u \in Thread /\ u # Idle /\ u \in exists
      /\ Hands(target, t, u) /\ t \in Thread /\ t # Idle
      /\ u # t => k.stat[t] = "RUNNING"
  BY AtWork DEF App
<1>2. /\ pc \in [Thread -> Location] /\ target \in [Thread -> Thread] /\ PreemptOK(k, pc)
      /\ k.lock \in 0 .. NestMax /\ exists \subseteq Thread
  BY LifeTypes
<1>3. pc'[t] = m /\ m \in Location /\ target' = [target EXCEPT ![t] = u]
  BY <1>1, <1>2 DEF Acting, Location
<1>4. WorkOK(k', exists', pc', target', t)
  BY <1>1, <1>3 DEF WorkOK
<1>5. Step(k', exists', pc', target', t, u, m, u)
  BY <1>1, <1>2, <1>3, <1>4 DEF Step
<1>6. Fit(k', exists', pc', target')
  BY <1>5, <1>1, StepKeeps
<1>7. /\ k'.cur = k.cur /\ k'.lock = k.lock /\ k'.prio = k.prio
      /\ \A v \in Thread \ {u} : k'.stat[v] = k.stat[v]
      /\ \A v \in Thread \ {u} : \A p \in Prio : Linked(k', p, v) <=> Linked(k, p, v)
  BY DEF Only, Regular
<1>8. CurOK(k', pc')
  BY <1>1, <1>3, <1>7 DEF CurOK, Acting
<1>9. k'.stat[t] = "RUNNING" => k.stat[t] = "RUNNING"
  BY <1>1, <1>7
<1>10. l # "resched"
  BY DEF Acting
<1>11. \A p \in Prio : \A v \in Thread : Linked(k', p, v) => Linked(k, p, v)
  BY <1>7
<1>12. PreemptOK(k', pc')
  BY <1>1, <1>2, <1>7, <1>9, <1>10, <1>11, PreemptStays
<1> QED
  BY <1>2, <1>6, <1>7, <1>8, <1>12 DEF LifeInv

LEMMA ResumeUnlinksKeeps ==
    ASSUME LifeInv, NEW t \in App, ResumeUnlinks(t)
    PROVE  LifeInv'
<1>1. PICK u : u = target[t]
  OBVIOUS
<1>2. t \in Thread /\ "resume2" \in Acting /\ At(t, "resume2")
  BY DEF App, Acting, ResumeUnlinks
<1>3. /\ t = k.cur /\ u \in App /\ u \in Thread /\ u \in exists
      /\ WorkOn(k, exists, target, t, "resume2", u)
      /\ LinkOK(k, exists, pc, target, u)
      /\ u # t => k.stat[t] = "RUNNING"
  BY <1>1, <1>2, AtWork
<1>4. /\ Plain(k) /\ pc \in [Thread -> Location] /\ k.timer \subseteq Thread
  BY LifeTypes
<1>5. /\ k' = [rt_list_remove(k, u) EXCEPT !.timer = @ \ {u}]
      /\ pc' = [pc EXCEPT ![t] = "resume3"] /\ exists' = exists /\ target' = target
  BY <1>1 DEF ResumeUnlinks, Goto
<1>6. Suspended(k, u) /\ u # t
  BY <1>3 DEF WorkOn
<1>7. Nowhere(k, u)
  BY <1>3, <1>6 DEF LinkOK, Nowhere, Suspended, SuspendFlag
<1>8. PICK a : a = rt_list_remove(k, u)
  OBVIOUS
<1>9. Only(k, a, u) /\ a.timer = k.timer /\ a.stat = k.stat /\ Nowhere(a, u)
  BY <1>3, <1>4, <1>7, <1>8, UnlinkOnly DEF Nowhere
<1>10. Plain(a) /\ a.timer \ {u} \in SUBSET Thread
  BY <1>4, <1>9, OnlyPlain
<1>11. k' = [a EXCEPT !.timer = a.timer \ {u}]
  BY <1>5, <1>8
<1>12. /\ Only(a, k', u) /\ k'.timer = a.timer \ {u} /\ k'.stat = a.stat
       /\ \A l \in Prio \cup Queue : Linked(k', l, u) <=> Linked(a, l, u)
  BY <1>3, <1>10, <1>11, TimerOnly
<1>13. Only(k, k', u) /\ Nowhere(k', u) /\ k'.stat = k.stat /\ u \notin k'.timer
  BY <1>3, <1>9, <1>12, OnlyTwice DEF Nowhere
<1>14. k'.cur = k.cur /\ k'.lock = k.lock
  BY <1>13 DEF Only
<1>15. LinkOK(k', exists, pc', target, u)
  BY <1>3, <1>6, <1>13, LinkNowhere DEF Suspended, SuspendFlag, Active
<1>16. WorkOn(k', exists, target, t, "resume3", u)
  BY <1>3, <1>6, <1>13, <1>14 DEF WorkOn, Suspended
<1>17. k'.stat[u] # "CLOSE" /\ "resume3" \in Acting
  BY <1>6, <1>13 DEF Suspended, SuspendFlag, Acting
<1> QED
  BY <1>1, <1>2, <1>5, <1>6, <1>13, <1>15, <1>16, <1>17, WorkKeeps DEF Nowhere

LEMMA CloseRemovesKeeps ==
    ASSUME LifeInv, NEW t \in App, CloseRemoves(t)
    PROVE  LifeInv'
<1>1. PICK u : u = target[t]
  OBVIOUS
<1>2. t \in Thread /\ "remove" \in Acting /\ At(t, "remove")
  BY DEF App, Acting, CloseRemoves
<1>3. /\ t = k.cur /\ u \in App /\ u \in Thread /\ u \in exists
      /\ WorkOn(k, exists, target, t, "remove", u)
      /\ LinkOK(k, exists, pc, target, u)
      /\ u # t => k.stat[t] = "RUNNING" /\ u # k.cur
      /\ k.stat[t] = "RUNNING"
  BY <1>1, <1>2, AtWork
<1>4. Plain(k) /\ pc \in [Thread -> Location]
  BY LifeTypes
<1>5. /\ k' = rt_schedule_remove_thread(k, u)
      /\ pc' = [pc EXCEPT ![t] = "untimer"] /\ exists' = exists /\ target' = target
  BY <1>1 DEF CloseRemoves, Goto
<1>6. Only(k, k', u) /\ k'.timer = k.timer /\ k'.stat = k.stat /\ Nowhere(k', u)
  BY <1>3, <1>4, <1>5, RemoveOnly DEF LinkOK
<1>7. k'.cur = k.cur /\ k'.lock = k.lock /\ k'.prio = k.prio
  BY <1>6 DEF Only, Regular
<1>8. pc'[t] = "untimer"
  BY <1>2, <1>4, <1>5
<1>9. LinkOK(k', exists, pc', target, u)
  <2>1. u \in k'.timer => Suspended(k', u) /\ TimerLeft(pc', target, u)
    BY <1>3, <1>5, <1>6, <1>8 DEF LinkOK, TimerLeft, WorkOn, Suspended
  <2>2. CASE u = t
    BY <2>1, <2>2, <1>3, <1>6, <1>7, LinkRunning DEF Suspended, SuspendFlag
  <2>3. CASE u # t /\ k.stat[u] = "READY"
    <3>1. Hidden(pc', target, u)
      BY <2>3, <1>1, <1>2, <1>8 DEF Hidden
    <3> QED
      BY <3>1, <2>1, <2>3, <1>3, <1>6, <1>7, LinkHidden DEF Suspended, SuspendFlag
  <2>4. CASE u # t /\ k.stat[u] # "READY"
    <3>1. k.stat[u] # "RUNNING"
      BY <2>4, <1>3 DEF LinkOK
    <3> QED
      BY <3>1, <2>1, <2>4, <1>3, <1>6, LinkNowhere DEF Active
  <2> QED
    BY <2>2, <2>3, <2>4
<1>10. WorkOn(k', exists, target, t, "untimer", u)
  BY <1>3, <1>6, <1>7 DEF WorkOn, Keeps
<1>11. k'.stat[u] # "CLOSE" /\ "untimer" \in Acting
  BY <1>10 DEF WorkOn, Acting
<1> QED
  BY <1>1, <1>2, <1>3, <1>5, <1>6, <1>9, <1>10, <1>11, WorkKeeps DEF Nowhere

LEMMA CloseDetachesTimerKeeps ==
    ASSUME LifeInv, NEW t \in App, CloseDetachesTimer(t)
    PROVE  LifeInv'
<1>1. PICK u : u = target[t]
  OBVIOUS
<1>2. t \in Thread /\ "untimer" \in Acting /\ At(t, "untimer")
  BY DEF App, Acting, CloseDetachesTimer
<1>3. /\ t = k.cur /\ u \in App /\ u \in Thread /\ u \in exists
      /\ WorkOn(k, exists, target, t, "untimer", u)
      /\ LinkOK(k, exists, pc, target, u)
      /\ k.stat[t] = "RUNNING" /\ pc[t] = "untimer"
  BY <1>1, <1>2, AtWork
<1>4. Plain(k) /\ pc \in [Thread -> Location] /\ k.timer \subseteq Thread
  BY LifeTypes
<1>5. /\ k' = [k EXCEPT !.timer = k.timer \ {u}]
      /\ pc' = [pc EXCEPT ![t] = "close"] /\ exists' = exists /\ target' = target
  BY <1>1 DEF CloseDetachesTimer, Goto
<1>6. /\ Only(k, k', u) /\ k'.timer = k.timer \ {u} /\ k'.stat = k.stat
      /\ \A l \in Prio \cup Queue : Linked(k', l, u) <=> Linked(k, l, u)
  BY <1>3, <1>4, <1>5, TimerOnly
<1>7. k'.cur = k.cur /\ k'.lock = k.lock /\ k'.prio = k.prio
  BY <1>6 DEF Only, Regular
<1>8. pc'[t] = "close" /\ \A v \in Thread \ {t} : pc'[v] = pc[v]
  BY <1>2, <1>4, <1>5
<1>9. LinkOK(k', exists, pc', target, u)
  <2>1. Hidden(pc', target, u) <=> Hidden(pc, target, u)
    BY <1>3, <1>8 DEF Hidden
  <2> QED
    BY <2>1, <1>3, <1>6, <1>7 DEF LinkOK, Suspended
<1>10. WorkOn(k', exists, target, t, "close", u)
  BY <1>3, <1>6, <1>7 DEF WorkOn, Keeps
<1>11. k'.stat[u] # "CLOSE" /\ "close" \in Acting
  BY <1>10 DEF WorkOn, Acting
<1> QED
  BY <1>1, <1>2, <1>3, <1>5, <1>6, <1>9, <1>10, <1>11, WorkKeeps

\* Before a thread is closed it is in no list.
LEMMA AtClose ==
    ASSUME LifeInv, NEW t \in App, At(t, "close"), NEW u, u = target[t]
    PROVE  Nowhere(k, u) /\ k.stat[t] = "RUNNING"
<1>1. t \in Thread /\ "close" \in Acting
  BY DEF App, Acting
<1>2. /\ t = k.cur /\ u \in Thread /\ WorkOn(k, exists, target, t, "close", u)
      /\ LinkOK(k, exists, pc, target, u)
      /\ k.stat[t] = "RUNNING" /\ pc[t] = "close"
  BY <1>1, AtWork
<1>3. u # t => Hidden(pc, target, u)
  BY <1>1, <1>2 DEF Hidden
<1>4. k.stat[u] # "CLOSE"
  BY <1>2 DEF WorkOn
<1> QED
  BY <1>2, <1>3, <1>4 DEF LinkOK, Nowhere

LEMMA DetachClosesKeeps ==
    ASSUME LifeInv, NEW t \in App, DetachCloses(t)
    PROVE  LifeInv'
<1>1. PICK u : u = target[t]
  OBVIOUS
<1>2. t \in Thread /\ "close" \in Acting /\ At(t, "close")
  BY DEF App, Acting, DetachCloses
<1>3. /\ t = k.cur /\ u \in App /\ u \in Thread /\ u \in exists /\ u \notin k.timer
      /\ WorkOn(k, exists, target, t, "close", u)
  BY <1>1, <1>2, AtWork
<1>4. Plain(k) /\ Nowhere(k, u) /\ k.stat[t] = "RUNNING"
  BY <1>1, <1>2, LifeTypes, AtClose
<1>5. /\ k' = [k EXCEPT !.stat[u] = "CLOSE"] /\ u \in Static
      /\ pc' = [pc EXCEPT ![t] = "enqueue"] /\ exists' = exists /\ target' = target
  BY <1>1 DEF DetachCloses, Goto
<1>6. /\ Only(k, k', u) /\ k'.timer = k.timer /\ k'.stat[u] = "CLOSE"
      /\ \A l \in Prio \cup Queue : Linked(k', l, u) <=> Linked(k, l, u)
  BY <1>3, <1>4, <1>5, StatOnly DEF Stat
<1>7. /\ k'.cur = k.cur /\ k'.lock = k.lock /\ Nowhere(k', u)
      /\ u # t => k'.stat[t] = k.stat[t]
  BY <1>2, <1>4, <1>6 DEF Only, Regular, Nowhere
<1>8. LinkOK(k', exists, pc', target, u)
  BY <1>3, <1>6, <1>7, LinkNowhere DEF Active
<1>9. u = t => Keeps(k, t) /\ Keeps(k', t)
  BY <1>3, <1>5, <1>7 DEF WorkOn, Keeps
<1>10. WorkOn(k', exists, target, t, "enqueue", u)
  BY <1>3, <1>5, <1>6, <1>7, <1>9 DEF WorkOn, Nowhere
<1>11. u = t => k.lock > 0
  BY <1>9 DEF Keeps
<1>12. "enqueue" \in Acting
  BY DEF Acting
<1> QED
  BY <1>1, <1>2, <1>5, <1>6, <1>8, <1>10, <1>11, <1>12, WorkKeeps

\* A thread at work leaves u to itself and goes on to m: what is left to show.
LEMMA WorkEnds ==
    ASSUME LifeInv, NEW t \in App, NEW l \in Acting, At(t, l), NEW u, u = target[t],
           NEW m \in Location, m \notin Acting, m # "sleeping",
           pc' = [pc EXCEPT ![t] = m], target' = [target EXCEPT ![t] = Idle],
           exists' \subseteq Thread, \A v \in Thread \ {u} : v \in exists' <=> v \in exists,
           Only(k, k', u), LinkOK(k', exists', pc', target', u),
           u \notin exists' => k'.stat[u] = "CLOSE" /\ u \in Static,
           u \in exists' /\ k'.stat[u] = "CLOSE" => Linked(k', defunct, u),
           u = t => /\ k'.stat[u] = "CLOSE"
                    /\ m = IF k.lock = 0 THEN "resched" ELSE "dead",
           m = "resched" \/ \A p \in Prio : Linked(k', p, u) => Linked(k, p, u)
    PROVE  LifeInv'
<1>1. /\ t = k.cur /\ pc[t] = l /\ u \in App /\ u \in Thread /\ u # Idle /\ u \in exists
      /\ Hands(target, t, u) /\ t \in Thread /\ t # Idle
      /\ u # t => k.stat[t] = "RUNNING"
  BY AtWork DEF App
<1>2. /\ pc \in [Thread -> Location] /\ target \in [Thread -> Thread] /\ PreemptOK(k, pc)
      /\ k.lock \in 0 .. NestMax /\ Idle \in Thread
  BY LifeTypes, KernelAssumption
<1>3. pc'[t] = m /\ target'[t] = Idle
  BY <1>1, <1>2
<1>4. WorkOK(k', exists', pc', target', t)
  BY <1>1, <1>3, WorksOnNobody
<1>5. Step(k', exists', pc', target', t, u, m, Idle)
  BY <1>1, <1>2, <1>4 DEF Step
<1>6. Fit(k', exists', pc', target')
  BY <1>5, <1>1, StepKeeps
<1>7. /\ k'.cur = k.cur /\ k'.lock = k.lock /\ k'.prio = k.prio
      /\ \A v \in Thread \ {u} : k'.stat[v] = k.stat[v]
      /\ \A v \in Thread \ {u} : \A p \in Prio : Linked(k', p, v) <=> Linked(k, p, v)
  BY DEF Only, Regular
<1>8. CurOK(k', pc')
  BY <1>1, <1>2, <1>3, <1>7 DEF CurOK
<1>9. PreemptOK(k', pc')
  <2>1. CASE m = "resched" \/ u = t
    BY <2>1, <1>1, <1>3, <1>7 DEF PreemptOK
  <2>2. CASE m # "resched" /\ u # t
    <3>1. \A p \in Prio : \A v \in Thread : Linked(k', p, v) => Linked(k, p, v)
      BY <2>2, <1>7
    <3>2. l # "resched"
      BY DEF Acting
    <3> QED
      BY <3>1, <3>2, <2>2, <1>1, <1>2, <1>7, PreemptStays
  <2> QED
    BY <2>1, <2>2
<1> QED
  BY <1>2, <1>6, <1>7, <1>8, <1>9 DEF LifeInv

LEMMA ResumeInsertsKeeps ==
    ASSUME LifeInv, NEW t \in App, ResumeInserts(t)
    PROVE  LifeInv'
<1>1. PICK u : u = target[t]
  OBVIOUS
<1>2. t \in Thread /\ t # Idle /\ "resume3" \in Acting /\ At(t, "resume3")
  BY DEF App, Acting, ResumeInserts
<1>3. /\ t = k.cur /\ u \in App /\ u \in Thread /\ u # Idle /\ u \in exists /\ u \notin k.timer
      /\ WorkOn(k, exists, target, t, "resume3", u)
      /\ LinkOK(k, exists, pc, target, u)
      /\ \A v \in Thread \ {t} : target[v] # u
      /\ u # t => u # k.cur
  BY <1>1, <1>2, AtWork
<1>4. /\ Plain(k) /\ pc \in [Thread -> Location] /\ target \in [Thread -> Thread]
      /\ exists \subseteq Thread
  BY LifeTypes
<1>5. /\ k' = rt_schedule_insert_thread(k, u)
      /\ pc' = [pc EXCEPT ![t] = "resched"] /\ exists' = exists
      /\ target' = [target EXCEPT ![t] = Idle]
  BY <1>1 DEF ResumeInserts, Goto, Aim
<1>6. Suspended(k, u) /\ u # t /\ u # k.cur
  BY <1>3 DEF WorkOn
<1>7. Nowhere(k, u)
  BY <1>3, <1>6 DEF LinkOK, Nowhere, Suspended, SuspendFlag
<1>8. /\ Only(k, k', u) /\ k'.timer = k.timer /\ k'.stat[u] = "READY"
      /\ \A l \in Prio \cup Queue : Linked(k', l, u) <=> l = k.prio[u]
  BY <1>3, <1>4, <1>5, <1>6, <1>7, InsertOnly
<1>9. k'.cur = k.cur /\ k'.lock = k.lock /\ k'.prio = k.prio /\ k' \in KernelState
  BY <1>8 DEF Only, Regular
<1>10. ~ Hidden(pc', target', u)
  BY <1>2, <1>3, <1>4, <1>5 DEF Hidden
<1>11. LinkOK(k', exists', pc', target', u)
  BY <1>3, <1>6, <1>8, <1>9, <1>10, LinkReady
<1>12. "resched" \in Location /\ "resched" \notin Acting
  BY DEF Location, Acting
<1> QED
  BY <1>1, <1>2, <1>3, <1>4, <1>5, <1>6, <1>8, <1>11, <1>12, WorkEnds

\* Where CloseReturns goes.
LEMMA CloseReturnsTo ==
    ASSUME NEW t \in App, CloseReturns(t), NEW u, u = target[t]
    PROVE  \E m \in Location \ Acting :
              /\ m # "sleeping" /\ pc' = [pc EXCEPT ![t] = m]
              /\ target' = [target EXCEPT ![t] = Idle]
              /\ u = t => m = IF k.lock = 0 THEN "resched" ELSE "dead"
<1> DEFINE m == IF target[t] # t THEN "run" ELSE IF k.lock = 0 THEN "resched" ELSE "dead"
<1>1. m \in Location /\ m \notin Acting /\ m # "sleeping"
  BY DEF Location, Acting
<1>2. /\ pc' = [pc EXCEPT ![t] = m] /\ target' = [target EXCEPT ![t] = Idle]
      /\ u = t => m = IF k.lock = 0 THEN "resched" ELSE "dead"
  BY DEF CloseReturns, Aim, Goto
<1> HIDE DEF m
<1> QED
  BY <1>1, <1>2

LEMMA DeleteClosesKeeps ==
    ASSUME LifeInv, NEW t \in App, DeleteCloses(t)
    PROVE  LifeInv'
<1>1. PICK u : u = target[t]
  OBVIOUS
<1>2. t \in Thread /\ t # Idle /\ "close" \in Acting /\ At(t, "close")
  BY DEF App, Acting, DeleteCloses
<1>3. /\ t = k.cur /\ u \in App /\ u \in Thread /\ u # Idle /\ u \in exists /\ u \notin k.timer
      /\ \A v \in Thread \ {t} : target[v] # u
  BY <1>1, <1>2, AtWork
<1>4. /\ Plain(k) /\ target \in [Thread -> Thread] /\ exists \subseteq Thread
      /\ Nowhere(k, u)
  BY <1>1, <1>2, LifeTypes, AtClose
<1>5. PICK m \in Location \ Acting :
         /\ m # "sleeping" /\ pc' = [pc EXCEPT ![t] = m]
         /\ target' = [target EXCEPT ![t] = Idle]
         /\ u = t => m = IF k.lock = 0 THEN "resched" ELSE "dead"
  BY <1>1, CloseReturnsTo DEF DeleteCloses
<1>6. PICK a : a = [k EXCEPT !.stat[u] = "CLOSE"]
  OBVIOUS
<1>7. /\ Only(k, a, u) /\ a.timer = k.timer /\ a.stat[u] = "CLOSE"
      /\ \A l \in Prio \cup Queue : Linked(a, l, u) <=> Linked(k, l, u)
  BY <1>3, <1>4, <1>6, StatOnly DEF Stat
<1>8. Plain(a) /\ Nowhere(a, u)
  BY <1>4, <1>7, OnlyPlain DEF Nowhere
<1>9. k' = rt_thread_defunct_enqueue(a, u) /\ exists' = exists
  BY <1>1, <1>6 DEF DeleteCloses
<1>10. /\ Only(a, k', u) /\ k'.timer = a.timer /\ k'.stat = a.stat
       /\ \A l \in Prio \cup Queue : Linked(k', l, u) <=> l = defunct
  BY <1>3, <1>8, <1>9, EnqueueOnly
<1>11. Only(k, k', u) /\ k'.stat[u] = "CLOSE" /\ u \notin k'.timer
  BY <1>3, <1>7, <1>10, OnlyTwice
<1>12. Alone(target', u)
  BY <1>2, <1>3, <1>4, <1>5 DEF Alone
<1>13. LinkOK(k', exists', pc', target', u)
  BY <1>3, <1>9, <1>10, <1>11, <1>12, LinkDefunct
<1>14. Linked(k', defunct, u) /\ \A p \in Prio : ~ Linked(k', p, u)
  BY <1>10, ThreadsAssumption, KernelAssumption
<1>15. m \in Location /\ m \notin Acting
  BY <1>5
<1> QED
  BY <1>1, <1>2, <1>3, <1>4, <1>5, <1>9, <1>11, <1>13, <1>14, <1>15, WorkEnds

LEMMA DetachBuriesKeeps ==
    ASSUME LifeInv, NEW t \in App, DetachBuries(t)
    PROVE  LifeInv'
<1>1. PICK u : u = target[t]
  OBVIOUS
<1>2. t \in Thread /\ t # Idle /\ "enqueue" \in Acting /\ At(t, "enqueue")
  BY DEF App, Acting, DetachBuries
<1>3. /\ t = k.cur /\ u \in App /\ u \in Thread /\ u # Idle /\ u \in exists /\ u \notin k.timer
      /\ WorkOn(k, exists, target, t, "enqueue", u) /\ LinkOK(k, exists, pc, target, u)
      /\ \A v \in Thread \ {t} : target[v] # u
  BY <1>1, <1>2, AtWork
<1>4. Plain(k) /\ target \in [Thread -> Thread] /\ exists \subseteq Thread
  BY LifeTypes
<1>5. k.stat[u] = "CLOSE" /\ Nowhere(k, u) /\ u \in Static
  BY <1>3 DEF WorkOn, LinkOK, Nowhere
<1>6. PICK m \in Location \ Acting :
         /\ m # "sleeping" /\ pc' = [pc EXCEPT ![t] = m]
         /\ target' = [target EXCEPT ![t] = Idle]
         /\ u = t => m = IF k.lock = 0 THEN "resched" ELSE "dead"
  BY <1>1, CloseReturnsTo DEF DetachBuries
<1>7. m \in Location /\ m \notin Acting
  BY <1>6
<1>8. /\ k' = Bury(k, u)
      /\ exists' = IF JustDetached(u) THEN exists \ {u} ELSE exists
  BY <1>1 DEF DetachBuries
<1>9. exists' \subseteq Thread /\ \A v \in Thread \ {u} : v \in exists' <=> v \in exists
  BY <1>4, <1>8
<1>10. CASE JustDetached(u)
  <2>1. k' = k /\ u \notin exists'
    BY <1>8, <1>10 DEF Bury
  <2>2. Only(k, k', u)
    BY <2>1, <1>4, NoChange
  <2>3. LinkOK(k', exists', pc', target', u)
    BY <2>1, <1>3, <1>5, LinkNowhere DEF Active
  <2> QED
    BY <2>1, <2>2, <2>3, <1>1, <1>2, <1>5, <1>6, <1>7, <1>9, WorkEnds
<1>11. CASE ~ JustDetached(u)
  <2>1. k' = rt_thread_defunct_enqueue(k, u) /\ u \in exists'
    BY <1>3, <1>8, <1>11 DEF Bury
  <2>2. /\ Only(k, k', u) /\ k'.timer = k.timer /\ k'.stat = k.stat
        /\ \A l \in Prio \cup Queue : Linked(k', l, u) <=> l = defunct
    BY <2>1, <1>3, <1>4, <1>5, EnqueueOnly
  <2>3. Alone(target', u)
    BY <1>2, <1>3, <1>4, <1>6 DEF Alone
  <2>4. LinkOK(k', exists', pc', target', u)
    BY <2>1, <2>2, <2>3, <1>3, <1>5, LinkDefunct
  <2>5. Linked(k', defunct, u) /\ \A p \in Prio : ~ Linked(k', p, u)
    BY <2>2, ThreadsAssumption, KernelAssumption
  <2>6. k'.stat[u] = "CLOSE"
    BY <2>2, <1>5
  <2> QED
    BY <2>1, <2>2, <2>4, <2>5, <2>6, <1>1, <1>2, <1>6, <1>7, <1>9, WorkEnds
<1> QED
  BY <1>10, <1>11

\* A thread that is not active and that nobody works on works on nobody.
LEMMA RestsAlone ==
    ASSUME NEW s, NEW E, NEW P, NEW G, Fit(s, E, P, G), NEW u \in Thread,
           s.stat[u] \notin Active, Alone(G, u)
    PROVE  P[u] \notin Acting /\ G[u] = Idle
<1>1. WorkOK(s, E, P, G, u)
  BY DEF Fit
<1>2. P[u] \notin Acting
  <2>1. SUFFICES ASSUME P[u] \in Acting
                 PROVE  FALSE
    OBVIOUS
  <2>2. WorkOn(s, E, G, u, P[u], G[u]) /\ G[u] # u
    BY <2>1, <1>1 DEF WorkOK, Alone
  <2> QED
    BY <2>2 DEF WorkOn
<1> QED
  BY <1>1, <1>2 DEF WorkOK

\* A step of the idle thread.
LEMMA IdleKeeps ==
    ASSUME LifeInv, Idle = k.cur, pc[Idle] # "resched", NEW u \in App, Hands(target, Idle, u),
           NEW m \in {"run", "cleanup", "free"}, NEW w \in {Idle, u},
           pc' = [pc EXCEPT ![Idle] = m], target' = [target EXCEPT ![Idle] = w],
           exists' \subseteq Thread, \A v \in Thread \ {u} : v \in exists' <=> v \in exists,
           Only(k, k', u), LinkOK(k', exists', pc', target', u),
           WorkOK(k', exists', pc', target', Idle), k'.stat[u] = "CLOSE",
           u \in exists' => w = u /\ m \in {"cleanup", "free"},
           \A p \in Prio : ~ Linked(k', p, u)
    PROVE  LifeInv'
<1>1. /\ pc \in [Thread -> Location] /\ target \in [Thread -> Thread] /\ PreemptOK(k, pc)
      /\ k.lock \in 0 .. NestMax /\ Idle \in Thread /\ u \in Thread /\ u # Idle
      /\ Fit(k, exists, pc, target)
  BY LifeTypes, KernelAssumption DEF App
<1>2. k.stat[Idle] = "RUNNING"
  BY <1>1 DEF Fit, LinkOK, Active
<1>3. /\ k'.cur = k.cur /\ k'.lock = k.lock /\ k'.prio = k.prio
      /\ \A v \in Thread \ {u} : k'.stat[v] = k.stat[v]
      /\ \A v \in Thread \ {u} : \A p \in Prio : Linked(k', p, v) <=> Linked(k, p, v)
  BY DEF Only, Regular
<1>4. m \in Location /\ pc'[Idle] = m
  BY <1>1 DEF Location
<1>5. Step(k', exists', pc', target', Idle, u, m, w)
  BY <1>1, <1>3, <1>4 DEF Step
<1>6. Fit(k', exists', pc', target')
  BY <1>1, <1>5, StepKeeps
<1>7. CurOK(k', pc')
  BY <1>1, <1>2, <1>3, <1>4 DEF CurOK
<1>8. \A p \in Prio : \A v \in Thread : Linked(k', p, v) => Linked(k, p, v)
  BY <1>3
<1>9. PreemptOK(k', pc')
  BY <1>1, <1>2, <1>3, <1>8, PreemptStays
<1> QED
  BY <1>1, <1>3, <1>6, <1>7, <1>9 DEF LifeInv

LEMMA IdleDequeuesKeeps ==
    ASSUME LifeInv, IdleDequeues
    PROVE  LifeInv'
<1>1. PICK u : u = Head(k.list[defunct])
  OBVIOUS
<1>2. PICK m : m = IF u \in Cleanup THEN "cleanup" ELSE "free"
  OBVIOUS
<1>3. /\ Idle = k.cur /\ pc[Idle] = "run" /\ k.list[defunct] # <<>>
      /\ k' = rt_list_remove(k, u) /\ exists' = exists
      /\ pc' = [pc EXCEPT ![Idle] = m] /\ target' = [target EXCEPT ![Idle] = u]
  BY <1>1, <1>2 DEF IdleDequeues, At, Aim, Goto
<1>4. /\ Plain(k) /\ pc \in [Thread -> Location] /\ target \in [Thread -> Thread]
      /\ Idle \in Thread /\ exists \subseteq Thread /\ Fit(k, exists, pc, target)
  BY LifeTypes, KernelAssumption
<1>5. u \in Thread /\ Linked(k, defunct, u)
  <2>1. k.list[defunct] \in Seq(Thread)
    BY <1>4, ThreadsAssumption DEF Plain, KernelState
  <2> QED
    BY <2>1, <1>1, <1>3, HeadInList DEF Linked
<1>6. LinkOK(k, exists, pc, target, u) /\ LinkOK(k, exists, pc, target, Idle)
  BY <1>4, <1>5 DEF Fit
<1>7. k.stat[u] = "CLOSE" /\ u \in exists /\ Alone(target, u)
  BY <1>5, <1>6, ThreadsAssumption DEF LinkOK
<1>8. k.stat[Idle] \in Active
  BY <1>6 DEF LinkOK
<1>9. u # Idle /\ u \in App /\ u \notin k.timer /\ \A p \in Prio : ~ Linked(k, p, u)
  BY <1>5, <1>6, <1>7, <1>8 DEF LinkOK, Active, App, Suspended, SuspendFlag
<1>10. target[u] = Idle
  BY <1>4, <1>5, <1>7, RestsAlone DEF Active
<1>11. target[Idle] = Idle
  BY <1>3, <1>4 DEF Fit, WorkOK, Acting
<1>12. Hands(target, Idle, u)
  BY <1>7, <1>10, <1>11 DEF Hands, Alone
<1>13. Only(k, k', u) /\ k'.timer = k.timer /\ k'.stat = k.stat /\ Nowhere(k', u)
  BY <1>3, <1>4, <1>5, <1>9, UnlinkOnly
<1>14. k'.cur = k.cur
  BY <1>13 DEF Only
<1>15. LinkOK(k', exists', pc', target', u)
  BY <1>7, <1>9, <1>13, LinkNowhere DEF Active
<1>16. m \in {"cleanup", "free"} /\ m \in Acting
  BY <1>2 DEF Acting
<1>17. /\ pc'[Idle] = m /\ target'[Idle] = u /\ target'[u] = Idle
       /\ \A v \in Thread \ {Idle} : target'[v] # u
  BY <1>3, <1>4, <1>5, <1>7, <1>9, <1>10 DEF Alone
<1>18. WorkOn(k', exists', target', Idle, m, u)
  BY <1>3, <1>7, <1>8, <1>9, <1>13, <1>14, <1>16, <1>17 DEF WorkOn, Nowhere
<1>19. WorkOK(k', exists', pc', target', Idle)
  BY <1>9, <1>16, <1>17, <1>18 DEF WorkOK
<1> QED
  BY <1>3, <1>4, <1>7, <1>9, <1>12, <1>13, <1>15, <1>16, <1>19, IdleKeeps DEF Nowhere

LEMMA IdleCleansUpKeeps ==
    ASSUME LifeInv, IdleCleansUp
    PROVE  LifeInv'
<1>1. PICK u : u = target[Idle]
  OBVIOUS
<1>2. /\ At(Idle, "cleanup") /\ "cleanup" \in Acting /\ "free" \in Acting /\ Idle \in Thread
      /\ k' = k /\ exists' = exists /\ target' = target /\ pc' = [pc EXCEPT ![Idle] = "free"]
  BY KernelAssumption DEF IdleCleansUp, Acting, Goto
<1>3. /\ Idle = k.cur /\ pc[Idle] = "cleanup" /\ u \in App /\ u \in Thread /\ u # Idle
      /\ u \in exists /\ u \notin k.timer
      /\ Hands(target, Idle, u) /\ WorkOn(k, exists, target, Idle, "cleanup", u)
      /\ LinkOK(k, exists, pc, target, u)
  BY <1>1, <1>2, AtWork
<1>4. /\ Plain(k) /\ pc \in [Thread -> Location] /\ target \in [Thread -> Thread]
      /\ exists \subseteq Thread
  BY LifeTypes
<1>5. Only(k, k', u)
  BY <1>2, <1>4, NoChange
<1>6. k.stat[u] = "CLOSE" /\ Nowhere(k, u)
  BY <1>3 DEF WorkOn, LinkOK, Nowhere
<1>7. LinkOK(k', exists', pc', target', u)
  BY <1>2, <1>3, <1>6, LinkNowhere DEF Active
<1>8. WorkOn(k', exists', target', Idle, "free", u)
  BY <1>2, <1>3 DEF WorkOn
<1>9. pc'[Idle] = "free" /\ target' = [target EXCEPT ![Idle] = u]
  BY <1>1, <1>2, <1>4
<1>10. WorkOK(k', exists', pc', target', Idle)
  BY <1>1, <1>2, <1>3, <1>8, <1>9 DEF WorkOK
<1> QED
  BY <1>2, <1>3, <1>4, <1>5, <1>6, <1>7, <1>9, <1>10, IdleKeeps DEF Nowhere

LEMMA IdleFreesKeeps ==
    ASSUME LifeInv, IdleFrees
    PROVE  LifeInv'
<1>1. PICK u : u = target[Idle]
  OBVIOUS
<1>2. /\ At(Idle, "free") /\ "free" \in Acting /\ Idle \in Thread
      /\ k' = k /\ exists' = exists \ {u} /\ target' = [target EXCEPT ![Idle] = Idle]
      /\ pc' = [pc EXCEPT ![Idle] = "run"]
  BY <1>1, KernelAssumption DEF IdleFrees, Acting, Goto, Aim
<1>3. /\ Idle = k.cur /\ pc[Idle] = "free" /\ u \in App /\ u \in Thread /\ u # Idle
      /\ u \in exists /\ u \notin k.timer
      /\ Hands(target, Idle, u) /\ WorkOn(k, exists, target, Idle, "free", u)
      /\ LinkOK(k, exists, pc, target, u)
  BY <1>1, <1>2, AtWork
<1>4. /\ Plain(k) /\ pc \in [Thread -> Location] /\ target \in [Thread -> Thread]
      /\ exists \subseteq Thread
  BY LifeTypes
<1>5. Only(k, k', u)
  BY <1>2, <1>4, NoChange
<1>6. k.stat[u] = "CLOSE" /\ Nowhere(k, u)
  BY <1>3 DEF WorkOn, LinkOK, Nowhere
<1>7. LinkOK(k', exists', pc', target', u)
  BY <1>2, <1>3, <1>6, LinkNowhere DEF Active
<1>8. pc'[Idle] = "run" /\ target'[Idle] = Idle
  BY <1>2, <1>4
<1>9. WorkOK(k', exists', pc', target', Idle)
  BY <1>2, <1>8, WorksOnNobody DEF Acting
<1> QED
  BY <1>2, <1>3, <1>4, <1>5, <1>6, <1>7, <1>9, IdleKeeps DEF Nowhere

\* The current thread goes on to another place where it works on nobody.
LEMMA MoveKeeps ==
    ASSUME LifeInv, NEW t \in App, t = k.cur, pc[t] \notin Acting,
           NEW l \in Location, l \notin Acting, NEW Q, Q = [pc EXCEPT ![t] = l]
    PROVE  Fit(k, exists, Q, target) /\ Q[t] = l
<1>1. /\ Plain(k) /\ pc \in [Thread -> Location] /\ target \in [Thread -> Thread]
      /\ exists \subseteq Thread /\ Fit(k, exists, pc, target) /\ t \in Thread /\ t # Idle
  BY LifeTypes DEF App
<1>2. LinkOK(k, exists, pc, target, t) /\ WorkOK(k, exists, pc, target, t)
  BY <1>1 DEF Fit
<1>3. target[t] = Idle
  BY <1>2 DEF WorkOK
<1>4. \A v \in Thread \ {t} : target[v] # t
  BY <1>1, WorkerIsAlone
<1>5. Hands(target, t, t)
  BY <1>3, <1>4 DEF Hands
<1>6. Q[t] = l /\ target = [target EXCEPT ![t] = Idle]
  BY <1>1, <1>3
<1>7. ~ Hidden(Q, target, t) /\ ~ Hidden(pc, target, t)
  BY <1>4 DEF Hidden
<1>8. LinkOK(k, exists, Q, target, t)
  <2>1. TimerLeft(Q, target, t)
    BY <1>1, <1>3, <1>4 DEF TimerLeft
  <2> QED
    BY <2>1, <1>2, <1>7 DEF LinkOK
<1>9. WorkOK(k, exists, Q, target, t)
  BY <1>1, <1>3, <1>6, WorksOnNobody
<1>10. t \in exists /\ k.stat[t] = "CLOSE" => Linked(k, defunct, t)
  BY <1>1, <1>3, <1>4 DEF Fit, ReapOK
<1>11. t \notin exists => k.stat[t] = "CLOSE" /\ (k.cur = t => t \in Static)
  BY <1>1 DEF Fit, FreedOK
<1>12. Step(k, exists, Q, target, t, t, l, Idle)
  BY <1>1, <1>5, <1>6, <1>8, <1>9, <1>10, <1>11, NoChange DEF Step
<1> QED
  BY <1>1, <1>6, <1>12, StepKeeps

\* A call of rt_schedule at the end of a step.
LEMMA ScheduleEnds ==
    ASSUME NEW s, NEW E, NEW P, NEW G, Fit(s, E, P, G), s.lock \in 0 .. NestMax,
           s.lock # 0 => CurOK(s, P), NEW r, r = rt_schedule(s)
    PROVE  r.lock \in 0 .. NestMax /\ Fit(r, E, P, G) /\ CurOK(r, P) /\ PreemptOK(r, P)
<1>1. Fit(r, E, P, G) /\ Scheduled(s, r)
  BY ScheduleKeeps
<1>2. r.lock = s.lock
  BY <1>1 DEF Scheduled
<1>3. CASE s.lock = 0
  BY <1>1, <1>2, <1>3 DEF Scheduled, CurOK, PreemptOK
<1>4. CASE s.lock # 0
  <2>1. Alike(s, r)
    BY <1>1, <1>4 DEF Scheduled
  <2> QED
    BY <2>1, <1>1, <1>2, <1>4 DEF Alike, CurOK, PreemptOK, Suspended
<1> QED
  BY <1>3, <1>4

\* Setting the yield flag.
LEMMA YieldAlike ==
    ASSUME NEW s, Plain(s), NEW t \in Thread, NEW r, r = [s EXCEPT !.yield = @ \cup {t}]
    PROVE  Regular(s, r) /\ Alike(s, r) /\ r.timer = s.timer /\ r.lock = s.lock
<1>1. /\ r \in KernelState /\ r.timer = s.timer /\ r.stat = s.stat /\ r.list = s.list
      /\ r.cur = s.cur /\ r.prio = s.prio /\ r.sig = s.sig /\ r.lock = s.lock /\ r.group = s.group
  BY DEF Plain, KernelState
<1>2. \A l, x : Linked(r, l, x) <=> Linked(s, l, x)
  BY <1>1 DEF Linked
<1>3. GroupOK(r) /\ NodesLinkedOnce(r)
  BY <1>1, <1>2 DEF Plain, GroupOK, NodesLinkedOnce
<1> QED
  BY <1>1, <1>2, <1>3 DEF Regular, Alike

LEMMA YieldSchedules ==
    ASSUME LifeInv, NEW t \in Thread, k' = rt_schedule([k EXCEPT !.yield = @ \cup {t}]),
           exists' = exists, pc' = pc, target' = target
    PROVE  LifeInv'
<1>1. PICK a : a = [k EXCEPT !.yield = @ \cup {t}]
  OBVIOUS
<1>2. /\ Plain(k) /\ Fit(k, exists, pc, target) /\ CurOK(k, pc) /\ k.lock \in 0 .. NestMax
  BY LifeTypes
<1>3. Regular(k, a) /\ Alike(k, a) /\ a.timer = k.timer /\ a.lock = k.lock
  BY <1>1, <1>2, YieldAlike
<1>4. Fit(a, exists, pc, target)
  BY <1>2, <1>3, AlikeKeeps
<1>5. CurOK(a, pc)
  BY <1>2, <1>3 DEF CurOK, Alike, Suspended
<1>6. k' = rt_schedule(a)
  BY <1>1
<1>7. /\ k'.lock \in 0 .. NestMax /\ Fit(k', exists, pc, target) /\ CurOK(k', pc)
      /\ PreemptOK(k', pc)
  BY <1>2, <1>3, <1>4, <1>5, <1>6, ScheduleEnds
<1> QED
  BY <1>7 DEF LifeInv

LEMMA SleepSchedulesKeeps ==
    ASSUME LifeInv, NEW t \in App, SleepSchedules(t)
    PROVE  LifeInv'
<1>1. /\ t = k.cur /\ pc[t] = "sleeping" /\ k' = rt_schedule(k)
      /\ pc' = [pc EXCEPT ![t] = "slept"] /\ exists' = exists /\ target' = target
  BY DEF SleepSchedules, At, Goto
<1>2. CurOK(k, pc) /\ k.lock \in 0 .. NestMax
  BY LifeTypes
<1>3. k.lock = 0
  BY <1>1, <1>2 DEF CurOK
<1>4. Fit(k, exists, pc', target)
  <2>1. "slept" \in Location /\ "slept" \notin Acting /\ pc[t] \notin Acting
    BY <1>1 DEF Acting, Location
  <2> QED
    BY <2>1, <1>1, MoveKeeps
<1>5. /\ k'.lock \in 0 .. NestMax /\ Fit(k', exists, pc', target) /\ CurOK(k', pc')
      /\ PreemptOK(k', pc')
  BY <1>1, <1>2, <1>3, <1>4, ScheduleEnds
<1> QED
  BY <1>1, <1>5 DEF LifeInv

LEMMA RescheduleKeeps ==
    ASSUME LifeInv, NEW t \in App, Reschedule(t)
    PROVE  LifeInv'
<1>1. /\ t = k.cur /\ pc[t] = "resched" /\ k' = rt_schedule(k)
      /\ pc' = [pc EXCEPT ![t] = "run"] /\ exists' = exists /\ target' = target
  BY DEF Reschedule, At, Goto
<1>2. CurOK(k, pc) /\ k.lock \in 0 .. NestMax
  BY LifeTypes
<1>3. Fit(k, exists, pc', target) /\ pc'[t] = "run"
  <2>1. "run" \in Location /\ "run" \notin Acting /\ pc[t] \notin Acting
    BY <1>1 DEF Acting, Location
  <2>2. Fit(k, exists, pc', target)
    BY <2>1, <1>1, MoveKeeps
  <2>3. pc \in [Thread -> Location] /\ t \in Thread
    BY LifeTypes DEF App
  <2> QED
    BY <2>2, <2>3, <1>1
<1>4. k.lock # 0 => CurOK(k, pc')
  BY <1>1, <1>2, <1>3 DEF CurOK
<1>5. /\ k'.lock \in 0 .. NestMax /\ Fit(k', exists, pc', target) /\ CurOK(k', pc')
      /\ PreemptOK(k', pc')
  BY <1>1, <1>2, <1>3, <1>4, ScheduleEnds
<1> QED
  BY <1>1, <1>5 DEF LifeInv

LEMMA SleepEndsKeeps ==
    ASSUME LifeInv, NEW t \in App, SleepEnds(t)
    PROVE  LifeInv'
<1>1. /\ t = k.cur /\ pc[t] = "slept" /\ k' = ClearTimeout(k, t) /\ t \in Thread
      /\ pc' = [pc EXCEPT ![t] = "run"] /\ exists' = exists /\ target' = target
  BY DEF SleepEnds, At, Goto, App
<1>2. /\ Plain(k) /\ CurOK(k, pc) /\ k.lock \in 0 .. NestMax /\ PreemptOK(k, pc)
  BY LifeTypes
<1>3. Fit(k, exists, pc', target) /\ pc'[t] = "run"
  <2>1. "run" \in Location /\ "run" \notin Acting /\ pc[t] \notin Acting
    BY <1>1 DEF Acting, Location
  <2>2. Fit(k, exists, pc', target)
    BY <2>1, <1>1, MoveKeeps
  <2>3. pc \in [Thread -> Location] /\ t \in Thread
    BY LifeTypes DEF App
  <2> QED
    BY <2>2, <2>3, <1>1
<1>4. /\ k' \in KernelState /\ k'.timer = k.timer /\ k'.stat = k.stat /\ k'.list = k.list
      /\ k'.cur = k.cur /\ k'.prio = k.prio /\ k'.sig = k.sig /\ k'.lock = k.lock
      /\ k'.group = k.group
  BY <1>1, <1>2 DEF Plain, KernelState, ClearTimeout, Error
<1>5. \A l, x : Linked(k', l, x) <=> Linked(k, l, x)
  BY <1>4 DEF Linked
<1>6. Regular(k, k') /\ Alike(k, k')
  BY <1>2, <1>4, <1>5 DEF Plain, GroupOK, NodesLinkedOnce, Regular, Alike
<1>7. Fit(k', exists, pc', target)
  BY <1>3, <1>4, <1>6, AlikeKeeps
<1>8. CurOK(k', pc')
  BY <1>1, <1>2, <1>3, <1>4 DEF CurOK
<1>9. PreemptOK(k', pc')
  BY <1>1, <1>2, <1>4, <1>5, PreemptStays
<1> QED
  BY <1>1, <1>2, <1>4, <1>7, <1>8, <1>9 DEF LifeInv

\* Changing the scheduler lock.
LEMMA LockAlike ==
    ASSUME NEW s, Plain(s), NEW n \in Nat, NEW r, r = [s EXCEPT !.lock = n]
    PROVE  Regular(s, r) /\ Alike(s, r) /\ r.timer = s.timer /\ r.lock = n
<1>1. /\ r \in KernelState /\ r.timer = s.timer /\ r.stat = s.stat /\ r.list = s.list
      /\ r.cur = s.cur /\ r.prio = s.prio /\ r.sig = s.sig /\ r.lock = n /\ r.group = s.group
  BY DEF Plain, KernelState
<1>2. \A l, x : Linked(r, l, x) <=> Linked(s, l, x)
  BY <1>1 DEF Linked
<1>3. GroupOK(r) /\ NodesLinkedOnce(r)
  BY <1>1, <1>2 DEF Plain, GroupOK, NodesLinkedOnce
<1> QED
  BY <1>1, <1>2, <1>3 DEF Regular, Alike

LEMMA EnterCriticalKeeps ==
    ASSUME LifeInv, NEW t \in App, rt_enter_critical(t)
    PROVE  LifeInv'
<1>1. /\ t = k.cur /\ pc[t] = "run" /\ k.stat[t] = "RUNNING"
  BY AtRun DEF rt_enter_critical
<1>2. /\ Plain(k) /\ k.lock \in 0 .. NestMax /\ Fit(k, exists, pc, target)
  BY LifeTypes
<1>3. /\ k.lock < NestMax /\ k' = [k EXCEPT !.lock = k.lock + 1]
      /\ exists' = exists /\ pc' = pc /\ target' = target
  BY DEF rt_enter_critical
<1>4. k.lock + 1 \in 0 .. NestMax /\ k.lock + 1 \in Nat /\ k.lock + 1 > 0 /\ k.lock + 1 # 0
  BY <1>2, <1>3, ThreadsAssumption
<1>5. Regular(k, k') /\ Alike(k, k') /\ k'.timer = k.timer /\ k'.lock = k.lock + 1
  BY <1>2, <1>3, <1>4, LockAlike
<1>6. Fit(k', exists, pc, target)
  BY <1>1, <1>2, <1>5, AlikeKeeps DEF Acting
<1>7. CurOK(k', pc') /\ PreemptOK(k', pc')
  BY <1>1, <1>3, <1>4, <1>5 DEF CurOK, PreemptOK, Alike
<1> QED
  BY <1>3, <1>4, <1>5, <1>6, <1>7 DEF LifeInv

LEMMA ExitCriticalKeeps ==
    ASSUME LifeInv, NEW t \in App, rt_exit_critical(t)
    PROVE  LifeInv'
<1>1. /\ t = k.cur /\ t \in Thread /\ pc[t] \in {"run", "dead"}
      /\ k' = [k EXCEPT !.lock = IF k.lock = 0 THEN 0 ELSE k.lock - 1]
      /\ exists' = exists /\ target' = target
  BY DEF rt_exit_critical, At, App
<1>2. /\ Plain(k) /\ k.lock \in 0 .. NestMax /\ CurOK(k, pc) /\ pc \in [Thread -> Location]
  BY LifeTypes
<1>3. PICK n \in 0 .. NestMax : /\ n = IF k.lock = 0 THEN 0 ELSE k.lock - 1
                               /\ n \in Nat /\ (k.lock <= 1 => n = 0)
                               /\ (~ (k.lock <= 1) => n > 0)
  BY <1>2, ThreadsAssumption
<1>4. PICK l : l = IF k.lock <= 1 THEN "resched" ELSE pc[t]
  OBVIOUS
<1>5. pc' = [pc EXCEPT ![t] = l] /\ pc'[t] = l
  BY <1>1, <1>2, <1>4 DEF rt_exit_critical, Goto
<1>6. l \in Location /\ l \notin Acting /\ pc[t] \notin Acting /\ l # "sleeping"
  BY <1>1, <1>4 DEF Location, Acting
<1>7. Fit(k, exists, pc', target)
  BY <1>1, <1>5, <1>6, MoveKeeps
<1>8. Regular(k, k') /\ Alike(k, k') /\ k'.timer = k.timer /\ k'.lock = n
  BY <1>1, <1>2, <1>3, LockAlike
<1>9. Fit(k', exists, pc', target)
  BY <1>1, <1>5, <1>6, <1>7, <1>8, AlikeKeeps
<1>10. k'.cur = t /\ k'.stat[t] = k.stat[t]
  BY <1>1, <1>8 DEF Alike
<1>11. k.stat[t] = "RUNNING" \/ (k.stat[t] = "CLOSE" /\ pc[t] = "dead")
  BY <1>1, <1>2 DEF CurOK
<1>12. CASE k.lock <= 1
  <2>1. l = "resched" /\ k'.lock = 0
    BY <1>3, <1>4, <1>8, <1>12
  <2>2. CurOK(k', pc') /\ PreemptOK(k', pc')
    BY <2>1, <1>5, <1>10, <1>11 DEF CurOK, PreemptOK
  <2> QED
    BY <2>2, <1>1, <1>3, <1>8, <1>9 DEF LifeInv
<1>13. CASE ~ (k.lock <= 1)
  <2>1. l = pc[t] /\ k'.lock > 0 /\ k'.lock # 0
    BY <1>3, <1>4, <1>8, <1>13
  <2>2. CurOK(k', pc') /\ PreemptOK(k', pc')
    BY <2>1, <1>5, <1>6, <1>10, <1>11 DEF CurOK, PreemptOK
  <2> QED
    BY <2>2, <1>1, <1>3, <1>8, <1>9 DEF LifeInv
<1> QED
  BY <1>12, <1>13

LEMMA ExitKeeps ==
    ASSUME LifeInv, NEW t \in App, rt_thread_exit(t)
    PROVE  LifeInv'
<1>1. /\ t = k.cur /\ t \in Thread /\ t # Idle /\ pc[t] = "run" /\ t \in exists
      /\ Nowhere(k, t) /\ t \notin k.timer /\ target[t] = Idle /\ Alone(target, t)
  BY AtRun DEF rt_thread_exit, App
<1>2. /\ Plain(k) /\ exists \subseteq Thread /\ k.timer \subseteq Thread
      /\ pc \in [Thread -> Location] /\ target \in [Thread -> Thread]
      /\ k.lock \in 0 .. NestMax
  BY LifeTypes
<1>3. PICK a : a = rt_schedule_remove_thread(k, t)
  OBVIOUS
<1>4. Only(k, a, t) /\ a.timer = k.timer /\ a.stat = k.stat /\ Nowhere(a, t)
  BY <1>1, <1>2, <1>3, RemoveOnly DEF Nowhere
<1>5. Plain(a) /\ a.timer \subseteq Thread
  BY <1>2, <1>4, OnlyPlain
<1>6. PICK b : b = [a EXCEPT !.stat[t] = "CLOSE"]
  OBVIOUS
<1>7. /\ Only(a, b, t) /\ b.timer = a.timer /\ b.stat[t] = "CLOSE"
      /\ \A l \in Prio \cup Queue : Linked(b, l, t) <=> Linked(a, l, t)
  BY <1>1, <1>5, <1>6, StatOnly DEF Stat
<1>8. Plain(b) /\ b.timer \ {t} \in SUBSET Thread
  BY <1>5, <1>7, OnlyPlain
<1>9. PICK c : c = [b EXCEPT !.timer = b.timer \ {t}]
  OBVIOUS
<1>10. /\ Only(b, c, t) /\ c.timer = b.timer \ {t} /\ c.stat = b.stat
       /\ \A l \in Prio \cup Queue : Linked(c, l, t) <=> Linked(b, l, t)
  BY <1>1, <1>8, <1>9, TimerOnly
<1>11. c = [rt_schedule_remove_thread(k, t) EXCEPT !.stat[t] = "CLOSE", !.timer = @ \ {t}]
  BY <1>3, <1>5, <1>6, <1>9 DEF Plain, KernelState
<1>12. Only(k, b, t)
  BY <1>1, <1>4, <1>7, OnlyTwice
<1>13. Only(k, c, t) /\ Plain(c) /\ Nowhere(c, t) /\ c.stat[t] = "CLOSE" /\ t \notin c.timer
  BY <1>1, <1>4, <1>7, <1>10, <1>12, OnlyTwice, OnlyPlain DEF Nowhere
<1>14. PICK d : d = Bury(c, t)
  OBVIOUS
<1>15. /\ k.lock = 0 /\ k' = rt_schedule(d)
       /\ exists' = IF JustDetached(t) THEN exists \ {t} ELSE exists
       /\ pc' = pc /\ target' = target
  BY <1>11, <1>14 DEF rt_thread_exit
<1>16. /\ Only(k, d, t) /\ d.stat[t] = "CLOSE" /\ LinkOK(d, exists', pc, target, t)
       /\ t \in exists' => Linked(d, defunct, t)
       /\ t \notin exists' => t \in Static
  <2>1. CASE JustDetached(t)
    <3>1. d = c /\ t \notin exists' /\ t \in Static
      BY <2>1, <1>14, <1>15 DEF Bury, JustDetached
    <3>2. LinkOK(d, exists', pc, target, t)
      BY <3>1, <1>13, LinkNowhere DEF Active
    <3> QED
      BY <3>1, <3>2, <1>13
  <2>2. CASE ~ JustDetached(t)
    <3>1. d = rt_thread_defunct_enqueue(c, t) /\ t \in exists'
      BY <2>2, <1>1, <1>14, <1>15 DEF Bury
    <3>2. /\ Only(c, d, t) /\ d.timer = c.timer /\ d.stat = c.stat
          /\ \A l \in Prio \cup Queue : Linked(d, l, t) <=> l = defunct
      BY <3>1, <1>1, <1>13, EnqueueOnly
    <3>3. LinkOK(d, exists', pc, target, t)
      BY <3>1, <3>2, <1>1, <1>13, LinkDefunct
    <3>4. Linked(d, defunct, t)
      BY <3>2, ThreadsAssumption
    <3>5. Only(k, d, t)
      BY <3>2, <1>1, <1>13, OnlyTwice
    <3> QED
      BY <3>1, <3>2, <3>3, <3>4, <3>5, <1>13
  <2> QED
    BY <2>1, <2>2
<1>17. WorkOK(d, exists', pc, target, t)
  BY <1>1, WorksOnNobody DEF Acting
<1>18. Hands(target, t, t)
  BY <1>1 DEF Hands, Alone
<1>19. exists' \subseteq Thread /\ \A v \in Thread \ {t} : v \in exists' <=> v \in exists
  BY <1>2, <1>15
<1>20. pc = [pc EXCEPT ![t] = "run"] /\ target = [target EXCEPT ![t] = Idle] /\ "run" \in Location
  BY <1>1, <1>2 DEF Location
<1>21. Step(d, exists', pc, target, t, t, "run", Idle)
  BY <1>1, <1>16, <1>17, <1>18, <1>19, <1>20 DEF Step
<1>22. Fit(d, exists', pc, target)
  BY <1>1, <1>21, StepKeeps
<1>23. d.lock = 0 /\ d.lock \in 0 .. NestMax
  BY <1>2, <1>15, <1>16 DEF Only
<1>24. /\ k'.lock \in 0 .. NestMax /\ Fit(k', exists', pc, target) /\ CurOK(k', pc)
       /\ PreemptOK(k', pc)
  BY <1>15, <1>22, <1>23, ScheduleEnds
<1> QED
  BY <1>15, <1>24 DEF LifeInv

LEMMA ThreadTimerKeeps ==
    ASSUME LifeInv, NEW u \in App, ThreadTimer(u), ~ TooLate(u)
    PROVE  LifeInv'
<1>1. /\ Plain(k) /\ exists \subseteq Thread /\ k.timer \subseteq Thread
      /\ pc \in [Thread -> Location] /\ target \in [Thread -> Thread]
      /\ k.lock \in 0 .. NestMax /\ Fit(k, exists, pc, target) /\ CurOK(k, pc) /\ k.cur \in Thread
      /\ u \in Thread /\ u # Idle
  BY LifeTypes DEF App
<1>2. /\ u \in k.timer /\ k' = rt_thread_timeout(k, u)
      /\ exists' = exists /\ pc' = pc /\ target' = target
  BY DEF ThreadTimer
<1>3. LinkOK(k, exists, pc, target, u)
  BY <1>1 DEF Fit
<1>4. Suspended(k, u) /\ \A v \in Thread : target[v] = u => pc[v] = "remove"
  BY <1>2, <1>3 DEF LinkOK, TimerLeft, TooLate
<1>5. Nowhere(k, u) /\ k.stat[u] \notin Active /\ k.stat[u] # "CLOSE"
  BY <1>3, <1>4 DEF LinkOK, Nowhere, Suspended, SuspendFlag, Active
<1>6. PICK t \in Thread :
          /\ \A v \in Thread \ {t} : target[v] # u
          /\ t # u => target[t] = u /\ WorkOn(k, exists, target, t, "remove", u)
          /\ t = u => Alone(target, u)
  <2>1. CASE Alone(target, u)
    BY <2>1, <1>1 DEF Alone
  <2>2. CASE ~ Alone(target, u)
    <3>1. PICK v \in Thread : target[v] = u /\ pc[v] = "remove"
      BY <2>2, <1>4 DEF Alone
    <3>2. WorkOn(k, exists, target, v, "remove", u)
      BY <3>1, <1>1 DEF Fit, WorkOK, Acting
    <3>3. v # u /\ \A x \in Thread \ {v} : target[x] # u
      BY <3>2, <1>5 DEF WorkOn
    <3> QED
      BY <3>1, <3>2, <3>3
  <2> QED
    BY <2>1, <2>2
<1>7. pc[u] \notin Acting /\ target[u] = Idle
  <2>1. CASE t = u
    BY <2>1, <1>1, <1>5, <1>6, RestsAlone
  <2>2. CASE t # u
    <3>1. target[u] = Idle /\ WorkOK(k, exists, pc, target, u)
      BY <2>2, <1>1, <1>6 DEF WorkOn, Fit
    <3> QED
      BY <3>1 DEF WorkOK
  <2> QED
    BY <2>1, <2>2
<1>8. PICK a : a = [k EXCEPT !.timer = @ \ {u}, !.err[u] = "ETIMEOUT"]
  OBVIOUS
<1>9. /\ a \in KernelState /\ a.timer = k.timer \ {u} /\ a.stat = k.stat /\ a.list = k.list
      /\ a.cur = k.cur /\ a.prio = k.prio /\ a.sig = k.sig /\ a.lock = k.lock
      /\ a.group = k.group
  BY <1>1, <1>8 DEF Plain, KernelState, Error
<1>10. \A l, x : Linked(a, l, x) <=> Linked(k, l, x)
  BY <1>9 DEF Linked
<1>11. Only(k, a, u) /\ Nowhere(a, u) /\ Plain(a)
  <2>1. GroupOK(a) /\ NodesLinkedOnce(a)
    BY <1>1, <1>9, <1>10 DEF Plain, GroupOK, NodesLinkedOnce
  <2> QED
    BY <2>1, <1>5, <1>9, <1>10 DEF Plain, Regular, Only, Nowhere
<1>12. PICK b : b = rt_list_remove(a, u)
  OBVIOUS
<1>13. Only(a, b, u) /\ b.timer = a.timer /\ Nowhere(b, u)
  BY <1>1, <1>11, <1>12, UnlinkOnly DEF Nowhere
<1>14. Plain(b) /\ b.cur = k.cur /\ b.prio = k.prio
  BY <1>9, <1>13, OnlyPlain
<1>15. PICK i : i = rt_schedule_insert_thread(b, u)
  OBVIOUS
<1>16. /\ Only(b, i, u) /\ i.timer = b.timer
       /\ u = b.cur => i.stat[u] = "RUNNING" /\ Nowhere(i, u)
       /\ u # b.cur => /\ i.stat[u] = "READY"
                       /\ \A l \in Prio \cup Queue : Linked(i, l, u) <=> l = b.prio[u]
  BY <1>1, <1>13, <1>14, <1>15, InsertOnly
<1>17. Only(k, b, u)
  BY <1>1, <1>11, <1>13, OnlyTwice
<1>18. Only(k, i, u)
  BY <1>1, <1>16, <1>17, OnlyTwice
<1>19. /\ i \in KernelState /\ i.cur = k.cur /\ i.prio = k.prio /\ i.lock = k.lock
       /\ u \notin i.timer /\ \A v \in Thread \ {u} : i.stat[v] = k.stat[v]
  BY <1>9, <1>13, <1>16, <1>18 DEF Only, Regular
<1>20. ~ Hidden(pc, target, u)
  BY <1>4 DEF Hidden
<1>21. LinkOK(i, exists, pc, target, u)
  <2>1. CASE u = k.cur
    BY <2>1, <1>14, <1>16, <1>19, LinkRunning
  <2>2. CASE u # k.cur
    BY <2>2, <1>14, <1>16, <1>19, <1>20, LinkReady
  <2> QED
    BY <2>1, <2>2
<1>22. WorkOK(i, exists, pc, target, t)
  <2>1. CASE t = u
    BY <2>1, <1>1, <1>7, WorksOnNobody
  <2>2. CASE t # u
    <3>1. WorkOK(k, exists, pc, target, t) /\ pc[t] = "remove" /\ target[t] = u
      BY <2>2, <1>1, <1>4, <1>6 DEF Fit
    <3>2. Keeps(i, t) <=> Keeps(k, t)
      BY <1>19 DEF Keeps
    <3>3. i.stat[u] \in Active /\ i.stat[t] = k.stat[t]
      BY <2>2, <1>16, <1>19 DEF Active
    <3>4. WorkOn(i, exists, target, t, "remove", u)
      BY <3>2, <3>3, <2>2, <1>6, <1>19 DEF WorkOn, Active
    <3> QED
      BY <3>1, <3>4 DEF WorkOK
  <2> QED
    BY <2>1, <2>2
<1>23. Touches(k, exists, pc, target, i, exists, pc, target, t, u)
  BY <1>1, <1>6, <1>7, <1>18 DEF Touches
<1>24. u \in exists
  BY <1>1, <1>5, NotThere
<1>25. i.stat[u] # "CLOSE"
  BY <1>16
<1>26. Settled(i, exists, pc, target, t, u)
  BY <1>7, <1>21, <1>22, <1>24, <1>25 DEF Settled, Acting
<1>27. Fit(i, exists, pc, target)
  BY <1>1, <1>23, <1>26, TouchKeeps
<1>28. i.lock # 0 => CurOK(i, pc)
  <2>1. CASE u = k.cur
    BY <2>1, <1>1, <1>14, <1>16, <1>19 DEF CurOK
  <2>2. CASE u # k.cur
    BY <2>2, <1>1, <1>19 DEF CurOK, Suspended
  <2> QED
    BY <2>1, <2>2
<1>29. k' = rt_schedule(i)
  BY <1>2, <1>8, <1>12, <1>15 DEF rt_thread_timeout
<1>30. /\ k'.lock \in 0 .. NestMax /\ Fit(k', exists, pc, target) /\ CurOK(k', pc)
       /\ PreemptOK(k', pc)
  BY <1>1, <1>19, <1>27, <1>28, <1>29, ScheduleEnds
<1> QED
  BY <1>2, <1>30 DEF LifeInv

-----------------------------------------------------------------------------
(* The theorems *)

LEMMA LifeStarts ==
    ASSUME Init
    PROVE  LifeInv
<1>1. PICK main \in App : k = KernelStart(main)
  BY DEF Init
<1>2. /\ exists = Thread /\ pc = [t \in Thread |-> "run"] /\ target = [t \in Thread |-> Idle]
      /\ main \in Thread /\ main # Idle /\ Idle \in Thread
  BY KernelAssumption DEF Init, App
<1>3. Sound(k) /\ \A q \in Queue : \A u : ~ Linked(k, q, u)
  BY <1>1, KernelStartSound
<1>4. k \in KernelState /\ NodesLinkedOnce(k) /\ GroupOK(k) /\ \A u \in Thread : ThreadOK(k, u)
  BY <1>3, SoundFacts
<1>5. /\ k.cur = main /\ k.prio = InitPrio /\ k.lock = 0 /\ k.timer = {}
      /\ k.stat = [t \in Thread |-> IF t = main THEN "RUNNING"
                                    ELSE IF t = Idle THEN "READY" ELSE "INIT"]
      /\ k.sig = [t \in Thread |-> {}]
  BY <1>1 DEF KernelStart
<1>6. \A u \in Thread : ~ Hidden(pc, target, u) /\ pc[u] = "run" /\ target[u] = Idle
  BY <1>2 DEF Hidden
<1>7. ASSUME NEW u \in Thread
      PROVE  LinkOK(k, exists, pc, target, u)
  <2>1. ThreadOK(k, u)
    BY <1>4
  <2> QED
    BY <2>1, <1>3, <1>5, <1>6 DEF ThreadOK, LinkOK, Active
<1>8. ASSUME NEW t \in Thread
      PROVE  WorkOK(k, exists, pc, target, t)
  BY <1>6, WorksOnNobody DEF Acting
<1>9. FreedOK(k, exists) /\ FixedOK(k)
  BY <1>2, <1>5 DEF FreedOK, FixedOK
<1>10. ReapOK(k, exists, pc, target)
  BY <1>2, <1>5 DEF ReapOK
<1>11. exists \subseteq Thread /\ pc \in [Thread -> Location] /\ target \in [Thread -> Thread]
  BY <1>2 DEF Location
<1>12. Fit(k, exists, pc, target)
  BY <1>4, <1>7, <1>8, <1>9, <1>10, <1>11 DEF Fit
<1>13. CurOK(k, pc)
  BY <1>2, <1>5 DEF CurOK
<1>14. PreemptOK(k, pc)
  <2>1. SUFFICES ASSUME NEW p \in Prio, NEW u \in Thread, Linked(k, p, u)
                 PROVE  k.prio[k.cur] <= p
    BY DEF PreemptOK, Urgent
  <2>2. k.stat[u] = "READY" /\ k.prio[u] = p
    BY <2>1, <1>7 DEF LinkOK
  <2>3. u = Idle
    BY <2>2, <1>5
  <2>4. k.prio[k.cur] = InitPrio[main] /\ p = InitPrio[Idle] /\ InitPrio[main] < InitPrio[Idle]
    BY <2>2, <2>3, <1>2, <1>5, KernelAssumption
  <2>5. InitPrio[main] \in Nat /\ InitPrio[Idle] \in Nat
    BY <1>2, KernelAssumption
  <2> QED
    BY <2>4, <2>5
<1>15. k.lock \in 0 .. NestMax
  BY <1>5, ThreadsAssumption
<1> QED
  BY <1>12, <1>13, <1>14, <1>15 DEF LifeInv

LEMMA LifeSteps ==
    ASSUME LifeInv, [Next]_vars, ~ late'
    PROVE  LifeInv'
<1>1. ASSUME NEW t \in App, Works(t)
      PROVE  LifeInv'
  <2>1. ASSUME NEW u \in App, Create(t, u)
        PROVE  LifeInv'
    BY <2>1, CreateKeeps
  <2>2. ASSUME NEW u \in App, Startup(t, u)
        PROVE  LifeInv'
    BY <2>2, StartupKeeps
  <2>3. ASSUME NEW u \in App, Suspend(t, u)
        PROVE  LifeInv'
    BY <2>3, SuspendKeeps
  <2>4. ASSUME NEW u \in App, ResumeTests(t, u)
        PROVE  LifeInv'
    BY <2>4, ResumeTestsKeeps
  <2>5. ASSUME NEW u \in App, CloseTests(t, u)
        PROVE  LifeInv'
    BY <2>5, CloseTestsKeeps
  <2>6. CASE Yield(t)
    <3>1. t \in Thread
      BY DEF App
    <3> QED
      BY <3>1, <2>6, YieldSchedules DEF Yield
  <2>7. CASE Sleep(t)
    BY <2>7, SleepKeeps
  <2>8. CASE rt_enter_critical(t)
    BY <2>8, EnterCriticalKeeps
  <2>9. CASE rt_exit_critical(t)
    BY <2>9, ExitCriticalKeeps
  <2>10. CASE rt_thread_exit(t)
    BY <2>10, ExitKeeps
  <2> QED
    BY <1>1, <2>1, <2>2, <2>3, <2>4, <2>5, <2>6, <2>7, <2>8, <2>9, <2>10 DEF Works
<1>2. ASSUME NEW t \in App, KernelStep(t)
      PROVE  LifeInv'
  <2>1. CASE SleepSchedules(t)
    BY <2>1, SleepSchedulesKeeps
  <2>2. CASE SleepEnds(t)
    BY <2>2, SleepEndsKeeps
  <2>3. CASE Reschedule(t)
    BY <2>3, RescheduleKeeps
  <2>4. CASE ResumeUnlinks(t)
    BY <2>4, ResumeUnlinksKeeps
  <2>5. CASE ResumeInserts(t)
    BY <2>5, ResumeInsertsKeeps
  <2>6. CASE CloseRemoves(t)
    BY <2>6, CloseRemovesKeeps
  <2>7. CASE CloseDetachesTimer(t)
    BY <2>7, CloseDetachesTimerKeeps
  <2>8. CASE DeleteCloses(t)
    BY <2>8, DeleteClosesKeeps
  <2>9. CASE DetachCloses(t)
    BY <2>9, DetachClosesKeeps
  <2>10. CASE DetachBuries(t)
    BY <2>10, DetachBuriesKeeps
  <2> QED
    BY <1>2, <2>1, <2>2, <2>3, <2>4, <2>5, <2>6, <2>7, <2>8, <2>9, <2>10 DEF KernelStep
<1>3. CASE IdleStep
  BY <1>3, IdleDequeuesKeeps, IdleCleansUpKeeps, IdleFreesKeeps DEF IdleStep
<1>4. CASE TimeSlice
  <2>1. k.cur \in Thread
    BY LifeTypes
  <2> QED
    BY <2>1, <1>4, YieldSchedules DEF TimeSlice, TimeSliceEnds
<1>5. ASSUME NEW u \in App, ThreadTimer(u)
      PROVE  LifeInv'
  <2>1. ~ TooLate(u)
    BY <1>5 DEF ThreadTimer
  <2> QED
    BY <2>1, <1>5, ThreadTimerKeeps
<1>6. CASE UNCHANGED vars
  BY <1>6 DEF vars, LifeInv
<1> QED
  BY <1>1, <1>2, <1>3, <1>4, <1>5, <1>6 DEF Next, Interrupt

\* Once a thread_timer has come too late it stays so.
LEMMA LateStays ==
    ASSUME late \in BOOLEAN, [Next]_vars
    PROVE  late' \in BOOLEAN /\ (late => late')
<1>1. ASSUME NEW u \in App, ThreadTimer(u)
      PROVE  late' \in BOOLEAN /\ (late => late')
  BY <1>1 DEF ThreadTimer
<1>2. ASSUME NEW t \in App, Works(t)
      PROVE  late' = late
  BY <1>2 DEF Works, Create, Startup, Suspend, ResumeTests, CloseTests, Yield, Sleep,
              rt_enter_critical, rt_exit_critical, rt_thread_exit
<1>3. ASSUME NEW t \in App, KernelStep(t)
      PROVE  late' = late
  BY <1>3 DEF KernelStep, SleepSchedules, SleepEnds, Reschedule, ResumeUnlinks,
              ResumeInserts, CloseRemoves, CloseDetachesTimer, DeleteCloses, DetachCloses,
              DetachBuries
<1>4. CASE IdleStep
  BY <1>4 DEF IdleStep, IdleDequeues, IdleCleansUp, IdleFrees
<1>5. CASE TimeSlice
  BY <1>5 DEF TimeSlice
<1>6. CASE UNCHANGED vars
  BY <1>6 DEF vars
<1> QED
  BY <1>1, <1>2, <1>3, <1>4, <1>5, <1>6 DEF Next, Interrupt

\* The inductive invariant: until a thread_timer fires in the middle of a resume or a
\* delete, the ready table and its bitmap, the defunct list, the states of threads and the
\* work that is under way on them, asleep or not, fit together, and the current thread is
\* in a state from which it runs on or comes to rt_schedule.
THEOREM ThreadsInvariant == Spec => []UntilLate
<1>1. Init => UntilLate
  BY LifeStarts DEF Init, UntilLate
<1>2. UntilLate /\ [Next]_vars => UntilLate'
  BY LateStays, LifeSteps DEF UntilLate
<1> QED
  BY <1>1, <1>2, PTL DEF Spec

\* Creating, starting, suspending, resuming, closing and giving back threads leave the
\* ready table, its bitmap, the defunct list, the thread states and the thread_timers in
\* agreement, although most of these functions take several stretches.
THEOREM ThreadsKernel == Spec => []KernelInv
<1>1. ASSUME UntilLate
      PROVE  KernelInv
  <2>1. SUFFICES ASSUME LifeInv, late \in BOOLEAN
                 PROVE  KernelInv
    BY <1>1 DEF UntilLate, KernelInv
  <2>2. /\ k \in KernelState /\ NodesLinkedOnce(k) /\ GroupOK(k) /\ k.timer \subseteq Thread
        /\ k.cur \in Thread /\ Idle \in Thread /\ k.prio \in [Thread -> Prio]
        /\ \A u \in Thread : LinkOK(k, exists, pc, target, u)
    BY <2>1, KernelAssumption DEF LifeInv, Fit, KernelState
  <2>3. TypeOK
    BY <2>1, <2>2 DEF TypeOK, LifeInv, Fit
  <2>4. GroupIsReadyTable(k)
    BY <2>2, GroupAsLinks
  <2>5. CurrentIsApart(k) /\ ThreadTimeoutAssertion(k)
    BY <2>2 DEF LinkOK, CurrentIsApart, ThreadTimeoutAssertion, Active
  <2>6. ASSUME NEW u \in Thread
        PROVE  /\ \A p \in Prio : Linked(k, p, u) => k.stat[u] = "READY" /\ k.prio[u] = p
               /\ k.stat[u] = "READY" => Linked(k, k.prio[u], u) \/ HalfClosed(u)
               /\ Linked(k, defunct, u) => k.stat[u] = "CLOSE"
    <3>1. LinkOK(k, exists, pc, target, u) /\ k.prio[u] \in Prio
      BY <2>2
    <3>2. Hidden(pc, target, u) => HalfClosed(u)
      BY DEF Hidden, HalfClosed
    <3> QED
      BY <3>1, <3>2, ThreadsAssumption DEF LinkOK
  <2> QED
    BY <2>2, <2>3, <2>4, <2>5, <2>6 DEF KernelInv
<1> QED
  BY <1>1, ThreadsInvariant, PTL

\* A thread that rt_defunct_execute or rt_object_detach has given back is closed, in no
\* list, without a timer, nobody's target and at work on nobody, and it is not the one
\* that runs unless it is a static thread that has detached itself.
THEOREM ThreadsFreedIsNowhere == Spec => []FreedIsNowhere
<1>1. ASSUME UntilLate
      PROVE  FreedIsNowhere
  <2>1. SUFFICES ASSUME LifeInv, NEW u \in Thread \ exists
                 PROVE  /\ k.stat[u] = "CLOSE" /\ u \notin k.timer
                        /\ \A l \in Prio \cup Queue : ~ Linked(k, l, u)
                        /\ Exclusive(u)
                        /\ k.cur = u => u \in Static
    BY <1>1 DEF FreedIsNowhere, UntilLate
  <2>2. Fit(k, exists, pc, target)
    BY <2>1 DEF LifeInv
  <2>3. /\ k.stat[u] = "CLOSE" /\ Nowhere(k, u) /\ u \notin k.timer
        /\ Alone(target, u) /\ target[u] = Idle
        /\ k.cur = u => u \in Static
    BY <2>2, NotThere
  <2> QED
    BY <2>3 DEF Nowhere, Alone, Exclusive
<1> QED
  BY <1>1, ThreadsInvariant, PTL

\* Every closed thread that still exists is on the defunct list or in the hands of a
\* thread that can go on: the idle thread, or the one that detaches it.
THEOREM ThreadsDeadIsReaped == Spec => []DeadIsReaped
<1>1. ASSUME UntilLate
      PROVE  DeadIsReaped
  <2>1. SUFFICES ASSUME LifeInv, NEW u \in exists, k.stat[u] = "CLOSE", ~ Linked(k, defunct, u)
                 PROVE  \E t \in Thread : target[t] = u /\ (k.stat[t] # "CLOSE" \/ k.cur = t)
    BY <1>1 DEF DeadIsReaped, UntilLate
  <2>2. Fit(k, exists, pc, target)
    BY <2>1 DEF LifeInv
  <2>3. PICK t \in Thread : target[t] = u /\ pc[t] \in {"enqueue", "cleanup", "free"}
    BY <2>1, <2>2 DEF Fit, ReapOK
  <2>4. WorkOn(k, exists, target, t, pc[t], u)
    BY <2>2, <2>3 DEF Fit, WorkOK, Acting
  <2>5. k.stat[t] # "CLOSE" \/ k.cur = t
    BY <2>3, <2>4 DEF WorkOn, Keeps, Active
  <2> QED
    BY <2>3, <2>5
<1> QED
  BY <1>1, ThreadsInvariant, PTL

\* While the scheduler is not locked and the running thread is not on its way to
\* rt_schedule, no ready thread is more urgent: what an interrupt made ready during a
\* critical section is not missed.
THEOREM ThreadsNoMissedPreemption == Spec => []NoMissedPreemption
<1>1. ASSUME UntilLate
      PROVE  NoMissedPreemption
  <2>1. SUFFICES ASSUME LifeInv, k.lock = 0, k.stat[k.cur] = "RUNNING", pc[k.cur] # "resched",
                        NEW p \in Prio, k.list[p] # <<>>
                 PROVE  k.prio[k.cur] <= p
    BY <1>1 DEF NoMissedPreemption, UntilLate
  <2>2. k \in KernelState /\ Urgent(k)
    BY <2>1 DEF LifeInv, Fit, PreemptOK
  <2>3. PICK u \in Thread : Linked(k, p, u)
    BY <2>1, <2>2, ListTypes
  <2> QED
    BY <2>2, <2>3 DEF Urgent
<1> QED
  BY <1>1, ThreadsInvariant, PTL

=============================================================================
