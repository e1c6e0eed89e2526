---------------------------- MODULE KernelProofs ----------------------------
(***************************************************************************)
(* What the operators of the models do, for every set of threads,          *)
(* priorities, suspend lists and timers and every size of rt_tick_t: the   *)
(* doubly linked lists (module Lists), the functions of the scheduler, the *)
(* threads and the suspend lists (module Kernel) and those of timer.c      *)
(* (module TimerList).                                                     *)
(***************************************************************************)
EXTENDS Kernel, TimerList, SequenceTheorems, WellFoundedInduction, FiniteSetTheorems, TLAPS

-----------------------------------------------------------------------------
(* What linking and unlinking does to a list.                              *)

\* A sequence is empty exactly when it has no elements.
LEMMA EmptyList ==
    ASSUME NEW S, NEW s \in Seq(S)
    PROVE  s = <<>> <=> ToSet(s) = {}
<1>1. s = <<>> => ToSet(s) = {}
  BY DEF ToSet
<1>2. s # <<>> => ToSet(s) # {}
  <2>1. s # <<>> => s[1] \in ToSet(s)
    BY DEF ToSet
  <2> QED
    BY <2>1
<1> QED
  BY <1>1, <1>2, Zenon

\* The head of a list that is not empty is one of its elements.
LEMMA HeadInList ==
    ASSUME NEW S, NEW s \in Seq(S), s # <<>>
    PROVE  Head(s) \in ToSet(s) /\ Head(s) \in S
  BY DEF ToSet

\* rt_list_insert_before the list head: the new node comes last.
LEMMA AppendList ==
    ASSUME NEW S, NEW s \in Seq(S), NEW t \in S, NoRepeats(s), t \notin ToSet(s)
    PROVE  /\ Append(s, t) \in Seq(S)
           /\ ToSet(Append(s, t)) = ToSet(s) \cup {t}
           /\ NoRepeats(Append(s, t))
<1>1. Append(s, t) \in Seq(S)
  OBVIOUS
<1>2. /\ Len(Append(s, t)) = Len(s) + 1
      /\ \A i \in 1 .. Len(s) : Append(s, t)[i] = s[i]
      /\ Append(s, t)[Len(s) + 1] = t
      /\ DOMAIN Append(s, t) = 1 .. Len(s) + 1
  OBVIOUS
<1>3. ToSet(Append(s, t)) = ToSet(s) \cup {t}
  BY <1>1, <1>2 DEF ToSet
<1>4. NoRepeats(Append(s, t))
  BY <1>1, <1>2 DEF ToSet, NoRepeats
<1> QED  BY <1>1, <1>3, <1>4

\* Which element is where once the one at i is gone.
LEMMA RemoveAtList ==
    ASSUME NEW S, NEW s \in Seq(S), NEW i \in 1 .. Len(s)
    PROVE  /\ RemoveAt(s, i) \in Seq(S)
           /\ Len(RemoveAt(s, i)) = Len(s) - 1
           /\ \A j \in 1 .. Len(s) - 1 : RemoveAt(s, i)[j] = IF j < i THEN s[j] ELSE s[j + 1]
<1> DEFINE a == SubSeq(s, 1, i - 1)
           b == SubSeq(s, i + 1, Len(s))
<1>1. /\ a \in Seq(S) /\ Len(a) = i - 1
      /\ \A j \in 1 .. i - 1 : a[j] = s[j]
  OBVIOUS
<1>2. /\ b \in Seq(S) /\ Len(b) = Len(s) - i
      /\ \A j \in 1 .. Len(s) - i : b[j] = s[i + j]
  OBVIOUS
<1> HIDE DEF a, b
<1>3. /\ a \o b \in Seq(S) /\ Len(a \o b) = Len(a) + Len(b)
      /\ \A j \in 1 .. Len(a) + Len(b) :
            (a \o b)[j] = IF j <= Len(a) THEN a[j] ELSE b[j - Len(a)]
  BY <1>1, <1>2, ConcatProperties
<1>4. /\ Len(a \o b) = Len(s) - 1
      /\ \A j \in 1 .. Len(s) - 1 : (a \o b)[j] = IF j < i THEN s[j] ELSE s[j + 1]
  BY <1>1, <1>2, <1>3
<1> QED  BY <1>3, <1>4 DEF RemoveAt, a, b

\* Which element is where once t is put at i.
LEMMA InsertAtList ==
    ASSUME NEW S, NEW s \in Seq(S), NEW i \in 1 .. Len(s) + 1, NEW t \in S
    PROVE  /\ InsertAt(s, i, t) \in Seq(S)
           /\ Len(InsertAt(s, i, t)) = Len(s) + 1
           /\ InsertAt(s, i, t)[i] = t
           /\ \A j \in 1 .. i - 1 : InsertAt(s, i, t)[j] = s[j]
           /\ \A j \in i .. Len(s) : InsertAt(s, i, t)[j + 1] = s[j]
<1> DEFINE a == SubSeq(s, 1, i - 1)
           b == SubSeq(s, i, Len(s))
           c == a \o <<t>>
<1>1. /\ a \in Seq(S) /\ Len(a) = i - 1
      /\ \A j \in 1 .. i - 1 : a[j] = s[j]
  OBVIOUS
<1>2. /\ b \in Seq(S) /\ Len(b) = Len(s) + 1 - i
      /\ \A j \in 1 .. Len(s) + 1 - i : b[j] = s[i + j - 1]
  OBVIOUS
<1> HIDE DEF a, b
<1>3. /\ c \in Seq(S) /\ Len(c) = i
      /\ \A j \in 1 .. i : c[j] = IF j < i THEN s[j] ELSE t
  BY <1>1
<1> HIDE DEF c
<1>4. /\ c \o b \in Seq(S) /\ Len(c \o b) = Len(s) + 1
      /\ \A j \in 1 .. Len(s) + 1 : (c \o b)[j] = IF j <= i THEN c[j] ELSE b[j - i]
  BY <1>2, <1>3, ConcatProperties
<1>5. /\ (c \o b)[i] = t
      /\ \A j \in 1 .. i - 1 : (c \o b)[j] = s[j]
      /\ \A j \in i .. Len(s) : (c \o b)[j + 1] = s[j]
  BY <1>2, <1>3, <1>4
<1> QED  BY <1>4, <1>5 DEF InsertAt, a, b, c

\* rt_list_remove leaves a list of the same kind.
LEMMA WithoutType ==
    ASSUME NEW S, NEW s \in Seq(S), NEW t
    PROVE  Without(s, t) \in Seq(S)
<1>1. CASE t \in ToSet(s)
  <2>1. PICK i : i = CHOOSE j \in DOMAIN s : s[j] = t
    OBVIOUS
  <2>2. i \in 1 .. Len(s)
    BY <2>1, <1>1 DEF ToSet
  <2>3. Without(s, t) = RemoveAt(s, i)
    BY <2>1, <1>1 DEF Without
  <2> QED
    BY <2>2, <2>3, RemoveAtList
<1>2. CASE t \notin ToSet(s)
  BY <1>2 DEF Without
<1> QED
  BY <1>1, <1>2

\* rt_list_remove takes the node out and keeps the others.
LEMMA WithoutList ==
    ASSUME NEW S, NEW s \in Seq(S), NEW t, NoRepeats(s)
    PROVE  /\ Without(s, t) \in Seq(S)
           /\ ToSet(Without(s, t)) = ToSet(s) \ {t}
           /\ NoRepeats(Without(s, t))
<1>1. CASE t \notin ToSet(s)
  BY <1>1 DEF Without
<1>2. CASE t \in ToSet(s)
  <2> DEFINE i == CHOOSE i \in DOMAIN s : s[i] = t
             r == RemoveAt(s, i)
  <2>1. i \in 1 .. Len(s) /\ s[i] = t
    BY <1>2 DEF ToSet
  <2> HIDE DEF i
  <2>2. /\ r \in Seq(S)
        /\ Len(r) = Len(s) - 1
        /\ \A j \in 1 .. Len(s) - 1 : r[j] = IF j < i THEN s[j] ELSE s[j + 1]
    BY <2>1, RemoveAtList
  <2>3. Without(s, t) = r
    BY <1>2 DEF Without, i
  <2> HIDE DEF r
  <2>4. NoRepeats(r)
    <3> SUFFICES ASSUME NEW p \in 1 .. Len(s) - 1, NEW q \in 1 .. Len(s) - 1, r[p] = r[q]
                 PROVE  p = q
      BY <2>2 DEF NoRepeats
    <3>1. PICK x \in 1 .. Len(s) : r[p] = s[x] /\ x = IF p < i THEN p ELSE p + 1
      BY <2>1, <2>2
    <3>2. PICK y \in 1 .. Len(s) : r[q] = s[y] /\ y = IF q < i THEN q ELSE q + 1
      BY <2>1, <2>2
    <3>3. x = y
      BY <3>1, <3>2 DEF NoRepeats
    <3> QED
      BY <3>1, <3>2, <3>3, <2>1
  <2>5. ToSet(r) \subseteq ToSet(s) \ {t}
    BY <2>1, <2>2 DEF ToSet, NoRepeats
  <2>6. ASSUME NEW x \in ToSet(s) \ {t} PROVE x \in ToSet(r)
    <3>1. PICK j \in 1 .. Len(s) : s[j] = x
      BY DEF ToSet
    <3>2. j # i
      BY <3>1, <2>1
    <3>3. CASE j < i
      <4>1. j \in 1 .. Len(r) /\ r[j] = x
        BY <3>1, <3>3, <2>1, <2>2
      <4> QED
        BY <4>1, <2>2 DEF ToSet
    <3>4. CASE j > i
      <4>1. j - 1 \in 1 .. Len(r) /\ r[j - 1] = x
        BY <3>1, <3>4, <2>1, <2>2
      <4> QED
        BY <4>1, <2>2 DEF ToSet
    <3> QED
      BY <3>2, <3>3, <3>4, <2>1
  <2> QED
    BY <2>2, <2>3, <2>4, <2>5, <2>6
<1> QED
  BY <1>1, <1>2

\* Linking a node that is in no list somewhere in a list.
LEMMA InsertList ==
    ASSUME NEW S, NEW s \in Seq(S), NEW t \in S, NEW i \in 1 .. Len(s) + 1,
           NoRepeats(s), t \notin ToSet(s)
    PROVE  /\ InsertAt(s, i, t) \in Seq(S)
           /\ ToSet(InsertAt(s, i, t)) = ToSet(s) \cup {t}
           /\ NoRepeats(InsertAt(s, i, t))
<1>0. PICK r : r = InsertAt(s, i, t)
  OBVIOUS
<1>1. /\ r \in Seq(S)
      /\ Len(r) = Len(s) + 1
      /\ r[i] = t
      /\ \A j \in 1 .. i - 1 : r[j] = s[j]
      /\ \A j \in i .. Len(s) : r[j + 1] = s[j]
  BY <1>0, InsertAtList
<1>b. \A j \in 1 .. Len(s) + 1 : r[j] = IF j < i THEN s[j] ELSE IF j = i THEN t ELSE s[j - 1]
  <2> TAKE j \in 1 .. Len(s) + 1
  <2>1. CASE j > i
    <3>1. j - 1 \in i .. Len(s) /\ (j - 1) + 1 = j
      BY <2>1
    <3> QED
      BY <3>1, <2>1, <1>1
  <2> QED
    BY <2>1, <1>1
<1>a. DOMAIN r = 1 .. Len(r)
  BY <1>1
<1>2. \A j \in 1 .. Len(s) : s[j] # t
  BY DEF ToSet
<1>3. NoRepeats(r)
  <2> SUFFICES ASSUME NEW p \in 1 .. Len(s) + 1, NEW q \in 1 .. Len(s) + 1, r[p] = r[q]
               PROVE  p = q
    BY <1>1, <1>a DEF NoRepeats
  <2>1. CASE p = i \/ q = i
    BY <2>1, <1>b, <1>2
  <2>2. CASE p # i /\ q # i
    <3>1. PICK x \in 1 .. Len(s) : r[p] = s[x] /\ x = IF p < i THEN p ELSE p - 1
      BY <1>b, <2>2
    <3>2. PICK y \in 1 .. Len(s) : r[q] = s[y] /\ y = IF q < i THEN q ELSE q - 1
      BY <1>b, <2>2
    <3>3. x = y
      BY <3>1, <3>2 DEF NoRepeats
    <3> QED
      BY <3>1, <3>2, <3>3, <2>2
  <2> QED
    BY <2>1, <2>2
<1>4. ToSet(r) \subseteq ToSet(s) \cup {t}
  <2> SUFFICES ASSUME NEW j \in 1 .. Len(s) + 1
               PROVE  r[j] \in ToSet(s) \cup {t}
    BY <1>1, <1>a DEF ToSet
  <2>1. CASE j < i
    <3>1. j \in DOMAIN s /\ r[j] = s[j]
      BY <2>1, <1>b
    <3> QED
      BY <3>1 DEF ToSet
  <2>2. CASE j > i
    <3>1. j - 1 \in DOMAIN s /\ r[j] = s[j - 1]
      BY <2>2, <1>b
    <3> QED
      BY <3>1 DEF ToSet
  <2> QED
    BY <2>1, <2>2, <1>1
<1>5. t \in ToSet(r)
  BY <1>1, <1>a DEF ToSet
<1>6. ASSUME NEW x \in ToSet(s) PROVE x \in ToSet(r)
  <2>1. PICK j \in 1 .. Len(s) : s[j] = x
    BY DEF ToSet
  <2>2. CASE j < i
    <3>1. j \in 1 .. Len(r) /\ r[j] = x
      BY <2>1, <2>2, <1>1
    <3> QED
      BY <3>1, <1>a DEF ToSet
  <2>3. CASE j >= i
    <3>1. j + 1 \in 1 .. Len(r) /\ r[j + 1] = x
      BY <2>1, <2>3, <1>1
    <3> QED
      BY <3>1, <1>a DEF ToSet
  <2> QED
    BY <2>2, <2>3
<1> QED
  BY <1>1, <1>3, <1>4, <1>5, <1>6, <1>0

\* A set of positions has a least one.
LEMMA LeastPosition ==
    ASSUME NEW G, G \subseteq Nat, G # {}
    PROVE  \E i \in G : \A j \in G : i <= j
<1>1. PICK i \in G : \A j \in G : ~ (<<j, i>> \in OpToRel(<, Nat))
  BY NatLessThanWellFounded, WFMin
<1>2. \A j \in G : ~ (j < i)
  BY <1>1 DEF OpToRel
<1> QED
  BY <1>2

\* A list ordered by a key of its elements.
SortedBy(f, s) == \A i, j \in 1 .. Len(s) : i < j => f[s[i]] <= f[s[j]]

\* Only the keys of the elements of the list matter.
LEMMA SortedSame ==
    ASSUME NEW S, NEW s \in Seq(S), NEW f, NEW g,
           \A u \in ToSet(s) : f[u] = g[u], SortedBy(f, s)
    PROVE  SortedBy(g, s)
<1>1. \A i \in 1 .. Len(s) : s[i] \in ToSet(s)
  BY DEF ToSet
<1> QED
  BY <1>1 DEF SortedBy

\* An element that leaves does not disturb the order.
LEMMA SortedWithout ==
    ASSUME NEW S, NEW s \in Seq(S), NEW f, NEW t, SortedBy(f, s)
    PROVE  SortedBy(f, Without(s, t))
<1>1. CASE t \in ToSet(s)
  <2>1. PICK i : i = CHOOSE j \in DOMAIN s : s[j] = t
    OBVIOUS
  <2>2. i \in 1 .. Len(s)
    BY <2>1, <1>1 DEF ToSet
  <2>3. PICK r : r = RemoveAt(s, i)
    OBVIOUS
  <2>4. Without(s, t) = r
    BY <2>1, <2>3, <1>1 DEF Without
  <2>5. /\ r \in Seq(S) /\ Len(r) = Len(s) - 1
        /\ \A j \in 1 .. Len(s) - 1 : r[j] = IF j < i THEN s[j] ELSE s[j + 1]
    BY <2>2, <2>3, RemoveAtList
  <2>6. ASSUME NEW a \in 1 .. Len(r), NEW b \in 1 .. Len(r), a < b
        PROVE  f[r[a]] <= f[r[b]]
    <3>0. a \in 1 .. Len(s) - 1 /\ b \in 1 .. Len(s) - 1 /\ i \in Int
      BY <2>2, <2>5
    <3>1. PICK c : c = IF a < i THEN a ELSE a + 1
      OBVIOUS
    <3>2. PICK d : d = IF b < i THEN b ELSE b + 1
      OBVIOUS
    <3>3. c \in 1 .. Len(s) /\ d \in 1 .. Len(s) /\ c < d
      BY <3>0, <3>1, <3>2, <2>6
    <3>4. r[a] = s[c] /\ r[b] = s[d]
      BY <3>0, <3>1, <3>2, <2>5
    <3> QED
      BY <3>3, <3>4 DEF SortedBy
  <2> QED
    BY <2>4, <2>6 DEF SortedBy
<1>2. CASE t \notin ToSet(s)
  BY <1>2 DEF Without
<1> QED
  BY <1>1, <1>2

\* An element that is linked behind those with a key no greater than its own, and in
\* front of one with a greater key, keeps the order.
LEMMA SortedInsertAt ==
    ASSUME NEW S, NEW s \in Seq(S), NEW t \in S, NEW f, \A u \in S : f[u] \in Int,
           SortedBy(f, s), NEW i \in 1 .. Len(s) + 1,
           \A j \in 1 .. i - 1 : f[s[j]] <= f[t],
           i <= Len(s) => f[t] < f[s[i]]
    PROVE  SortedBy(f, InsertAt(s, i, t))
<1>2. i \in 1 .. Len(s) + 1
  OBVIOUS
<1>3. PICK r : r = InsertAt(s, i, t)
  OBVIOUS
<1>4. /\ r \in Seq(S) /\ Len(r) = Len(s) + 1 /\ r[i] = t
      /\ \A j \in 1 .. i - 1 : r[j] = s[j]
      /\ \A j \in i .. Len(s) : r[j + 1] = s[j]
  BY <1>2, <1>3, InsertAtList
<1>5. \A j \in 1 .. Len(s) : f[s[j]] \in Int
  OBVIOUS
<1>6. \A j \in i .. Len(s) : f[t] <= f[s[j]]
  <2> SUFFICES ASSUME NEW j \in i .. Len(s) PROVE f[t] <= f[s[j]]
    OBVIOUS
  <2>1. i \in 1 .. Len(s) /\ j \in 1 .. Len(s) /\ f[t] < f[s[i]]
    BY <1>2
  <2>2. f[s[i]] <= f[s[j]]
    BY <2>1, <1>5 DEF SortedBy
  <2> QED
    BY <2>1, <2>2, <1>5
<1>7. ASSUME NEW a \in 1 .. Len(r), NEW b \in 1 .. Len(r), a < b
      PROVE  f[r[a]] <= f[r[b]]
  <2>1. CASE b < i
    <3>1. r[a] = s[a] /\ r[b] = s[b] /\ a \in 1 .. Len(s) /\ b \in 1 .. Len(s)
      BY <2>1, <1>2, <1>4, <1>7
    <3> QED
      BY <3>1, <1>7 DEF SortedBy
  <2>2. CASE b = i
    <3>1. r[a] = s[a] /\ r[b] = t /\ a \in 1 .. i - 1
      BY <2>2, <1>2, <1>4, <1>7
    <3> QED
      BY <3>1, <1>2
  <2>3. CASE b > i
    <3>1. b - 1 \in i .. Len(s) /\ b - 1 \in 1 .. Len(s) /\ r[b] = s[b - 1]
      <4>1. b - 1 \in i .. Len(s) /\ b - 1 \in 1 .. Len(s) /\ (b - 1) + 1 = b
        BY <2>3, <1>2, <1>4
      <4> QED
        BY <4>1, <1>4
    <3>2. CASE a < i
      <4>1. r[a] = s[a] /\ a \in 1 .. i - 1 /\ a \in 1 .. Len(s)
        BY <3>2, <1>2, <1>4, <1>7
      <4>2. a < b - 1
        BY <3>2, <2>3, <1>2
      <4> QED
        BY <3>1, <4>1, <4>2 DEF SortedBy
    <3>3. CASE a = i
      BY <3>1, <3>3, <1>4, <1>6
    <3>4. CASE a > i
      <4>1. a - 1 \in i .. Len(s) /\ a - 1 \in 1 .. Len(s) /\ (a - 1) + 1 = a /\ a - 1 < b - 1
        BY <3>4, <1>2, <1>4, <1>7
      <4>2. r[a] = s[a - 1]
        BY <4>1, <1>4
      <4> QED
        BY <3>1, <4>1, <4>2 DEF SortedBy
    <3> QED
      BY <3>2, <3>3, <3>4, <1>2
  <2> QED
    BY <2>1, <2>2, <2>3, <1>2
<1> QED
  BY <1>3, <1>7 DEF SortedBy

-----------------------------------------------------------------------------
(* The effect of the list operations on the lists of a kernel state.       *)

\* The bitmap, in terms of the threads that are linked.
GroupOK(k) == \A p \in Prio : p \in k.group <=> \E u \in Thread : Linked(k, p, u)

\* The lists of a kernel state hold threads.
LEMMA ListTypes ==
    ASSUME NEW k \in KernelState, NEW l \in Prio \cup Queue
    PROVE  /\ k.list[l] \in Seq(Thread)
           /\ k.list[l] = <<>> <=> \A u \in Thread : ~ Linked(k, l, u)
           /\ \A u : Linked(k, l, u) => u \in Thread
<1>1. k.list[l] \in Seq(Thread)
  BY DEF KernelState
<1>2. ToSet(k.list[l]) \subseteq Thread
  BY <1>1 DEF ToSet
<1>3. k.list[l] = <<>> <=> ToSet(k.list[l]) = {}
  BY <1>1, EmptyList
<1> QED
  BY <1>1, <1>2, <1>3 DEF Linked

\* The bitmap is right when its bits tell which priorities have a thread.
LEMMA GroupAsLinks ==
    ASSUME NEW k \in KernelState
    PROVE  GroupIsReadyTable(k) <=> GroupOK(k)
<1>1. k.group \subseteq Prio
  BY DEF KernelState
<1>2. \A p \in Prio : k.list[p] # <<>> <=> \E u \in Thread : Linked(k, p, u)
  BY ListTypes
<1> QED
  BY <1>1, <1>2 DEF GroupIsReadyTable, GroupOK

\* Everything but the lists, the bitmap and the state of t is as before.
SameBut(k, r, t) ==
    /\ r.cur = k.cur /\ r.yield = k.yield /\ r.prio = k.prio /\ r.lock = k.lock
    /\ r.timer = k.timer /\ r.err = k.err /\ r.sig = k.sig
    /\ \A u \in Thread \ {t} : r.stat[u] = k.stat[u]

\* rt_list_remove unlinks the thread and no other.
LEMMA UnlinkLists ==
    ASSUME NEW k \in KernelState, NodesLinkedOnce(k), NEW t \in Thread
    PROVE  LET r == rt_list_remove(k, t)
           IN /\ r \in KernelState
              /\ NodesLinkedOnce(r)
              /\ \A l \in Prio \cup Queue : \A u :
                    Linked(r, l, u) <=> Linked(k, l, u) /\ u # t
              /\ SameBut(k, r, t) /\ r.stat = k.stat /\ r.group = k.group
<1> DEFINE r == rt_list_remove(k, t)
<1>1. \A l \in Prio \cup Queue :
         /\ r.list[l] \in Seq(Thread)
         /\ ToSet(r.list[l]) = ToSet(k.list[l]) \ {t}
         /\ NoRepeats(r.list[l])
  <2> TAKE l \in Prio \cup Queue
  <2>1. r.list[l] = Without(k.list[l], t)
    BY DEF rt_list_remove, KernelState
  <2>2. k.list[l] \in Seq(Thread) /\ NoRepeats(k.list[l])
    BY DEF KernelState, NodesLinkedOnce
  <2> QED
    BY <2>1, <2>2, WithoutList
<1>2. r.list = [l \in Prio \cup Queue |-> Without(k.list[l], t)]
  BY DEF rt_list_remove, KernelState
<1>3. /\ r.cur = k.cur /\ r.yield = k.yield /\ r.prio = k.prio /\ r.lock = k.lock
      /\ r.timer = k.timer /\ r.err = k.err /\ r.sig = k.sig
      /\ r.stat = k.stat /\ r.group = k.group
  BY DEF rt_list_remove, KernelState
<1>4. r \in KernelState
  <2>1. [l \in Prio \cup Queue |-> Without(k.list[l], t)] \in [Prio \cup Queue -> Seq(Thread)]
    BY <1>1, <1>2
  <2> QED
    BY <2>1 DEF rt_list_remove, KernelState
<1>5. \A l \in Prio \cup Queue : \A u : Linked(r, l, u) <=> Linked(k, l, u) /\ u # t
  BY <1>1 DEF Linked
<1>6. NodesLinkedOnce(r)
  BY <1>1, <1>5 DEF NodesLinkedOnce
<1> QED
  BY <1>3, <1>4, <1>5, <1>6 DEF SameBut

\* rt_schedule_insert_thread links a thread that is in no list at the end of
\* its ready list.
LEMMA InsertLinks ==
    ASSUME NEW k \in KernelState, NodesLinkedOnce(k), GroupOK(k),
           NEW t \in Thread, t # k.cur,
           \A l \in Prio \cup Queue : ~ Linked(k, l, t)
    PROVE  LET r == rt_schedule_insert_thread(k, t)
           IN /\ r \in KernelState
              /\ NodesLinkedOnce(r)
              /\ GroupOK(r)
              /\ \A l \in Prio \cup Queue : \A u :
                    Linked(r, l, u) <=> Linked(k, l, u) \/ (l = k.prio[t] /\ u = t)
              /\ SameBut(k, r, t) /\ r.stat[t] = "READY"
<1> DEFINE r == rt_schedule_insert_thread(k, t)
           p == k.prio[t]
<1>0. p \in Prio
  BY DEF KernelState
<1>1. /\ Append(k.list[p], t) \in Seq(Thread)
      /\ ToSet(Append(k.list[p], t)) = ToSet(k.list[p]) \cup {t}
      /\ NoRepeats(Append(k.list[p], t))
  <2>1. k.list[p] \in Seq(Thread) /\ NoRepeats(k.list[p]) /\ t \notin ToSet(k.list[p])
    BY <1>0 DEF KernelState, NodesLinkedOnce, Linked
  <2> QED
    BY <2>1, AppendList
<1>2. r = [k EXCEPT !.stat[t] = "READY", !.list[k.prio[t]] = Append(@, t),
                    !.group = @ \cup {k.prio[t]}]
  BY DEF rt_schedule_insert_thread
<1>3. /\ r.cur = k.cur /\ r.yield = k.yield /\ r.prio = k.prio /\ r.lock = k.lock
      /\ r.timer = k.timer /\ r.err = k.err /\ r.sig = k.sig
      /\ r.stat = [k.stat EXCEPT ![t] = "READY"]
      /\ r.list = [k.list EXCEPT ![p] = Append(k.list[p], t)]
      /\ r.group = k.group \cup {p}
  BY <1>2 DEF KernelState
<1>4. r \in KernelState
  <2>1. [k.list EXCEPT ![p] = Append(k.list[p], t)] \in [Prio \cup Queue -> Seq(Thread)]
    BY <1>0, <1>1 DEF KernelState
  <2>2. [k.stat EXCEPT ![t] = "READY"] \in [Thread -> Stat]
    BY DEF KernelState, Stat
  <2>3. k.group \cup {p} \in SUBSET Prio
    BY <1>0 DEF KernelState
  <2>4. r = [k EXCEPT !.stat = [k.stat EXCEPT ![t] = "READY"],
                      !.list = [k.list EXCEPT ![p] = Append(k.list[p], t)],
                      !.group = k.group \cup {p}]
    BY <1>2 DEF KernelState
  <2> HIDE DEF r, p
  <2> QED
    BY <2>1, <2>2, <2>3, <2>4 DEF KernelState
<1>5. \A l \in Prio \cup Queue : r.list[l] = IF l = p THEN Append(k.list[p], t) ELSE k.list[l]
  BY <1>0, <1>3 DEF KernelState
<1>6. \A l \in Prio \cup Queue : \A u : Linked(r, l, u) <=> Linked(k, l, u) \/ (l = p /\ u = t)
  BY <1>1, <1>5 DEF Linked
<1>7. NodesLinkedOnce(r)
  BY <1>1, <1>5, <1>6 DEF NodesLinkedOnce
<1>8. GroupOK(r)
  BY <1>0, <1>3, <1>6 DEF GroupOK
<1>9. r.stat[t] = "READY" /\ \A u \in Thread \ {t} : r.stat[u] = k.stat[u]
  BY <1>3 DEF KernelState
<1> HIDE DEF r
<1> QED
  BY <1>3, <1>4, <1>6, <1>7, <1>8, <1>9 DEF SameBut, r

\* rt_schedule_remove_thread unlinks a thread and keeps the bitmap right,
\* provided the thread was in no ready list but that of its priority.
LEMMA RemoveLinks ==
    ASSUME NEW k \in KernelState, NodesLinkedOnce(k), GroupOK(k), NEW t \in Thread,
           \A p \in Prio : Linked(k, p, t) => p = k.prio[t]
    PROVE  LET r == rt_schedule_remove_thread(k, t)
           IN /\ r \in KernelState
              /\ NodesLinkedOnce(r)
              /\ GroupOK(r)
              /\ \A l \in Prio \cup Queue : \A u :
                    Linked(r, l, u) <=> Linked(k, l, u) /\ u # t
              /\ SameBut(k, r, t) /\ r.stat = k.stat
<1> DEFINE r == rt_schedule_remove_thread(k, t)
           m == rt_list_remove(k, t)
           p == k.prio[t]
<1>0. p \in Prio
  BY DEF KernelState
<1>1. /\ m \in KernelState
      /\ NodesLinkedOnce(m)
      /\ \A l \in Prio \cup Queue : \A u : Linked(m, l, u) <=> Linked(k, l, u) /\ u # t
      /\ SameBut(k, m, t) /\ m.stat = k.stat /\ m.group = k.group
  BY UnlinkLists
<1>2. r = IF m.list[p] = <<>> THEN [m EXCEPT !.group = @ \ {p}] ELSE m
  BY <1>1 DEF rt_schedule_remove_thread, SameBut
<1> HIDE DEF m, r
<1>3. m.list[p] = <<>> <=> \A u \in Thread : ~ Linked(m, p, u)
  BY <1>0, <1>1, ListTypes
<1>4. CASE m.list[p] = <<>>
  <2>1. r = [m EXCEPT !.group = @ \ {p}]
    BY <1>2, <1>4
  <2>2. /\ r.cur = m.cur /\ r.yield = m.yield /\ r.prio = m.prio /\ r.lock = m.lock
        /\ r.timer = m.timer /\ r.err = m.err /\ r.sig = m.sig
        /\ r.stat = m.stat /\ r.list = m.list /\ r.group = m.group \ {p}
        /\ r \in KernelState
    BY <2>1, <1>1 DEF KernelState
  <2>3. \A l, u : Linked(r, l, u) <=> Linked(m, l, u)
    BY <2>2 DEF Linked
  <2>4. NodesLinkedOnce(r)
    BY <2>2, <2>3, <1>1 DEF NodesLinkedOnce
  <2>5. GroupOK(r)
    BY <2>2, <2>3, <1>0, <1>1, <1>3, <1>4 DEF GroupOK
  <2> QED
    BY <2>2, <2>3, <2>4, <2>5, <1>1 DEF SameBut, r
<1>5. CASE m.list[p] # <<>>
  <2>1. r = m
    BY <1>2, <1>5
  <2>2. GroupOK(r)
    BY <2>1, <1>0, <1>1, <1>3, <1>5 DEF GroupOK
  <2> QED
    BY <2>1, <2>2, <1>1 DEF r
<1> QED
  BY <1>4, <1>5

-----------------------------------------------------------------------------
(* The functions of the kernel preserve KernelOK.                          *)

Sound(k) == k \in KernelState /\ KernelOK(k)

\* What KernelOK says of one thread.
ThreadOK(k, u) ==
    /\ \A p \in Prio : Linked(k, p, u) <=> (k.stat[u] = "READY" /\ k.prio[u] = p)
    /\ \A q \in Queue : Linked(k, q, u) => Suspended(k, u)
    /\ k.stat[u] = "RUNNING" => u = k.cur
    /\ u = k.cur => k.stat[u] # "READY"
    /\ u = Idle => k.stat[u] \in {"READY", "RUNNING"}
    /\ u \in k.timer => Suspended(k, u)

\* KernelOK, thread by thread.
LEMMA SoundFacts ==
    ASSUME NEW k
    PROVE  Sound(k) <=> /\ k \in KernelState
                        /\ NodesLinkedOnce(k) /\ GroupOK(k)
                        /\ \A u \in Thread : ThreadOK(k, u)
<1> SUFFICES ASSUME k \in KernelState
             PROVE  ListsMatchStat(k) /\ CurrentIsApart(k) /\ ThreadTimeoutAssertion(k)
                    <=> \A u \in Thread : ThreadOK(k, u)
  BY GroupAsLinks DEF Sound, KernelOK
<1>1. k.cur \in Thread /\ Idle \in Thread /\ k.timer \subseteq Thread
  BY KernelAssumption DEF KernelState
<1> QED
  BY <1>1 DEF ListsMatchStat, CurrentIsApart, ThreadTimeoutAssertion, ThreadOK

\* A set of priorities that is not empty has a most urgent one.
LEMMA MostUrgentExists ==
    ASSUME NEW G \in SUBSET Prio, G # {}
    PROVE  \E p \in G : \A r \in G : p <= r
<1>1. G \subseteq Nat
  BY KernelAssumption
<1> QED
  BY <1>1, LeastPosition

\* Everything right except for one thread, which is in no list.
SoundBut(k, t) ==
    /\ k \in KernelState
    /\ NodesLinkedOnce(k) /\ GroupOK(k)
    /\ \A l \in Prio \cup Queue : ~ Linked(k, l, t)
    /\ \A u \in Thread \ {t} : ThreadOK(k, u)

\* The lists of IPC objects hold the same threads in both states.
SameWaiters(k, r) == \A q \in Queue : \A u : Linked(r, q, u) <=> Linked(k, q, u)

\* Writing thread->stat leaves the lists alone.
LEMMA SetStat ==
    ASSUME NEW k \in KernelState, NEW t \in Thread, NEW v \in Stat
    PROVE  LET r == [k EXCEPT !.stat[t] = v]
           IN /\ r \in KernelState
              /\ r.list = k.list /\ r.group = k.group
              /\ SameBut(k, r, t) /\ r.stat[t] = v
              /\ \A l, u : Linked(r, l, u) <=> Linked(k, l, u)
              /\ GroupOK(k) => GroupOK(r)
              /\ NodesLinkedOnce(k) => NodesLinkedOnce(r)
<1> DEFINE r == [k EXCEPT !.stat[t] = v]
<1>1. /\ r.cur = k.cur /\ r.yield = k.yield /\ r.prio = k.prio /\ r.lock = k.lock
      /\ r.timer = k.timer /\ r.err = k.err /\ r.sig = k.sig
      /\ r.list = k.list /\ r.group = k.group
      /\ r.stat = [k.stat EXCEPT ![t] = v]
  BY DEF KernelState
<1>2. [k.stat EXCEPT ![t] = v] \in [Thread -> Stat]
  BY DEF KernelState
<1>3. r \in KernelState
  BY <1>2 DEF KernelState
<1>4. r.stat[t] = v /\ \A u \in Thread \ {t} : r.stat[u] = k.stat[u]
  BY <1>1 DEF KernelState
<1> HIDE DEF r
<1>5. \A l, u : Linked(r, l, u) <=> Linked(k, l, u)
  BY <1>1 DEF Linked
<1>6. NodesLinkedOnce(k) => NodesLinkedOnce(r)
  BY <1>1, <1>5 DEF NodesLinkedOnce
<1>7. GroupOK(k) => GroupOK(r)
  BY <1>1, <1>5 DEF GroupOK
<1> QED
  BY <1>1, <1>3, <1>4, <1>5, <1>6, <1>7 DEF SameBut, r

\* rt_schedule_insert_thread makes everything right again when the thread was
\* the only one that was not.
LEMMA InsertSound ==
    ASSUME NEW k, NEW t \in Thread, SoundBut(k, t), t \notin k.timer
    PROVE  LET r == rt_schedule_insert_thread(k, t)
           IN Sound(r) /\ SameBut(k, r, t) /\ SameWaiters(k, r)
<1> DEFINE r == rt_schedule_insert_thread(k, t)
<1>0. k \in KernelState /\ k.cur \in Thread
  BY DEF SoundBut, KernelState
<1>1. CASE t = k.cur
  <2>1. r = [k EXCEPT !.stat[t] = "RUNNING"]
    BY <1>1 DEF rt_schedule_insert_thread
  <2>2. /\ r \in KernelState /\ SameBut(k, r, t) /\ r.stat[t] = "RUNNING"
        /\ \A l, u : Linked(r, l, u) <=> Linked(k, l, u)
        /\ NodesLinkedOnce(r) /\ GroupOK(r)
    BY <2>1, <1>0, SetStat DEF SoundBut, Stat
  <2> HIDE DEF r
  <2>3. \A u \in Thread \ {t} : ThreadOK(r, u)
    BY <2>2 DEF SoundBut, ThreadOK, SameBut, Suspended
  <2>4. ThreadOK(r, t)
    BY <2>2, <1>1 DEF SoundBut, ThreadOK, SameBut
  <2> QED
    BY <2>2, <2>3, <2>4, SoundFacts DEF SameWaiters, r
<1>2. CASE t # k.cur
  <2>1. /\ r \in KernelState /\ NodesLinkedOnce(r) /\ GroupOK(r)
        /\ \A l \in Prio \cup Queue : \A u :
              Linked(r, l, u) <=> Linked(k, l, u) \/ (l = k.prio[t] /\ u = t)
        /\ SameBut(k, r, t) /\ r.stat[t] = "READY"
    BY <1>2, InsertLinks DEF SoundBut
  <2> HIDE DEF r
  <2>2. k.prio[t] \in Prio /\ k.prio[t] \notin Queue
    BY <1>0, KernelAssumption DEF KernelState
  <2>3. \A u \in Thread \ {t} : ThreadOK(r, u)
    BY <2>1 DEF SoundBut, ThreadOK, SameBut, Suspended
  <2>4. ThreadOK(r, t)
    BY <2>1, <2>2, <1>2 DEF SoundBut, ThreadOK, SameBut
  <2>5. SameWaiters(k, r)
    BY <2>1, <2>2 DEF SameWaiters
  <2> QED
    BY <2>1, <2>3, <2>4, <2>5, SoundFacts DEF r
<1> QED
  BY <1>1, <1>2

\* Clearing timers and setting the error, the signals or the yield flags of
\* threads does not disturb the lists.
LEMMA MiscSound ==
    ASSUME NEW k \in KernelState, NEW r \in KernelState,
           r.list = k.list, r.group = k.group, r.stat = k.stat, r.cur = k.cur,
           r.prio = k.prio, r.timer \subseteq k.timer
    PROVE  /\ Sound(k) => Sound(r)
           /\ \A t \in Thread : SoundBut(k, t) => SoundBut(r, t)
           /\ \A l, u : Linked(r, l, u) <=> Linked(k, l, u)
<1>1. \A l, u : Linked(r, l, u) <=> Linked(k, l, u)
  BY DEF Linked
<1>2. NodesLinkedOnce(k) => NodesLinkedOnce(r)
  BY <1>1 DEF NodesLinkedOnce
<1>3. GroupOK(k) => GroupOK(r)
  BY <1>1 DEF GroupOK
<1>4. \A u \in Thread : ThreadOK(k, u) => ThreadOK(r, u)
  BY <1>1 DEF ThreadOK, Suspended
<1>5. Sound(k) => Sound(r)
  BY <1>2, <1>3, <1>4, SoundFacts
<1>6. \A t \in Thread : SoundBut(k, t) => SoundBut(r, t)
  BY <1>1, <1>2, <1>3, <1>4 DEF SoundBut
<1> QED
  BY <1>1, <1>5, <1>6

\* Taking a thread out of its list leaves everything else right.
LEMMA RemoveSound ==
    ASSUME NEW k, Sound(k), NEW t \in Thread
    PROVE  LET r == rt_schedule_remove_thread(k, t)
           IN /\ SoundBut(r, t) /\ SameBut(k, r, t) /\ r.stat = k.stat
              /\ \A q \in Queue : \A u : Linked(r, q, u) <=> Linked(k, q, u) /\ u # t
<1> DEFINE r == rt_schedule_remove_thread(k, t)
<1>1. /\ k \in KernelState /\ NodesLinkedOnce(k) /\ GroupOK(k)
      /\ \A u \in Thread : ThreadOK(k, u)
  BY SoundFacts
<1>2. /\ r \in KernelState /\ NodesLinkedOnce(r) /\ GroupOK(r)
      /\ \A l \in Prio \cup Queue : \A u : Linked(r, l, u) <=> Linked(k, l, u) /\ u # t
      /\ SameBut(k, r, t) /\ r.stat = k.stat
  BY <1>1, RemoveLinks DEF ThreadOK
<1> HIDE DEF r
<1>3. \A u \in Thread \ {t} : ThreadOK(r, u)
  BY <1>1, <1>2 DEF ThreadOK, SameBut, Suspended
<1> QED
  BY <1>2, <1>3 DEF SoundBut, r

\* For a suspended thread rt_list_remove is enough: it is in no ready list.
LEMMA UnlinkSound ==
    ASSUME NEW k, Sound(k), NEW t \in Thread, Suspended(k, t)
    PROVE  LET r == rt_list_remove(k, t)
           IN /\ SoundBut(r, t) /\ SameBut(k, r, t) /\ r.stat = k.stat
              /\ \A q \in Queue : \A u : Linked(r, q, u) <=> Linked(k, q, u) /\ u # t
<1> DEFINE r == rt_list_remove(k, t)
<1>1. /\ k \in KernelState /\ NodesLinkedOnce(k) /\ GroupOK(k)
      /\ \A u \in Thread : ThreadOK(k, u)
  BY SoundFacts
<1>2. /\ r \in KernelState /\ NodesLinkedOnce(r)
      /\ \A l \in Prio \cup Queue : \A u : Linked(r, l, u) <=> Linked(k, l, u) /\ u # t
      /\ SameBut(k, r, t) /\ r.stat = k.stat /\ r.group = k.group
  BY <1>1, UnlinkLists
<1> HIDE DEF r
<1>3. \A p \in Prio : ~ Linked(k, p, t)
  BY <1>1 DEF ThreadOK, Suspended, SuspendFlag
<1>4. GroupOK(r)
  BY <1>1, <1>2, <1>3 DEF GroupOK
<1>5. \A u \in Thread \ {t} : ThreadOK(r, u)
  BY <1>1, <1>2 DEF ThreadOK, SameBut, Suspended
<1> QED
  BY <1>2, <1>4, <1>5 DEF SoundBut, r

\* rt_thread_suspend_with_flag: a running or ready thread leaves the ready
\* table; any thread but the idle one may.
LEMMA SuspendSound ==
    ASSUME NEW k, Sound(k), NEW t \in App, NEW flag \in SuspendFlag,
           k.stat[t] \in {"READY", "RUNNING"}
    PROVE  LET r == rt_thread_suspend_with_flag(k, t, flag)
           IN /\ Sound(r) /\ Suspended(r, t) /\ SameWaiters(k, r)
              /\ \A l \in Prio \cup Queue : ~ Linked(r, l, t)
              /\ r.cur = k.cur /\ r.err = k.err /\ r.prio = k.prio
<1> DEFINE m == rt_schedule_remove_thread(k, t)
           n == [m EXCEPT !.stat[t] = flag]
           r == rt_thread_suspend_with_flag(k, t, flag)
<1>0. t \in Thread /\ t # Idle
  BY DEF App
<1>1. /\ SoundBut(m, t) /\ SameBut(k, m, t) /\ m.stat = k.stat
      /\ \A q \in Queue : \A u : Linked(m, q, u) <=> Linked(k, q, u) /\ u # t
  BY <1>0, RemoveSound
<1>2. r = [m EXCEPT !.stat[t] = flag, !.timer = @ \ {t}]
  BY DEF rt_thread_suspend_with_flag
<1> HIDE DEF m
<1>3. /\ n \in KernelState /\ n.list = m.list /\ n.group = m.group
      /\ SameBut(m, n, t) /\ n.stat[t] = flag
      /\ \A l, u : Linked(n, l, u) <=> Linked(m, l, u)
      /\ GroupOK(n) /\ NodesLinkedOnce(n)
  BY <1>0, <1>1, SetStat DEF SoundBut, Stat
<1>4. r = [n EXCEPT !.timer = n.timer \ {t}]
  BY <1>2, <1>1 DEF SoundBut, KernelState
<1> HIDE DEF n, r
<1>5. /\ r \in KernelState /\ r.list = n.list /\ r.group = n.group /\ r.stat = n.stat
      /\ r.cur = n.cur /\ r.prio = n.prio /\ r.err = n.err
      /\ r.timer = n.timer \ {t}
  BY <1>3, <1>4 DEF KernelState
<1>6. \A u \in Thread \ {t} : ThreadOK(n, u)
  BY <1>1, <1>3 DEF SoundBut, ThreadOK, SameBut, Suspended
<1>7. SoundBut(n, t)
  BY <1>1, <1>3, <1>6 DEF SoundBut
<1>8. SoundBut(r, t)
  BY <1>0, <1>3, <1>5, <1>7, MiscSound
<1>9. ThreadOK(r, t) /\ Suspended(r, t)
  BY <1>0, <1>3, <1>5, <1>8 DEF SoundBut, ThreadOK, Suspended, SuspendFlag
<1>10. Sound(r)
  BY <1>8, <1>9, SoundFacts DEF SoundBut
<1>11. \A q \in Queue : ~ Linked(k, q, t)
  <2>1. ThreadOK(k, t)
    BY <1>0, SoundFacts
  <2> QED
    BY <2>1 DEF ThreadOK, Suspended, SuspendFlag
<1>12. SameWaiters(k, r)
  BY <1>1, <1>3, <1>5, <1>11 DEF SameWaiters, Linked
<1> QED
  BY <1>1, <1>3, <1>5, <1>8, <1>9, <1>10, <1>12 DEF SoundBut, SameBut, r

\* A function that resumes threads adds none to the list of an IPC object.
NoNewWaiters(k, r) == \A q \in Queue : \A u : Linked(r, q, u) => Linked(k, q, u)

\* rt_thread_resume: a suspended thread leaves the list it waits in and becomes
\* ready, or running again when it had not been switched out yet.
LEMMA ResumeSound ==
    ASSUME NEW k, Sound(k), NEW t \in Thread
    PROVE  LET r == rt_thread_resume(k, t)
           IN /\ Sound(r)
              /\ \A q \in Queue : \A u : Linked(r, q, u) <=> Linked(k, q, u) /\ u # t
              /\ r.cur = k.cur /\ r.err = k.err /\ r.prio = k.prio
<1> DEFINE r == rt_thread_resume(k, t)
<1>1. CASE ~ Suspended(k, t)
  <2>1. r = k
    BY <1>1 DEF rt_thread_resume
  <2>2. ThreadOK(k, t)
    BY SoundFacts
  <2> QED
    BY <2>1, <2>2, <1>1 DEF ThreadOK
<1>2. CASE Suspended(k, t)
  <2>0. PICK m : m = rt_list_remove(k, t)
    OBVIOUS
  <2>1. /\ SoundBut(m, t) /\ SameBut(k, m, t) /\ m.stat = k.stat
        /\ \A q \in Queue : \A u : Linked(m, q, u) <=> Linked(k, q, u) /\ u # t
    BY <2>0, <1>2, UnlinkSound
  <2>2. PICK n : n = [m EXCEPT !.timer = m.timer \ {t}]
    OBVIOUS
  <2>3. /\ n \in KernelState /\ n.list = m.list /\ n.group = m.group /\ n.stat = m.stat
        /\ n.cur = m.cur /\ n.prio = m.prio /\ n.err = m.err
        /\ n.timer = m.timer \ {t}
    BY <2>1, <2>2 DEF SoundBut, KernelState
  <2>4. SoundBut(n, t) /\ \A l, u : Linked(n, l, u) <=> Linked(m, l, u)
    <3>1. m \in KernelState
      BY <2>1 DEF SoundBut
    <3> QED
      BY <3>1, <2>1, <2>3, MiscSound
  <2>5. r = rt_schedule_insert_thread(n, t)
    BY <1>2, <2>0, <2>2 DEF rt_thread_resume
  <2> HIDE DEF r
  <2>6. Sound(r) /\ SameBut(n, r, t) /\ SameWaiters(n, r)
    BY <2>3, <2>4, <2>5, InsertSound
  <2> QED
    BY <2>1, <2>3, <2>4, <2>6 DEF SameBut, SameWaiters, r
<1> QED
  BY <1>1, <1>2

\* The switch of rt_schedule to a thread at the head of a ready list.
LEMMA SwitchSound ==
    ASSUME NEW k, Sound(k), NEW to \in Thread, to # k.cur, k.stat[to] = "READY"
    PROVE  LET r == SwitchTo(k, to)
           IN Sound(r) /\ SameWaiters(k, r) /\ r.prio = k.prio /\ r.err = k.err
<1>1. /\ k \in KernelState /\ NodesLinkedOnce(k) /\ GroupOK(k)
      /\ \A u \in Thread : ThreadOK(k, u)
  BY SoundFacts
<1>2. PICK from : from = k.cur
  OBVIOUS
<1>3. from \in Thread /\ from # to
  BY <1>1, <1>2 DEF KernelState
<1>4. PICK s : s = [k EXCEPT !.cur = to]
  OBVIOUS
<1>5. /\ s \in KernelState /\ s.cur = to
      /\ s.list = k.list /\ s.group = k.group /\ s.stat = k.stat /\ s.prio = k.prio
      /\ s.timer = k.timer /\ s.err = k.err
  BY <1>1, <1>4 DEF KernelState
<1>6. \A l, u : Linked(s, l, u) <=> Linked(k, l, u)
  BY <1>5 DEF Linked
<1>7. NodesLinkedOnce(s) /\ GroupOK(s)
  BY <1>1, <1>5, <1>6 DEF NodesLinkedOnce, GroupOK
<1>8. PICK f : f = IF k.stat[from] = "RUNNING" THEN rt_schedule_insert_thread(s, from) ELSE s
  OBVIOUS
\* What the insertion of the old thread does to the others.
<1>9. /\ f \in KernelState /\ NodesLinkedOnce(f) /\ GroupOK(f)
      /\ f.cur = to /\ f.prio = k.prio /\ f.timer = k.timer /\ f.err = k.err
      /\ \A u \in Thread \ {from} : f.stat[u] = k.stat[u]
      /\ \A l \in Prio \cup Queue : \A u \in Thread \ {from} : Linked(f, l, u) <=> Linked(k, l, u)
      /\ \A q \in Queue : \A u : Linked(f, q, u) <=> Linked(k, q, u)
      /\ \A p \in Prio : Linked(f, p, from) <=> (f.stat[from] = "READY" /\ f.prio[from] = p)
      /\ f.stat[from] = IF k.stat[from] = "RUNNING" THEN "READY" ELSE k.stat[from]
  <2>1. ThreadOK(k, from)
    BY <1>1, <1>3
  <2>2. CASE k.stat[from] = "RUNNING"
    <3>1. \A l \in Prio \cup Queue : ~ Linked(k, l, from)
      BY <2>1, <2>2 DEF ThreadOK, Suspended, SuspendFlag
    <3>2. f = rt_schedule_insert_thread(s, from)
      BY <2>2, <1>8
    <3>3. /\ f \in KernelState /\ NodesLinkedOnce(f) /\ GroupOK(f)
          /\ \A l \in Prio \cup Queue : \A u :
                Linked(f, l, u) <=> Linked(s, l, u) \/ (l = s.prio[from] /\ u = from)
          /\ SameBut(s, f, from) /\ f.stat[from] = "READY"
      BY <3>1, <3>2, <1>3, <1>5, <1>6, <1>7, InsertLinks
    <3>4. s.prio[from] \in Prio /\ s.prio[from] \notin Queue
      BY <1>3, <1>5, KernelAssumption DEF KernelState
    <3> QED
      BY <3>1, <3>3, <3>4, <2>2, <1>5, <1>6 DEF SameBut
  <2>3. CASE k.stat[from] # "RUNNING"
    <3>1. f = s
      BY <2>3, <1>8
    <3> QED
      BY <3>1, <2>1, <2>3, <1>5, <1>6, <1>7 DEF ThreadOK
  <2> QED
    BY <2>2, <2>3
<1>10. PICK g : g = rt_schedule_remove_thread(f, to)
  OBVIOUS
<1>11. ThreadOK(k, to)
  BY <1>1
<1>12. /\ g \in KernelState /\ NodesLinkedOnce(g) /\ GroupOK(g)
       /\ \A l \in Prio \cup Queue : \A u : Linked(g, l, u) <=> Linked(f, l, u) /\ u # to
       /\ SameBut(f, g, to) /\ g.stat = f.stat
  <2>1. \A p \in Prio : Linked(f, p, to) => p = f.prio[to]
    BY <1>3, <1>9, <1>11 DEF ThreadOK
  <2> QED
    BY <2>1, <1>9, <1>10, RemoveLinks
<1>13. PICK r : r = [g EXCEPT !.stat[to] = "RUNNING"]
  OBVIOUS
<1>14. /\ r \in KernelState /\ SameBut(g, r, to) /\ r.stat[to] = "RUNNING"
       /\ \A l, u : Linked(r, l, u) <=> Linked(g, l, u)
       /\ GroupOK(r) /\ NodesLinkedOnce(r)
  BY <1>12, <1>13, SetStat DEF Stat
<1>15. r = SwitchTo(k, to)
  BY <1>2, <1>4, <1>8, <1>10, <1>13 DEF SwitchTo
<1>16. \A u \in Thread \ {to, from} : ThreadOK(r, u)
  BY <1>1, <1>2, <1>9, <1>12, <1>14 DEF ThreadOK, SameBut, Suspended
<1>17. ThreadOK(r, to)
  BY <1>9, <1>11, <1>12, <1>14 DEF ThreadOK, SameBut, Suspended, SuspendFlag
<1>18. ThreadOK(r, from)
  <2>1. ThreadOK(k, from)
    BY <1>1, <1>3
  <2>2. /\ r.stat[from] = f.stat[from] /\ r.prio = k.prio /\ r.cur = to /\ r.timer = k.timer
        /\ \A l \in Prio \cup Queue : Linked(r, l, from) <=> Linked(f, l, from)
    BY <1>3, <1>9, <1>12, <1>14 DEF SameBut
  <2>3. CASE k.stat[from] = "RUNNING"
    BY <2>1, <2>2, <2>3, <1>3, <1>9 DEF ThreadOK, Suspended, SuspendFlag
  <2>4. CASE k.stat[from] # "RUNNING"
    BY <2>1, <2>2, <2>4, <1>2, <1>3, <1>9 DEF ThreadOK, Suspended
  <2> QED
    BY <2>3, <2>4
<1>19. Sound(r)
  BY <1>3, <1>14, <1>16, <1>17, <1>18, SoundFacts
<1>20. \A q \in Queue : ~ Linked(k, q, to)
  BY <1>11 DEF ThreadOK, Suspended, SuspendFlag
<1>21. SameWaiters(k, r)
  BY <1>9, <1>12, <1>14, <1>20 DEF SameWaiters
<1> QED
  BY <1>9, <1>12, <1>14, <1>15, <1>19, <1>21 DEF SameBut

\* rt_schedule, whether it switches, keeps the running thread or is locked.
LEMMA ScheduleSound ==
    ASSUME NEW k, Sound(k)
    PROVE  LET r == rt_schedule(k)
           IN Sound(r) /\ SameWaiters(k, r) /\ r.prio = k.prio /\ r.err = k.err
<1>1. /\ k \in KernelState /\ NodesLinkedOnce(k) /\ GroupOK(k)
      /\ \A u \in Thread : ThreadOK(k, u)
  BY SoundFacts
<1>2. CASE k.lock # 0 \/ k.group = {}
  BY <1>2 DEF rt_schedule, SameWaiters
<1>3. CASE ~ (k.lock # 0 \/ k.group = {})
  <2>1. PICK highest : highest = HighestReadyPriority(k)
    OBVIOUS
  <2>2. highest \in k.group /\ highest \in Prio
    <3>1. k.group \in SUBSET Prio
      BY <1>1 DEF KernelState
    <3> QED
      BY <3>1, <2>1, <1>3, MostUrgentExists DEF HighestReadyPriority
  <2>3. /\ Head(k.list[highest]) \in Thread
        /\ k.stat[Head(k.list[highest])] = "READY"
    <3>1. \E u \in Thread : Linked(k, highest, u)
      BY <2>2, <1>1 DEF GroupOK
    <3>2. k.list[highest] \in Seq(Thread) /\ k.list[highest] # <<>>
      BY <3>1, <2>2, <1>1, ListTypes
    <3>3. Head(k.list[highest]) \in ToSet(k.list[highest]) /\ Head(k.list[highest]) \in Thread
      BY <3>2, HeadInList
    <3> QED
      BY <3>3, <2>2, <1>1 DEF ThreadOK, Linked
  <2>4. PICK to : to = IF KeepsCurrent(k, highest) THEN k.cur ELSE Head(k.list[highest])
    OBVIOUS
  <2>5. PICK y : y = IF k.stat[k.cur] = "RUNNING" THEN [k EXCEPT !.yield = @ \ {k.cur}] ELSE k
    OBVIOUS
  <2>6. /\ y \in KernelState /\ y.list = k.list /\ y.group = k.group /\ y.stat = k.stat
        /\ y.cur = k.cur /\ y.prio = k.prio /\ y.err = k.err /\ y.timer = k.timer
    BY <2>5, <1>1 DEF KernelState
  <2>7. Sound(y) /\ SameWaiters(k, y)
    BY <2>6, <1>1, MiscSound DEF SameWaiters
  <2>8. CASE to # k.cur
    <3>1. rt_schedule(k) = SwitchTo(y, to)
      BY <2>1, <2>4, <2>5, <2>8, <1>3 DEF rt_schedule
    <3>2. to \in Thread /\ y.stat[to] = "READY" /\ to # y.cur
      BY <2>3, <2>4, <2>6, <2>8
    <3>3. PICK r : r = SwitchTo(y, to)
      OBVIOUS
    <3>4. Sound(r) /\ SameWaiters(y, r) /\ r.prio = y.prio /\ r.err = y.err
      BY <3>2, <3>3, <2>7, SwitchSound
    <3> QED
      BY <3>1, <3>3, <3>4, <2>6, <2>7 DEF SameWaiters
  <2>9. CASE to = k.cur
    <3>1. PICK g : g = rt_schedule_remove_thread(y, to)
      OBVIOUS
    <3>2. PICK r : r = [g EXCEPT !.stat[to] = "RUNNING"]
      OBVIOUS
    <3>3. rt_schedule(k) = r
      BY <3>1, <3>2, <2>1, <2>4, <2>5, <2>9, <1>3 DEF rt_schedule
    <3>4. to \in Thread
      BY <2>9, <1>1 DEF KernelState
    <3>5. ThreadOK(y, to) /\ y.stat[to] # "READY" /\ k.stat[to] = y.stat[to]
      BY <3>4, <2>6, <2>7, <2>9, SoundFacts DEF ThreadOK
    <3>6. k.stat[to] = "RUNNING"
      BY <3>5, <2>3, <2>4, <2>9 DEF KeepsCurrent
    <3>7. /\ SoundBut(g, to) /\ SameBut(y, g, to) /\ g.stat = y.stat
          /\ \A q \in Queue : \A u : Linked(g, q, u) <=> Linked(y, q, u) /\ u # to
      BY <3>1, <3>4, <2>7, RemoveSound
    <3>8. /\ r \in KernelState /\ SameBut(g, r, to) /\ r.stat[to] = "RUNNING"
          /\ \A l, u : Linked(r, l, u) <=> Linked(g, l, u)
          /\ GroupOK(r) /\ NodesLinkedOnce(r)
      BY <3>2, <3>4, <3>7, SetStat DEF SoundBut, Stat
    <3>9. \A u \in Thread \ {to} : ThreadOK(r, u)
      BY <3>7, <3>8 DEF SoundBut, ThreadOK, SameBut, Suspended
    <3>10. ThreadOK(r, to)
      BY <3>5, <3>6, <3>7, <3>8, <2>6, <2>9 DEF SoundBut, ThreadOK, SameBut, Suspended, SuspendFlag
    <3>11. Sound(r)
      BY <3>8, <3>9, <3>10, SoundFacts
    <3>12. SameWaiters(k, r)
      BY <3>5, <3>6, <3>7, <3>8, <2>7 DEF SameWaiters, ThreadOK, Suspended, SuspendFlag
    <3> QED
      BY <3>3, <3>7, <3>8, <3>11, <3>12, <2>6 DEF SameBut
  <2> QED
    BY <2>8, <2>9
<1> QED
  BY <1>2, <1>3

\* rt_thread_timeout, for a thread whose thread_timer is running.
LEMMA TimeoutSound ==
    ASSUME NEW k, Sound(k), NEW t \in Thread, t \in k.timer
    PROVE  LET r == rt_thread_timeout(k, t)
           IN Sound(r) /\ NoNewWaiters(k, r) /\ r.prio = k.prio
<1>1. k \in KernelState /\ Suspended(k, t)
  BY SoundFacts DEF ThreadOK
<1>2. PICK e : e = [k EXCEPT !.timer = @ \ {t}, !.err[t] = "ETIMEOUT"]
  OBVIOUS
<1>3. /\ e.list = k.list /\ e.group = k.group /\ e.stat = k.stat
      /\ e.cur = k.cur /\ e.prio = k.prio /\ e.timer = k.timer \ {t}
      /\ e.yield = k.yield /\ e.lock = k.lock /\ e.sig = k.sig
      /\ e.err = [k.err EXCEPT ![t] = "ETIMEOUT"]
  BY <1>1, <1>2 DEF KernelState
<1>4. e \in KernelState
  <2>1. [k.err EXCEPT ![t] = "ETIMEOUT"] \in [Thread -> Error]
    BY <1>1 DEF KernelState, Error
  <2> QED
    BY <2>1, <1>1, <1>2 DEF KernelState
<1>5. Sound(e) /\ Suspended(e, t) /\ NoNewWaiters(k, e)
  BY <1>1, <1>3, <1>4, MiscSound DEF Suspended, NoNewWaiters
<1>6. PICK m : m = rt_list_remove(e, t)
  OBVIOUS
<1>7. /\ SoundBut(m, t) /\ SameBut(e, m, t)
      /\ \A q \in Queue : \A u : Linked(m, q, u) <=> Linked(e, q, u) /\ u # t
  BY <1>5, <1>6, UnlinkSound
<1>8. PICK i : i = rt_schedule_insert_thread(m, t)
  OBVIOUS
<1>9. Sound(i) /\ SameBut(m, i, t) /\ SameWaiters(m, i)
  BY <1>3, <1>7, <1>8, InsertSound DEF SameBut
<1>10. PICK r : r = rt_schedule(i)
  OBVIOUS
<1>11. Sound(r) /\ SameWaiters(i, r) /\ r.prio = i.prio
  BY <1>9, <1>10, ScheduleSound
<1>12. r = rt_thread_timeout(k, t)
  BY <1>2, <1>6, <1>8, <1>10 DEF rt_thread_timeout
<1> QED
  BY <1>3, <1>5, <1>7, <1>9, <1>11, <1>12 DEF SameBut, SameWaiters, NoNewWaiters

\* rt_ipc_list_resume and the rounds of rt_ipc_list_resume_all: setting
\* thread->error and resuming a thread.
LEMMA WakeSound ==
    ASSUME NEW k, Sound(k), NEW t \in Thread, NEW e \in Error
    PROVE  LET r == rt_thread_resume([k EXCEPT !.err[t] = e], t)
           IN Sound(r) /\ NoNewWaiters(k, r) /\ r.prio = k.prio
<1>1. k \in KernelState
  BY DEF Sound
<1>2. PICK m : m = [k EXCEPT !.err[t] = e]
  OBVIOUS
<1>3. /\ m \in KernelState /\ m.list = k.list /\ m.group = k.group /\ m.stat = k.stat
      /\ m.cur = k.cur /\ m.prio = k.prio /\ m.timer = k.timer
  <2>1. [k.err EXCEPT ![t] = e] \in [Thread -> Error]
    BY <1>1 DEF KernelState
  <2> QED
    BY <2>1, <1>1, <1>2 DEF KernelState
<1>4. Sound(m) /\ \A l, u : Linked(m, l, u) <=> Linked(k, l, u)
  BY <1>1, <1>3, MiscSound
<1>5. PICK r : r = rt_thread_resume(m, t)
  OBVIOUS
<1>6. /\ Sound(r) /\ r.prio = m.prio
      /\ \A q \in Queue : \A u : Linked(r, q, u) <=> Linked(m, q, u) /\ u # t
  BY <1>4, <1>5, ResumeSound
<1> QED
  BY <1>2, <1>3, <1>4, <1>5, <1>6 DEF NoNewWaiters

\* The list kept by priority has a place for every thread.
LEMMA PrioPositionExists ==
    ASSUME NEW k \in KernelState, NEW s \in Seq(Thread), NEW t \in Thread
    PROVE  /\ PrioPosition(k, s, t) \in 1 .. Len(s) + 1
           /\ \A j \in 1 .. PrioPosition(k, s, t) - 1 : k.prio[s[j]] <= k.prio[t]
           /\ PrioPosition(k, s, t) <= Len(s) => k.prio[t] < k.prio[s[PrioPosition(k, s, t)]]
<1>1. \A u \in Thread : k.prio[u] \in Nat
  BY KernelAssumption DEF KernelState
<1>2. PICK G : G = {i \in 1 .. Len(s) + 1 : i <= Len(s) => k.prio[t] < k.prio[s[i]]}
  OBVIOUS
<1>3. G \subseteq Nat /\ Len(s) + 1 \in G
  BY <1>2
<1>4. PICK i \in G : \A j \in G : i <= j
  BY <1>3, LeastPosition
<1>5. \A j \in G : ~ (j < i)
  BY <1>3, <1>4
<1>6. i \in 1 .. Len(s) + 1 /\ (i <= Len(s) => k.prio[t] < k.prio[s[i]])
  BY <1>2, <1>4
<1>7. \A j \in 1 .. i - 1 : k.prio[s[j]] <= k.prio[t]
  <2> TAKE j \in 1 .. i - 1
  <2>1. j \in 1 .. Len(s) /\ j \notin G /\ s[j] \in Thread
    BY <1>5, <1>6
  <2> QED
    BY <2>1, <1>1, <1>2
<1> QED
  BY <1>6, <1>7 DEF PrioPosition

\* rt_ipc_list_suspend: the calling thread is suspended and linked in the list,
\* in either order, and no other thread is.
LEMMA ListSuspendSound ==
    ASSUME NEW k, Sound(k), NEW q \in Queue, NEW t \in App, NEW order,
           NEW flag \in SuspendFlag, k.stat[t] \in {"READY", "RUNNING"}
    PROVE  LET r == rt_ipc_list_suspend(k, q, t, order, flag)
           IN /\ Sound(r) /\ Suspended(r, t) /\ r.prio = k.prio /\ r.err = k.err
              /\ \A m \in Queue : \A u :
                    Linked(r, m, u) <=> Linked(k, m, u) \/ (m = q /\ u = t)
<1>0. t \in Thread
  BY DEF App
<1>1. PICK v : v = rt_thread_suspend_with_flag(k, t, flag)
  OBVIOUS
<1>2. /\ Sound(v) /\ Suspended(v, t) /\ SameWaiters(k, v)
      /\ \A l \in Prio \cup Queue : ~ Linked(v, l, t)
      /\ v.cur = k.cur /\ v.err = k.err /\ v.prio = k.prio
  BY <1>1, SuspendSound
<1>3. /\ v \in KernelState /\ NodesLinkedOnce(v) /\ GroupOK(v)
      /\ \A u \in Thread : ThreadOK(v, u)
  BY <1>2, SoundFacts
<1>4. PICK n : n = IF order = "FIFO" THEN Append(v.list[q], t)
                   ELSE InsertAt(v.list[q], PrioPosition(v, v.list[q], t), t)
  OBVIOUS
<1>5. n \in Seq(Thread) /\ ToSet(n) = ToSet(v.list[q]) \cup {t} /\ NoRepeats(n)
  <2>1. v.list[q] \in Seq(Thread) /\ NoRepeats(v.list[q]) /\ t \notin ToSet(v.list[q])
    BY <1>2, <1>3 DEF KernelState, NodesLinkedOnce, Linked
  <2>2. CASE order = "FIFO"
    BY <2>1, <2>2, <1>0, <1>4, AppendList
  <2>3. CASE order # "FIFO"
    <3>1. PrioPosition(v, v.list[q], t) \in 1 .. Len(v.list[q]) + 1
      BY <2>1, <1>0, <1>3, PrioPositionExists
    <3> QED
      BY <3>1, <2>1, <2>3, <1>0, <1>4, InsertList
  <2> QED
    BY <2>2, <2>3
<1>6. PICK r : r = [v EXCEPT !.list[q] = n]
  OBVIOUS
<1>7. r = rt_ipc_list_suspend(k, q, t, order, flag)
  BY <1>1, <1>4, <1>6 DEF rt_ipc_list_suspend
<1>8. /\ r.cur = v.cur /\ r.prio = v.prio /\ r.stat = v.stat /\ r.err = v.err
      /\ r.timer = v.timer /\ r.group = v.group
      /\ r.list = [v.list EXCEPT ![q] = n]
  BY <1>3, <1>6 DEF KernelState
<1>9. r \in KernelState
  <2>1. [v.list EXCEPT ![q] = n] \in [Prio \cup Queue -> Seq(Thread)]
    BY <1>3, <1>5 DEF KernelState
  <2> QED
    BY <2>1, <1>3, <1>6 DEF KernelState
<1>10. \A l \in Prio \cup Queue : r.list[l] = IF l = q THEN n ELSE v.list[l]
  BY <1>3, <1>8 DEF KernelState
<1>11. \A l \in Prio \cup Queue : \A u : Linked(r, l, u) <=> Linked(v, l, u) \/ (l = q /\ u = t)
  BY <1>5, <1>10 DEF Linked
<1>12. NodesLinkedOnce(r)
  BY <1>2, <1>3, <1>5, <1>10, <1>11 DEF NodesLinkedOnce
<1>13. GroupOK(r)
  BY <1>3, <1>8, <1>11, KernelAssumption DEF GroupOK
<1>14. \A u \in Thread : ThreadOK(r, u)
  <2> TAKE u \in Thread
  <2>1. ThreadOK(v, u)
    BY <1>3
  <2>2. \A p \in Prio : Linked(r, p, u) <=> Linked(v, p, u)
    BY <1>11, KernelAssumption
  <2>3. \A m \in Queue : Linked(r, m, u) => Linked(v, m, u) \/ u = t
    BY <1>11
  <2> QED
    BY <2>1, <2>2, <2>3, <1>2, <1>8 DEF ThreadOK, Suspended
<1>15. Sound(r) /\ Suspended(r, t)
  BY <1>2, <1>8, <1>9, <1>12, <1>13, <1>14, SoundFacts DEF Suspended
<1> QED
  BY <1>2, <1>7, <1>8, <1>11, <1>15 DEF SameWaiters

\* Starting the thread_timer of a thread that is suspended.
LEMMA StartTimerSound ==
    ASSUME NEW k, Sound(k), NEW t \in Thread, Suspended(k, t)
    PROVE  LET r == StartThreadTimer(k, t) IN Sound(r) /\ SameWaiters(k, r)
<1>1. /\ k \in KernelState /\ NodesLinkedOnce(k) /\ GroupOK(k)
      /\ \A u \in Thread : ThreadOK(k, u)
  BY SoundFacts
<1>2. PICK r : r = StartThreadTimer(k, t)
  OBVIOUS
<1>3. /\ r \in KernelState /\ r.list = k.list /\ r.group = k.group /\ r.stat = k.stat
      /\ r.cur = k.cur /\ r.prio = k.prio /\ r.timer = k.timer \cup {t}
  BY <1>1, <1>2 DEF StartThreadTimer, KernelState
<1>4. \A l, u : Linked(r, l, u) <=> Linked(k, l, u)
  BY <1>3 DEF Linked
<1>5. NodesLinkedOnce(r) /\ GroupOK(r)
  BY <1>1, <1>3, <1>4 DEF NodesLinkedOnce, GroupOK
<1>6. \A u \in Thread : ThreadOK(r, u)
  BY <1>1, <1>3, <1>4 DEF ThreadOK, Suspended
<1> QED
  BY <1>2, <1>3, <1>4, <1>5, <1>6, SoundFacts DEF SameWaiters

\* rt_thread_startup of a thread that has only been initialised.
LEMMA StartupSound ==
    ASSUME NEW k, Sound(k), NEW t \in App, k.stat[t] = "INIT"
    PROVE  LET r == rt_thread_startup(k, t) IN Sound(r) /\ NoNewWaiters(k, r)
<1>0. t \in Thread /\ t # Idle
  BY DEF App
<1>1. /\ k \in KernelState /\ NodesLinkedOnce(k) /\ GroupOK(k)
      /\ \A u \in Thread : ThreadOK(k, u)
  BY SoundFacts
<1>2. PICK m : m = [k EXCEPT !.prio[t] = InitPrio[t], !.stat[t] = "INTERRUPTIBLE"]
  OBVIOUS
<1>3. /\ m.list = k.list /\ m.group = k.group /\ m.cur = k.cur /\ m.timer = k.timer
      /\ m.stat = [k.stat EXCEPT ![t] = "INTERRUPTIBLE"]
      /\ m.prio = [k.prio EXCEPT ![t] = InitPrio[t]]
  BY <1>1, <1>2 DEF KernelState
<1>4. m \in KernelState
  <2>1. [k.stat EXCEPT ![t] = "INTERRUPTIBLE"] \in [Thread -> Stat]
    BY <1>1 DEF KernelState, Stat, SuspendFlag
  <2>2. [k.prio EXCEPT ![t] = InitPrio[t]] \in [Thread -> Prio]
    BY <1>0, <1>1, KernelAssumption DEF KernelState
  <2>3. m = [k EXCEPT !.prio = [k.prio EXCEPT ![t] = InitPrio[t]],
                      !.stat = [k.stat EXCEPT ![t] = "INTERRUPTIBLE"]]
    BY <1>1, <1>2 DEF KernelState
  <2> QED
    BY <2>1, <2>2, <2>3, <1>1 DEF KernelState
<1>5. \A l, u : Linked(m, l, u) <=> Linked(k, l, u)
  BY <1>3 DEF Linked
<1>6. NodesLinkedOnce(m) /\ GroupOK(m)
  BY <1>1, <1>3, <1>5 DEF NodesLinkedOnce, GroupOK
<1>7. /\ m.stat[t] = "INTERRUPTIBLE"
      /\ \A u \in Thread \ {t} : m.stat[u] = k.stat[u] /\ m.prio[u] = k.prio[u]
  BY <1>0, <1>1, <1>3 DEF KernelState
<1>8. \A u \in Thread \ {t} : ThreadOK(m, u)
  BY <1>1, <1>3, <1>5, <1>7 DEF ThreadOK, Suspended
<1>9. ThreadOK(m, t)
  <2>1. ThreadOK(k, t)
    BY <1>0, <1>1
  <2> QED
    BY <2>1, <1>0, <1>3, <1>5, <1>7 DEF ThreadOK, Suspended, SuspendFlag
<1>10. Sound(m)
  BY <1>4, <1>6, <1>8, <1>9, SoundFacts
<1>11. PICK r : r = rt_thread_resume(m, t)
  OBVIOUS
<1>12. Sound(r) /\ \A q \in Queue : \A u : Linked(r, q, u) <=> Linked(m, q, u) /\ u # t
  BY <1>0, <1>10, <1>11, ResumeSound
<1> QED
  BY <1>2, <1>5, <1>11, <1>12 DEF rt_thread_startup, NoNewWaiters

\* lwp_thread_kill, whether or not the signal breaks the wait.
LEMMA KillSound ==
    ASSUME NEW k, Sound(k), NEW t \in Thread, NEW s \in Signal
    PROVE  LET r == lwp_thread_kill(k, t, s)
           IN Sound(r) /\ NoNewWaiters(k, r) /\ r.prio = k.prio
<1>1. k \in KernelState
  BY DEF Sound
<1>2. PICK p : p = [k EXCEPT !.sig[t] = @ \cup {s}]
  OBVIOUS
<1>3. /\ p \in KernelState /\ p.list = k.list /\ p.group = k.group /\ p.stat = k.stat
      /\ p.cur = k.cur /\ p.prio = k.prio /\ p.timer = k.timer
  <2>1. [k.sig EXCEPT ![t] = @ \cup {s}] \in [Thread -> SUBSET Signal]
    BY <1>1 DEF KernelState
  <2> QED
    BY <2>1, <1>1, <1>2 DEF KernelState
<1>4. Sound(p) /\ \A l, u : Linked(p, l, u) <=> Linked(k, l, u)
  BY <1>1, <1>3, MiscSound
<1>5. PICK m : m = rt_thread_resume(p, t)
  OBVIOUS
<1>6. /\ Sound(m) /\ m.prio = p.prio
      /\ \A q \in Queue : \A u : Linked(m, q, u) <=> Linked(p, q, u) /\ u # t
  BY <1>4, <1>5, ResumeSound
<1>7. PICK r : r = rt_schedule(m)
  OBVIOUS
<1>8. Sound(r) /\ SameWaiters(m, r) /\ r.prio = m.prio
  BY <1>6, <1>7, ScheduleSound
<1>9. lwp_thread_kill(k, t, s) = IF SignalWakes(k, t, s) THEN r ELSE p
  BY <1>2, <1>5, <1>7 DEF lwp_thread_kill
<1>10. Sound(r) /\ NoNewWaiters(k, r) /\ r.prio = k.prio
  BY <1>3, <1>4, <1>6, <1>8 DEF NoNewWaiters, SameWaiters
<1>11. Sound(p) /\ NoNewWaiters(k, p) /\ p.prio = k.prio
  BY <1>3, <1>4 DEF NoNewWaiters
<1> QED
  BY <1>9, <1>10, <1>11

\* rt_tick_increase at the end of a time slice.
LEMMA TimeSliceSound ==
    ASSUME NEW k, Sound(k)
    PROVE  LET r == TimeSliceEnds(k)
           IN Sound(r) /\ NoNewWaiters(k, r) /\ r.prio = k.prio
<1>1. k \in KernelState
  BY DEF Sound
<1>2. PICK y : y = [k EXCEPT !.yield = @ \cup {k.cur}]
  OBVIOUS
<1>3. /\ y \in KernelState /\ y.list = k.list /\ y.group = k.group /\ y.stat = k.stat
      /\ y.cur = k.cur /\ y.prio = k.prio /\ y.timer = k.timer
  BY <1>1, <1>2 DEF KernelState
<1>4. Sound(y) /\ \A l, u : Linked(y, l, u) <=> Linked(k, l, u)
  BY <1>1, <1>3, MiscSound
<1>5. PICK r : r = rt_schedule(y)
  OBVIOUS
<1>6. Sound(r) /\ SameWaiters(y, r) /\ r.prio = y.prio
  BY <1>4, <1>5, ScheduleSound
<1> QED
  BY <1>2, <1>3, <1>4, <1>5, <1>6 DEF TimeSliceEnds, SameWaiters, NoNewWaiters

\* The state the scheduler starts in is sound and nobody waits.
LEMMA KernelStartSound ==
    ASSUME NEW k, NEW main \in App, k = KernelStart(main)
    PROVE  Sound(k) /\ \A q \in Queue : \A u : ~ Linked(k, q, u)
<1>0. /\ main \in Thread /\ main # Idle /\ Idle \in Thread
      /\ InitPrio[Idle] \in Prio /\ InitPrio[Idle] \notin Queue
  BY KernelAssumption DEF App
<1>1. /\ k.cur = main /\ k.prio = InitPrio /\ k.timer = {} /\ k.group = {InitPrio[Idle]}
      /\ k.stat = [t \in Thread |-> IF t = main THEN "RUNNING"
                                    ELSE IF t = Idle THEN "READY" ELSE "INIT"]
      /\ k.list = [l \in Prio \cup Queue |-> IF l = InitPrio[Idle] THEN <<Idle>> ELSE <<>>]
  BY DEF KernelStart
<1>2. k \in KernelState
  <2>1. k.list \in [Prio \cup Queue -> Seq(Thread)]
    BY <1>0, <1>1
  <2>2. k.stat \in [Thread -> Stat]
    BY <1>1 DEF Stat
  <2>3. [t \in Thread |-> "EOK"] \in [Thread -> Error]
    BY DEF Error
  <2> QED
    BY <2>1, <2>2, <2>3, <1>0, <1>1, KernelAssumption DEF KernelStart, KernelState
<1>3. \A l \in Prio \cup Queue : \A u : Linked(k, l, u) <=> (l = InitPrio[Idle] /\ u = Idle)
  BY <1>1 DEF Linked, ToSet
<1>4. \A l \in Prio \cup Queue : NoRepeats(k.list[l])
  BY <1>1 DEF NoRepeats
<1>5. NodesLinkedOnce(k)
  BY <1>3, <1>4 DEF NodesLinkedOnce
<1>6. GroupOK(k)
  BY <1>0, <1>1, <1>3 DEF GroupOK
<1>7. ASSUME NEW u \in Thread
      PROVE  ThreadOK(k, u)
  <2>1. k.stat[u] = "READY" <=> u = Idle
    BY <1>0, <1>1
  <2>2. k.stat[u] = "RUNNING" <=> u = main
    BY <1>0, <1>1
  <2>3. \A p \in Prio : Linked(k, p, u) <=> (k.stat[u] = "READY" /\ k.prio[u] = p)
    BY <2>1, <1>0, <1>1, <1>3
  <2>4. \A q \in Queue : ~ Linked(k, q, u)
    BY <1>0, <1>3
  <2> QED
    BY <2>1, <2>2, <2>3, <2>4, <1>0, <1>1 DEF ThreadOK
<1> QED
  BY <1>0, <1>2, <1>3, <1>5, <1>6, <1>7, SoundFacts

-----------------------------------------------------------------------------
(* What the functions of the kernel leave alone: the order of the suspend  *)
(* lists, and the state, the error and the priority of the threads they    *)
(* are not about.                                                          *)

Active == {"READY", "RUNNING"}

\* u is in the same state, or goes between ready and running.
SameActivity(k, r, u) ==
    r.stat[u] = k.stat[u] \/ (k.stat[u] \in Active /\ r.stat[u] \in Active)

\* Nobody starts or stops waiting.
Calm(k, r) ==
    /\ \A q \in Queue : r.list[q] = k.list[q]
    /\ \A u \in Thread : SameActivity(k, r, u)
    /\ r.lock = k.lock

\* The processor goes to another thread only if that thread can run.
Dispatches(k, r) == k.lock = 0 => r.cur = k.cur \/ r.stat[r.cur] = "RUNNING"

\* What happened to t did not happen to any other thread.
OthersKeep(k, r, t) ==
    \A u \in Thread \ {t} :
        SameActivity(k, r, u) /\ r.err[u] = k.err[u] /\ r.prio[u] = k.prio[u]

\* t becomes active, and leaves the suspend list it was in, if any.
Wakes(k, r, t) ==
    /\ \A q \in Queue : r.list[q] = Without(k.list[q], t)
    /\ r.stat[t] \in Active
    /\ r.lock = k.lock
    /\ OthersKeep(k, r, t)

\* rt_schedule_insert_thread changes no suspend list.
LEMMA InsertFrame ==
    ASSUME NEW k \in KernelState, NEW t \in Thread
    PROVE  LET r == rt_schedule_insert_thread(k, t)
           IN /\ r \in KernelState
              /\ \A q \in Queue : r.list[q] = k.list[q]
              /\ r.stat[t] \in Active
              /\ \A u \in Thread \ {t} : r.stat[u] = k.stat[u]
              /\ r.err = k.err /\ r.prio = k.prio /\ r.timer = k.timer /\ r.sig = k.sig
              /\ r.cur = k.cur /\ r.lock = k.lock
<1>1. k.prio[t] \in Prio /\ \A q \in Queue : q # k.prio[t]
  BY KernelAssumption DEF KernelState
<1>a. PICK r : r = rt_schedule_insert_thread(k, t)
  OBVIOUS
<1>2. CASE t = k.cur
  <2>1. r = [k EXCEPT !.stat[t] = "RUNNING"]
    BY <1>2, <1>a DEF rt_schedule_insert_thread
  <2>2. [k.stat EXCEPT ![t] = "RUNNING"] \in [Thread -> Stat]
    BY DEF KernelState, Stat
  <2>3. r \in KernelState
    BY <2>1, <2>2 DEF KernelState
  <2>4. /\ r.list = k.list /\ r.stat = [k.stat EXCEPT ![t] = "RUNNING"]
        /\ r.err = k.err /\ r.prio = k.prio /\ r.timer = k.timer /\ r.sig = k.sig
        /\ r.cur = k.cur /\ r.lock = k.lock
    BY <2>1 DEF KernelState
  <2> QED
    BY <2>3, <2>4, <1>a DEF KernelState, Active
<1>3. CASE t # k.cur
  <2>1. PICK v : v = Append(k.list[k.prio[t]], t)
    OBVIOUS
  <2>2. v \in Seq(Thread)
    BY <2>1, <1>1 DEF KernelState
  <2>3. r = [k EXCEPT !.stat = [k.stat EXCEPT ![t] = "READY"],
                      !.list = [k.list EXCEPT ![k.prio[t]] = v],
                      !.group = k.group \cup {k.prio[t]}]
    BY <2>1, <1>3, <1>a DEF rt_schedule_insert_thread, KernelState
  <2>4. [k.stat EXCEPT ![t] = "READY"] \in [Thread -> Stat]
    BY DEF KernelState, Stat
  <2>5. [k.list EXCEPT ![k.prio[t]] = v] \in [Prio \cup Queue -> Seq(Thread)]
    BY <2>2 DEF KernelState
  <2>6. r \in KernelState
    BY <2>3, <2>4, <2>5, <1>1 DEF KernelState
  <2>7. /\ r.list = [k.list EXCEPT ![k.prio[t]] = v]
        /\ r.stat = [k.stat EXCEPT ![t] = "READY"]
        /\ r.err = k.err /\ r.prio = k.prio /\ r.timer = k.timer /\ r.sig = k.sig
        /\ r.cur = k.cur /\ r.lock = k.lock
    BY <2>3 DEF KernelState
  <2>8. \A q \in Queue : r.list[q] = k.list[q]
    BY <2>7, <1>1 DEF KernelState
  <2> QED
    BY <2>6, <2>7, <2>8, <1>a DEF KernelState, Active
<1> QED
  BY <1>2, <1>3

\* rt_schedule_remove_thread and rt_list_remove change the lists only where the
\* thread is.
LEMMA RemoveFrame ==
    ASSUME NEW k \in KernelState, NEW t \in Thread, NEW r,
           r = rt_schedule_remove_thread(k, t) \/ r = rt_list_remove(k, t)
    PROVE  /\ r \in KernelState
           /\ \A l \in Prio \cup Queue : r.list[l] = Without(k.list[l], t)
           /\ r.stat = k.stat /\ r.err = k.err /\ r.prio = k.prio /\ r.timer = k.timer
           /\ r.sig = k.sig /\ r.cur = k.cur /\ r.lock = k.lock
<1>1. PICK m : m = rt_list_remove(k, t)
  OBVIOUS
<1>2. m = [k EXCEPT !.list = [l \in Prio \cup Queue |-> Without(k.list[l], t)]]
  BY <1>1 DEF rt_list_remove
<1>3. r = m \/ r = [m EXCEPT !.group = @ \ {m.prio[t]}]
  BY <1>1 DEF rt_schedule_remove_thread
<1>a. [l \in Prio \cup Queue |-> Without(k.list[l], t)] \in [Prio \cup Queue -> Seq(Thread)]
  BY WithoutType DEF KernelState
<1>b. m \in KernelState
  BY <1>2, <1>a DEF KernelState
<1>c. r \in KernelState
  BY <1>3, <1>b DEF KernelState
<1>4. /\ \A l \in Prio \cup Queue : m.list[l] = Without(k.list[l], t)
      /\ m.stat = k.stat /\ m.err = k.err /\ m.prio = k.prio /\ m.timer = k.timer
      /\ m.sig = k.sig /\ m.cur = k.cur /\ m.lock = k.lock
  BY <1>2 DEF KernelState
<1>5. /\ r.list = m.list /\ r.stat = m.stat /\ r.err = m.err /\ r.prio = m.prio
      /\ r.timer = m.timer /\ r.sig = m.sig /\ r.cur = m.cur /\ r.lock = m.lock
  BY <1>3, <1>b DEF KernelState
<1> QED
  BY <1>4, <1>5, <1>c

\* Nothing is removed from a suspend list when the thread is not waiting.
LEMMA NotWaiting ==
    ASSUME NEW k, Sound(k), NEW t \in Thread, ~ Suspended(k, t)
    PROVE  \A q \in Queue : Without(k.list[q], t) = k.list[q]
<1>1. ThreadOK(k, t)
  BY SoundFacts
<1> QED
  BY <1>1 DEF ThreadOK, Linked, Without

\* rt_schedule moves the running thread and the most urgent ready one, nothing
\* else.
LEMMA ScheduleFrame ==
    ASSUME NEW k, Sound(k)
    PROVE  LET r == rt_schedule(k)
           IN /\ Calm(k, r)
              /\ r.err = k.err /\ r.prio = k.prio /\ r.timer = k.timer /\ r.sig = k.sig
<1>1. /\ k \in KernelState /\ NodesLinkedOnce(k) /\ GroupOK(k)
      /\ \A u \in Thread : ThreadOK(k, u)
  BY SoundFacts
<1>2. CASE k.lock # 0 \/ k.group = {}
  BY <1>2 DEF rt_schedule, Calm, SameActivity
<1>3. CASE ~ (k.lock # 0 \/ k.group = {})
  <2>1. PICK highest : highest = HighestReadyPriority(k)
    OBVIOUS
  <2>2. highest \in k.group /\ highest \in Prio
    <3>1. k.group \in SUBSET Prio
      BY <1>1 DEF KernelState
    <3> QED
      BY <3>1, <2>1, <1>3, MostUrgentExists DEF HighestReadyPriority
  <2>3. /\ Head(k.list[highest]) \in Thread
        /\ k.stat[Head(k.list[highest])] = "READY"
    <3>1. \E u \in Thread : Linked(k, highest, u)
      BY <2>2, <1>1 DEF GroupOK
    <3>2. k.list[highest] \in Seq(Thread) /\ k.list[highest] # <<>>
      BY <3>1, <2>2, <1>1, ListTypes
    <3>3. Head(k.list[highest]) \in ToSet(k.list[highest]) /\ Head(k.list[highest]) \in Thread
      BY <3>2, HeadInList
    <3> QED
      BY <3>3, <2>2, <1>1 DEF ThreadOK, Linked
  <2>4. PICK to : to = IF KeepsCurrent(k, highest) THEN k.cur ELSE Head(k.list[highest])
    OBVIOUS
  <2>5. PICK y : y = IF k.stat[k.cur] = "RUNNING" THEN [k EXCEPT !.yield = @ \ {k.cur}] ELSE k
    OBVIOUS
  <2>6. /\ y \in KernelState /\ y.list = k.list /\ y.stat = k.stat
        /\ y.cur = k.cur /\ y.prio = k.prio /\ y.err = k.err /\ y.timer = k.timer
        /\ y.sig = k.sig /\ y.lock = k.lock
    BY <2>5, <1>1 DEF KernelState
  <2>7. to \in Thread /\ k.stat[to] \in Active
    BY <2>3, <2>4, <1>1 DEF KeepsCurrent, KernelState, Active
  <2>8. PICK s : s = [y EXCEPT !.cur = to]
    OBVIOUS
  <2>9. /\ s \in KernelState /\ s.list = k.list /\ s.stat = k.stat /\ s.cur = to
        /\ s.prio = k.prio /\ s.err = k.err /\ s.timer = k.timer /\ s.sig = k.sig
        /\ s.lock = k.lock
    BY <2>6, <2>7, <2>8 DEF KernelState
  <2>10. PICK f : f = IF to # k.cur /\ k.stat[k.cur] = "RUNNING"
                      THEN rt_schedule_insert_thread(s, k.cur)
                      ELSE IF to # k.cur THEN s ELSE y
    OBVIOUS
  <2>11. /\ f \in KernelState
         /\ \A q \in Queue : f.list[q] = k.list[q]
         /\ \A u \in Thread : SameActivity(k, f, u)
         /\ f.prio = k.prio /\ f.err = k.err /\ f.timer = k.timer /\ f.sig = k.sig
         /\ f.lock = k.lock
    <3>1. CASE to # k.cur /\ k.stat[k.cur] = "RUNNING"
      <4>1. f = rt_schedule_insert_thread(s, k.cur) /\ k.cur \in Thread
        BY <3>1, <2>10, <1>1 DEF KernelState
      <4>2. /\ f \in KernelState
            /\ \A q \in Queue : f.list[q] = s.list[q]
            /\ f.stat[k.cur] \in Active
            /\ \A u \in Thread \ {k.cur} : f.stat[u] = s.stat[u]
            /\ f.err = s.err /\ f.prio = s.prio /\ f.timer = s.timer /\ f.sig = s.sig
            /\ f.lock = s.lock
        BY <4>1, <2>9, InsertFrame
      <4> QED
        BY <4>2, <3>1, <2>9 DEF SameActivity, Active
    <3>2. CASE ~ (to # k.cur /\ k.stat[k.cur] = "RUNNING")
      BY <3>2, <2>6, <2>9, <2>10 DEF SameActivity
    <3> QED
      BY <3>1, <3>2
  <2>12. PICK g : g = rt_schedule_remove_thread(f, to)
    OBVIOUS
  <2>13. PICK r : r = [g EXCEPT !.stat[to] = "RUNNING"]
    BY Zenon
  <2>14. r = rt_schedule(k)
    <3>1. CASE to # k.cur
      <4>1. rt_schedule(k) = SwitchTo(y, to)
        BY <3>1, <2>1, <2>4, <2>5, <1>3 DEF rt_schedule
      <4>2. f = IF y.stat[y.cur] = "RUNNING" THEN rt_schedule_insert_thread(s, y.cur) ELSE s
        BY <3>1, <2>6, <2>10
      <4>3. SwitchTo(y, to) = r
        BY <4>2, <2>8, <2>12, <2>13, Zenon DEF SwitchTo
      <4> QED
        BY <4>1, <4>3
    <3>2. CASE to = k.cur
      <4>1. f = y
        BY <3>2, <2>10
      <4> QED
        BY <4>1, <3>2, <2>1, <2>4, <2>5, <2>12, <2>13, <1>3 DEF rt_schedule
    <3> QED
      BY <3>1, <3>2
  <2>15. /\ g \in KernelState
         /\ \A l \in Prio \cup Queue : g.list[l] = Without(f.list[l], to)
         /\ g.stat = f.stat /\ g.err = f.err /\ g.prio = f.prio /\ g.timer = f.timer
         /\ g.sig = f.sig /\ g.lock = f.lock
    BY <2>7, <2>11, <2>12, RemoveFrame
  <2>16. ~ Suspended(k, to)
    BY <2>7 DEF Suspended, SuspendFlag, Active
  <2>17. \A q \in Queue : g.list[q] = k.list[q]
    BY <2>7, <2>11, <2>15, <2>16, NotWaiting
  <2>19. /\ r.list = g.list /\ r.err = g.err /\ r.prio = g.prio /\ r.timer = g.timer
         /\ r.sig = g.sig /\ r.lock = g.lock /\ r.stat = [g.stat EXCEPT ![to] = "RUNNING"]
    BY <2>13, <2>15 DEF KernelState
  <2>20. \A u \in Thread : r.stat[u] = IF u = to THEN "RUNNING" ELSE f.stat[u]
    BY <2>15, <2>19 DEF KernelState
  <2>21. Calm(k, r)
    BY <2>7, <2>11, <2>15, <2>17, <2>19, <2>20 DEF Calm, SameActivity, Active
  <2> QED
    BY <2>11, <2>14, <2>15, <2>19, <2>21
<1> QED
  BY <1>2, <1>3

\* rt_schedule leaves a thread running: the idle thread is always there to
\* switch to.
LEMMA ScheduleRuns ==
    ASSUME NEW k, Sound(k), k.lock = 0
    PROVE  LET r == rt_schedule(k) IN r.stat[r.cur] = "RUNNING"
<1>1. /\ k \in KernelState /\ NodesLinkedOnce(k) /\ GroupOK(k)
      /\ \A u \in Thread : ThreadOK(k, u)
  BY SoundFacts
<1>2. CASE k.group = {}
  <2>1. rt_schedule(k) = k
    BY <1>2 DEF rt_schedule
  <2>2. Idle \in Thread /\ InitPrio[Idle] \in Prio /\ k.prio[Idle] \in Prio
    BY <1>1, KernelAssumption DEF KernelState
  <2>3. k.stat[Idle] # "READY"
    BY <2>2, <1>1, <1>2 DEF ThreadOK, GroupOK
  <2> QED
    BY <2>1, <2>2, <2>3, <1>1 DEF ThreadOK
<1>3. CASE k.group # {}
  <2>1. PICK highest : highest = HighestReadyPriority(k)
    OBVIOUS
  <2>2. PICK to : to = IF KeepsCurrent(k, highest) THEN k.cur ELSE Head(k.list[highest])
    OBVIOUS
  <2>3. PICK y : y = IF k.stat[k.cur] = "RUNNING" THEN [k EXCEPT !.yield = @ \ {k.cur}] ELSE k
    OBVIOUS
  <2>4. y \in KernelState /\ y.cur = k.cur
    BY <2>3, <1>1 DEF KernelState
  <2>5. to \in Thread
    <3>1. k.group \in SUBSET Prio
      BY <1>1 DEF KernelState
    <3>2. highest \in k.group /\ highest \in Prio
      BY <3>1, <2>1, <1>3, MostUrgentExists DEF HighestReadyPriority
    <3>3. k.list[highest] \in Seq(Thread) /\ k.list[highest] # <<>>
      BY <3>2, <1>1, ListTypes DEF GroupOK
    <3>4. Head(k.list[highest]) \in Thread
      BY <3>3, HeadInList
    <3> QED
      BY <3>4, <2>2, <1>1 DEF KernelState
  <2>6. PICK s : s = [y EXCEPT !.cur = to]
    OBVIOUS
  <2>7. s \in KernelState /\ s.cur = to
    BY <2>4, <2>5, <2>6 DEF KernelState
  <2>8. CASE to # k.cur
    <3>1. rt_schedule(k) = SwitchTo(y, to)
      BY <2>1, <2>2, <2>3, <2>8, <1>3 DEF rt_schedule
    <3>2. PICK f : f = IF y.stat[y.cur] = "RUNNING"
                       THEN rt_schedule_insert_thread(s, y.cur) ELSE s
      OBVIOUS
    <3>3. f \in KernelState /\ f.cur = to
      BY <3>2, <2>4, <2>7, InsertFrame DEF KernelState
    <3>4. PICK g : g = rt_schedule_remove_thread(f, to)
      OBVIOUS
    <3>5. g \in KernelState /\ g.cur = to
      BY <3>3, <3>4, <2>5, RemoveFrame
    <3>6. PICK r : r = [g EXCEPT !.stat[to] = "RUNNING"]
      OBVIOUS
    <3>7. r = SwitchTo(y, to)
      BY <3>2, <3>4, <3>6, <2>6, Zenon DEF SwitchTo
    <3>8. r.cur = to /\ r.stat[to] = "RUNNING"
      BY <3>5, <3>6, <2>5 DEF KernelState
    <3> QED
      BY <3>1, <3>7, <3>8
  <2>9. CASE to = k.cur
    <3>1. PICK g : g = rt_schedule_remove_thread(y, to)
      OBVIOUS
    <3>2. g \in KernelState /\ g.cur = to
      BY <3>1, <2>4, <2>5, <2>9, RemoveFrame
    <3>3. rt_schedule(k) = [g EXCEPT !.stat[to] = "RUNNING"]
      BY <3>1, <2>1, <2>2, <2>3, <2>9, <1>3 DEF rt_schedule
    <3> QED
      BY <3>2, <3>3, <2>5 DEF KernelState
  <2> QED
    BY <2>8, <2>9
<1> QED
  BY <1>2, <1>3

\* The end of a time slice.
LEMMA TimeSliceFrame ==
    ASSUME NEW k, Sound(k)
    PROVE  LET r == TimeSliceEnds(k)
           IN /\ Calm(k, r) /\ Dispatches(k, r)
              /\ r.err = k.err /\ r.prio = k.prio /\ r.timer = k.timer /\ r.sig = k.sig
<1>1. k \in KernelState
  BY DEF Sound
<1>2. PICK y : y = [k EXCEPT !.yield = @ \cup {k.cur}]
  OBVIOUS
<1>3. /\ y \in KernelState /\ y.list = k.list /\ y.group = k.group /\ y.stat = k.stat
      /\ y.cur = k.cur /\ y.prio = k.prio /\ y.timer = k.timer /\ y.err = k.err
      /\ y.sig = k.sig /\ y.lock = k.lock
  BY <1>1, <1>2 DEF KernelState
<1>4. Sound(y)
  BY <1>1, <1>3, MiscSound
<1>5. PICK r : r = rt_schedule(y)
  OBVIOUS
<1>6. /\ Calm(y, r)
      /\ r.err = y.err /\ r.prio = y.prio /\ r.timer = y.timer /\ r.sig = y.sig
  BY <1>4, <1>5, ScheduleFrame
<1>7. Dispatches(k, r)
  BY <1>3, <1>4, <1>5, ScheduleRuns DEF Dispatches
<1> QED
  BY <1>2, <1>3, <1>5, <1>6, <1>7 DEF TimeSliceEnds, Calm, SameActivity

\* Writing thread->error.
LEMMA SetErrorFrame ==
    ASSUME NEW k, Sound(k), NEW t \in Thread, NEW e \in Error
    PROVE  LET r == [k EXCEPT !.err[t] = e]
           IN /\ Sound(r)
              /\ r.list = k.list /\ r.stat = k.stat /\ r.cur = k.cur /\ r.prio = k.prio
              /\ r.timer = k.timer /\ r.sig = k.sig /\ r.lock = k.lock
              /\ r.err = [k.err EXCEPT ![t] = e] /\ r.err[t] = e
              /\ \A u \in Thread \ {t} : r.err[u] = k.err[u]
<1>1. k \in KernelState
  BY DEF Sound
<1>2. PICK r : r = [k EXCEPT !.err[t] = e]
  OBVIOUS
<1>3. /\ r.list = k.list /\ r.group = k.group /\ r.stat = k.stat
      /\ r.cur = k.cur /\ r.prio = k.prio /\ r.timer = k.timer /\ r.sig = k.sig
      /\ r.lock = k.lock /\ r.err = [k.err EXCEPT ![t] = e]
  BY <1>1, <1>2 DEF KernelState
<1>4. r \in KernelState
  <2>1. [k.err EXCEPT ![t] = e] \in [Thread -> Error]
    BY <1>1 DEF KernelState
  <2> QED
    BY <2>1, <1>1, <1>2 DEF KernelState
<1>5. Sound(r)
  BY <1>1, <1>3, <1>4, MiscSound
<1>6. r.err[t] = e /\ \A u \in Thread \ {t} : r.err[u] = k.err[u]
  BY <1>1, <1>3 DEF KernelState
<1> QED
  BY <1>2, <1>3, <1>5, <1>6

\* Linking a thread that has left its list in the ready table makes it active.
LEMMA InsertWakes ==
    ASSUME NEW k \in KernelState, NEW m \in KernelState, NEW t \in Thread,
           \A q \in Queue : m.list[q] = Without(k.list[q], t),
           m.stat = k.stat, m.prio = k.prio, m.lock = k.lock,
           \A u \in Thread \ {t} : m.err[u] = k.err[u]
    PROVE  LET r == rt_schedule_insert_thread(m, t)
           IN Wakes(k, r, t) /\ r.err = m.err /\ r.prio = k.prio /\ r.timer = m.timer
<1>1. PICK r : r = rt_schedule_insert_thread(m, t)
  OBVIOUS
<1>2. /\ \A q \in Queue : r.list[q] = m.list[q]
      /\ r.stat[t] \in Active
      /\ \A u \in Thread \ {t} : r.stat[u] = m.stat[u]
      /\ r.err = m.err /\ r.prio = m.prio /\ r.timer = m.timer
      /\ r.lock = m.lock
  BY <1>1, InsertFrame
<1> QED
  BY <1>1, <1>2 DEF Wakes, OthersKeep, SameActivity

\* rt_thread_resume of a suspended thread.
LEMMA ResumeFrame ==
    ASSUME NEW k, Sound(k), NEW t \in Thread, Suspended(k, t)
    PROVE  LET r == rt_thread_resume(k, t)
           IN Wakes(k, r, t) /\ r.err = k.err /\ r.prio = k.prio /\ r.timer = k.timer \ {t}
<1>1. k \in KernelState
  BY DEF Sound
<1>2. PICK m : m = rt_list_remove(k, t)
  OBVIOUS
<1>3. /\ m \in KernelState
      /\ \A l \in Prio \cup Queue : m.list[l] = Without(k.list[l], t)
      /\ m.stat = k.stat /\ m.err = k.err /\ m.prio = k.prio /\ m.timer = k.timer
      /\ m.lock = k.lock
  BY <1>1, <1>2, RemoveFrame
<1>4. PICK n : n = [m EXCEPT !.timer = m.timer \ {t}]
  OBVIOUS
<1>5. /\ n \in KernelState /\ n.list = m.list /\ n.stat = m.stat
      /\ n.prio = m.prio /\ n.err = m.err /\ n.timer = m.timer \ {t}
      /\ n.lock = m.lock
  BY <1>3, <1>4 DEF KernelState
<1>6. PICK r : r = rt_schedule_insert_thread(n, t)
  OBVIOUS
<1>7. r = rt_thread_resume(k, t)
  BY <1>2, <1>4, <1>6 DEF rt_thread_resume
<1>8. Wakes(k, r, t) /\ r.err = n.err /\ r.prio = k.prio /\ r.timer = n.timer
  BY <1>1, <1>3, <1>5, <1>6, InsertWakes
<1> QED
  BY <1>3, <1>5, <1>7, <1>8

\* rt_ipc_list_resume and ResumeAllRound, for the thread they take.
LEMMA WakeFrame ==
    ASSUME NEW k, Sound(k), NEW t \in Thread, NEW e \in Error, Suspended(k, t)
    PROVE  LET r == rt_thread_resume([k EXCEPT !.err[t] = e], t)
           IN Wakes(k, r, t) /\ r.err[t] = e /\ r.prio = k.prio /\ r.cur = k.cur
<1>1. PICK m : m = [k EXCEPT !.err[t] = e]
  OBVIOUS
<1>2. /\ Sound(m)
      /\ m.list = k.list /\ m.stat = k.stat /\ m.cur = k.cur /\ m.prio = k.prio
      /\ m.lock = k.lock /\ m.err[t] = e /\ \A u \in Thread \ {t} : m.err[u] = k.err[u]
  BY <1>1, SetErrorFrame
<1>3. PICK r : r = rt_thread_resume(m, t)
  OBVIOUS
<1>4. Wakes(m, r, t) /\ r.err = m.err /\ r.prio = m.prio /\ r.cur = m.cur
  BY <1>2, <1>3, ResumeFrame, ResumeSound DEF Suspended
<1>5. OthersKeep(k, r, t)
  BY <1>2, <1>4 DEF Wakes, OthersKeep, SameActivity
<1>6. Wakes(k, r, t)
  BY <1>2, <1>4, <1>5 DEF Wakes
<1>7. r.err[t] = e /\ r.prio = k.prio /\ r.cur = k.cur
  BY <1>2, <1>4
<1> QED
  BY <1>1, <1>3, <1>6, <1>7

\* Rescheduling after a thread has been woken.
LEMMA WakesThenCalm ==
    ASSUME NEW k, NEW m, NEW r, NEW t \in Thread, Wakes(k, m, t), Calm(m, r),
           r.err = m.err, r.prio = m.prio
    PROVE  Wakes(k, r, t)
<1>1. r.stat[t] \in Active
  BY DEF Wakes, Calm, SameActivity
<1>2. \A u \in Thread \ {t} : SameActivity(k, r, u)
  BY DEF Wakes, OthersKeep, Calm, SameActivity
<1> QED
  BY <1>1, <1>2 DEF Wakes, OthersKeep, Calm

\* rt_thread_timeout.
LEMMA TimeoutFrame ==
    ASSUME NEW k, Sound(k), NEW t \in Thread, t \in k.timer
    PROVE  LET r == rt_thread_timeout(k, t)
           IN Wakes(k, r, t) /\ Dispatches(k, r) /\ r.err[t] = "ETIMEOUT" /\ r.prio = k.prio
<1>1. k \in KernelState /\ Suspended(k, t)
  BY SoundFacts DEF ThreadOK
<1>2. PICK e : e = [k EXCEPT !.timer = @ \ {t}, !.err[t] = "ETIMEOUT"]
  OBVIOUS
<1>3. /\ e.list = k.list /\ e.group = k.group /\ e.stat = k.stat
      /\ e.cur = k.cur /\ e.prio = k.prio /\ e.timer = k.timer \ {t}
      /\ e.lock = k.lock /\ e.err = [k.err EXCEPT ![t] = "ETIMEOUT"]
  BY <1>1, <1>2 DEF KernelState
<1>4. e \in KernelState
  <2>1. [k.err EXCEPT ![t] = "ETIMEOUT"] \in [Thread -> Error]
    BY <1>1 DEF KernelState, Error
  <2> QED
    BY <2>1, <1>1, <1>2 DEF KernelState
<1>5. e.err[t] = "ETIMEOUT" /\ \A u \in Thread \ {t} : e.err[u] = k.err[u]
  BY <1>1, <1>3 DEF KernelState
<1>6. Sound(e) /\ Suspended(e, t)
  BY <1>1, <1>3, <1>4, MiscSound DEF Suspended
<1>7. PICK m : m = rt_list_remove(e, t)
  OBVIOUS
<1>8. /\ m \in KernelState
      /\ \A l \in Prio \cup Queue : m.list[l] = Without(e.list[l], t)
      /\ m.stat = e.stat /\ m.err = e.err /\ m.prio = e.prio /\ m.timer = e.timer
      /\ m.lock = e.lock
  BY <1>4, <1>7, RemoveFrame
<1>9. PICK i : i = rt_schedule_insert_thread(m, t)
  OBVIOUS
<1>10. Wakes(k, i, t) /\ i.err = m.err /\ i.prio = k.prio
  <2>1. /\ \A q \in Queue : m.list[q] = Without(k.list[q], t)
        /\ m.stat = k.stat /\ m.prio = k.prio /\ m.lock = k.lock
        /\ \A u \in Thread \ {t} : m.err[u] = k.err[u]
    BY <1>3, <1>5, <1>8
  <2> QED
    BY <2>1, <1>1, <1>8, <1>9, InsertWakes
<1>11. Sound(i)
  <2>1. SoundBut(m, t)
    BY <1>6, <1>7, UnlinkSound
  <2> QED
    BY <2>1, <1>3, <1>8, <1>9, InsertSound
<1>12. PICK r : r = rt_schedule(i)
  OBVIOUS
<1>13. Calm(i, r) /\ r.err = i.err /\ r.prio = i.prio
  BY <1>11, <1>12, ScheduleFrame
<1>14. r = rt_thread_timeout(k, t)
  BY <1>2, <1>7, <1>9, <1>12 DEF rt_thread_timeout
<1>15. Dispatches(k, r)
  BY <1>10, <1>11, <1>12, ScheduleRuns DEF Dispatches, Wakes
<1> QED
  BY <1>5, <1>8, <1>10, <1>13, <1>14, <1>15, WakesThenCalm

\* rt_thread_startup.
LEMMA StartupFrame ==
    ASSUME NEW k, Sound(k), NEW t \in App, k.stat[t] = "INIT"
    PROVE  LET r == rt_thread_startup(k, t)
           IN /\ Wakes(k, r, t) /\ r.err = k.err /\ r.cur = k.cur
              /\ r.prio = [k.prio EXCEPT ![t] = InitPrio[t]]
<1>0. t \in Thread /\ k \in KernelState
  BY DEF App, Sound
<1>1. PICK m : m = [k EXCEPT !.prio[t] = InitPrio[t], !.stat[t] = "INTERRUPTIBLE"]
  OBVIOUS
<1>2. /\ m.list = k.list /\ m.timer = k.timer /\ m.err = k.err /\ m.lock = k.lock /\ m.cur = k.cur
      /\ m.stat = [k.stat EXCEPT ![t] = "INTERRUPTIBLE"]
      /\ m.prio = [k.prio EXCEPT ![t] = InitPrio[t]]
  BY <1>0, <1>1 DEF KernelState
<1>3. m \in KernelState
  <2>1. [k.stat EXCEPT ![t] = "INTERRUPTIBLE"] \in [Thread -> Stat]
    BY <1>0 DEF KernelState, Stat, SuspendFlag
  <2>2. [k.prio EXCEPT ![t] = InitPrio[t]] \in [Thread -> Prio]
    BY <1>0, KernelAssumption DEF KernelState
  <2>3. m = [k EXCEPT !.prio = [k.prio EXCEPT ![t] = InitPrio[t]],
                      !.stat = [k.stat EXCEPT ![t] = "INTERRUPTIBLE"]]
    BY <1>0, <1>1 DEF KernelState
  <2> QED
    BY <2>1, <2>2, <2>3, <1>0 DEF KernelState
<1>4. /\ m.stat[t] = "INTERRUPTIBLE"
      /\ \A u \in Thread \ {t} : m.stat[u] = k.stat[u] /\ m.prio[u] = k.prio[u]
  BY <1>0, <1>2 DEF KernelState
<1>5. PICK n : n = [rt_list_remove(m, t) EXCEPT !.timer = @ \ {t}]
  BY Zenon
<1>6. /\ n \in KernelState
      /\ \A q \in Queue : n.list[q] = Without(k.list[q], t)
      /\ n.stat = m.stat /\ n.prio = m.prio /\ n.err = k.err /\ n.lock = k.lock
      /\ n.cur = k.cur
  <2>1. PICK o : o = rt_list_remove(m, t)
    OBVIOUS
  <2>2. /\ o \in KernelState
        /\ \A l \in Prio \cup Queue : o.list[l] = Without(m.list[l], t)
        /\ o.stat = m.stat /\ o.err = m.err /\ o.prio = m.prio /\ o.lock = m.lock
        /\ o.cur = m.cur
    BY <2>1, <1>0, <1>3, RemoveFrame
  <2>3. n = [o EXCEPT !.timer = @ \ {t}]
    BY <2>1, <1>5
  <2>4. /\ n \in KernelState /\ n.list = o.list /\ n.stat = o.stat /\ n.err = o.err
        /\ n.prio = o.prio /\ n.lock = o.lock /\ n.cur = o.cur
    BY <2>2, <2>3 DEF KernelState
  <2> QED
    BY <2>2, <2>4, <1>2
<1>7. PICK r : r = rt_schedule_insert_thread(n, t)
  OBVIOUS
<1>8. r = rt_thread_startup(k, t)
  BY <1>1, <1>4, <1>5, <1>7 DEF rt_thread_startup, rt_thread_resume, Suspended, SuspendFlag
<1>9. /\ \A q \in Queue : r.list[q] = n.list[q]
      /\ r.stat[t] \in Active
      /\ \A u \in Thread \ {t} : r.stat[u] = n.stat[u]
      /\ r.err = n.err /\ r.prio = n.prio /\ r.lock = n.lock
      /\ r.cur = n.cur
  BY <1>0, <1>6, <1>7, InsertFrame
<1> QED
  BY <1>2, <1>4, <1>6, <1>8, <1>9 DEF Wakes, OthersKeep, SameActivity

\* lwp_thread_kill: the thread is woken, keeping its error, or nothing but the
\* pending signals changes.
LEMMA KillFrame ==
    ASSUME NEW k, Sound(k), NEW t \in Thread, NEW s \in Signal
    PROVE  LET r == lwp_thread_kill(k, t, s)
           IN /\ r.err = k.err /\ r.prio = k.prio /\ Dispatches(k, r)
              /\ Calm(k, r) \/ (Suspended(k, t) /\ Wakes(k, r, t))
<1>1. k \in KernelState
  BY DEF Sound
<1>2. PICK p : p = [k EXCEPT !.sig[t] = @ \cup {s}]
  OBVIOUS
<1>3. /\ p \in KernelState /\ p.list = k.list /\ p.group = k.group /\ p.stat = k.stat
      /\ p.cur = k.cur /\ p.prio = k.prio /\ p.timer = k.timer /\ p.err = k.err
      /\ p.lock = k.lock
  <2>1. [k.sig EXCEPT ![t] = @ \cup {s}] \in [Thread -> SUBSET Signal]
    BY <1>1 DEF KernelState
  <2> QED
    BY <2>1, <1>1, <1>2 DEF KernelState
<1>4. Sound(p)
  BY <1>1, <1>3, MiscSound
<1>5. PICK m : m = rt_thread_resume(p, t)
  OBVIOUS
<1>6. PICK r : r = rt_schedule(m)
  OBVIOUS
<1>7. lwp_thread_kill(k, t, s) = IF SignalWakes(k, t, s) THEN r ELSE p
  BY <1>2, <1>5, <1>6 DEF lwp_thread_kill
<1>8. CASE SignalWakes(k, t, s)
  <2>1. Suspended(k, t) /\ Suspended(p, t)
    BY <1>3, <1>8 DEF SignalWakes, Suspended, SuspendFlag
  <2>2. Wakes(p, m, t) /\ m.err = p.err /\ m.prio = p.prio
    BY <2>1, <1>4, <1>5, ResumeFrame
  <2>3. Sound(m)
    BY <1>4, <1>5, ResumeSound
  <2>4. Calm(m, r) /\ r.err = m.err /\ r.prio = m.prio
    BY <2>3, <1>6, ScheduleFrame
  <2>5. Wakes(p, r, t)
    BY <2>2, <2>4, WakesThenCalm
  <2>6. Dispatches(k, r)
    BY <2>2, <2>3, <1>3, <1>6, ScheduleRuns DEF Dispatches, Wakes
  <2> QED
    BY <2>1, <2>2, <2>4, <2>5, <2>6, <1>3, <1>7, <1>8 DEF Wakes, OthersKeep, SameActivity
<1>9. CASE ~ SignalWakes(k, t, s)
  BY <1>3, <1>7, <1>9 DEF Calm, SameActivity, Dispatches
<1> QED
  BY <1>8, <1>9

\* rt_ipc_list_suspend: where the caller is put in the list.
LEMMA ListSuspendFrame ==
    ASSUME NEW k, Sound(k), NEW q \in Queue, NEW t \in App, NEW order,
           NEW flag \in SuspendFlag, k.stat[t] \in Active
    PROVE  LET r == rt_ipc_list_suspend(k, q, t, order, flag)
           IN /\ \A m \in Queue \ {q} : r.list[m] = k.list[m]
              /\ r.list[q] = IF order = "FIFO" THEN Append(k.list[q], t)
                             ELSE InsertAt(k.list[q], PrioPosition(k, k.list[q], t), t)
              /\ Suspended(r, t) /\ OthersKeep(k, r, t) /\ r.err = k.err /\ r.prio = k.prio
              /\ r.cur = k.cur /\ r.lock = k.lock
<1>0. t \in Thread /\ k \in KernelState /\ ~ Suspended(k, t)
  BY DEF App, Sound, Suspended, SuspendFlag, Active
<1>1. PICK m : m = rt_schedule_remove_thread(k, t)
  OBVIOUS
<1>2. /\ m \in KernelState
      /\ \A l \in Prio \cup Queue : m.list[l] = Without(k.list[l], t)
      /\ m.stat = k.stat /\ m.err = k.err /\ m.prio = k.prio
      /\ m.cur = k.cur /\ m.lock = k.lock
  BY <1>0, <1>1, RemoveFrame
<1>3. \A l \in Queue : m.list[l] = k.list[l]
  BY <1>0, <1>2, NotWaiting
<1>4. PICK v : v = [m EXCEPT !.stat[t] = flag, !.timer = @ \ {t}]
  OBVIOUS
<1>5. /\ v.list = m.list /\ v.err = m.err /\ v.prio = m.prio
      /\ v.cur = m.cur /\ v.lock = m.lock
      /\ v.stat = [m.stat EXCEPT ![t] = flag]
  BY <1>2, <1>4 DEF KernelState
<1>6. v.stat[t] = flag /\ \A u \in Thread \ {t} : v.stat[u] = k.stat[u]
  BY <1>0, <1>2, <1>5 DEF KernelState
<1>7. PrioPosition(v, k.list[q], t) = PrioPosition(k, k.list[q], t)
  BY <1>2, <1>5 DEF PrioPosition
<1>8. PICK n : n = IF order = "FIFO" THEN Append(k.list[q], t)
                   ELSE InsertAt(k.list[q], PrioPosition(k, k.list[q], t), t)
  OBVIOUS
<1>9. PICK r : r = [v EXCEPT !.list[q] = n]
  OBVIOUS
<1>10. r = rt_ipc_list_suspend(k, q, t, order, flag)
  <2>1. v = rt_thread_suspend_with_flag(k, t, flag)
    BY <1>1, <1>4 DEF rt_thread_suspend_with_flag
  <2>2. v.list[q] = k.list[q]
    BY <1>3, <1>5
  <2> QED
    BY <2>1, <2>2, <1>7, <1>8, <1>9 DEF rt_ipc_list_suspend
<1>11. /\ r.list = [v.list EXCEPT ![q] = n] /\ r.err = v.err /\ r.prio = v.prio
       /\ r.stat = v.stat /\ r.cur = v.cur /\ r.lock = v.lock
  BY <1>2, <1>4, <1>9 DEF KernelState
<1>12. \A l \in Queue : r.list[l] = IF l = q THEN n ELSE k.list[l]
  BY <1>2, <1>3, <1>5, <1>11 DEF KernelState
<1>13. Suspended(r, t) /\ OthersKeep(k, r, t)
  BY <1>2, <1>5, <1>6, <1>11 DEF Suspended, OthersKeep, SameActivity
<1> QED
  BY <1>2, <1>5, <1>8, <1>10, <1>11, <1>12, <1>13

\* Starting the thread_timer changes nothing else.
LEMMA StartTimerFrame ==
    ASSUME NEW k \in KernelState, NEW t \in Thread
    PROVE  LET r == StartThreadTimer(k, t)
           IN /\ r.list = k.list /\ r.stat = k.stat /\ r.err = k.err /\ r.prio = k.prio
              /\ r.cur = k.cur /\ r.lock = k.lock
  BY DEF StartThreadTimer, KernelState

\* rt_thread_control(RT_THREAD_CTRL_CHANGE_PRIORITY) keeps the kernel sound and
\* nobody starts or stops waiting: a ready thread moves to the ready list of its
\* new priority.
LEMMA ChangePrioritySound ==
    ASSUME NEW k, Sound(k), NEW t \in Thread, NEW p \in Prio
    PROVE  LET r == ChangePriority(k, t, p)
           IN /\ Sound(r) /\ Calm(k, r) /\ r.err = k.err /\ r.timer = k.timer /\ r.sig = k.sig
              /\ r.cur = k.cur /\ r.prio = [k.prio EXCEPT ![t] = p]
<1>1. /\ k \in KernelState /\ NodesLinkedOnce(k) /\ GroupOK(k)
      /\ \A u \in Thread : ThreadOK(k, u)
  BY SoundFacts
<1>2. [k.prio EXCEPT ![t] = p] \in [Thread -> Prio]
  BY <1>1 DEF KernelState
<1>3. PICK r : r = ChangePriority(k, t, p)
  OBVIOUS
<1>4. CASE k.stat[t] = "READY"
  <2>1. PICK m : m = rt_schedule_remove_thread(k, t)
    OBVIOUS
  <2>2. SoundBut(m, t)
    BY <2>1, RemoveSound
  <2>3. /\ m \in KernelState
        /\ \A l \in Prio \cup Queue : m.list[l] = Without(k.list[l], t)
        /\ m.stat = k.stat /\ m.err = k.err /\ m.prio = k.prio /\ m.timer = k.timer
        /\ m.sig = k.sig /\ m.cur = k.cur /\ m.lock = k.lock
    BY <2>1, <1>1, RemoveFrame
  <2>4. \A q \in Queue : m.list[q] = k.list[q]
    BY <2>3, <1>4, NotWaiting DEF Suspended, SuspendFlag
  <2>5. PICK n : n = [m EXCEPT !.prio[t] = p]
    OBVIOUS
  <2>6. /\ n.list = m.list /\ n.stat = m.stat /\ n.err = m.err /\ n.timer = m.timer
        /\ n.sig = m.sig /\ n.cur = m.cur /\ n.group = m.group
        /\ n.lock = m.lock
        /\ n.prio = [k.prio EXCEPT ![t] = p]
    BY <2>3, <2>5 DEF KernelState
  <2>7. n \in KernelState
    BY <2>3, <2>5, <2>6, <1>2 DEF KernelState
  <2>8. \A l, u : Linked(n, l, u) <=> Linked(m, l, u)
    BY <2>6 DEF Linked
  <2>9. \A u \in Thread \ {t} : n.prio[u] = m.prio[u]
    BY <2>3, <2>6, <1>1 DEF KernelState
  <2>10. SoundBut(n, t)
    <3>1. NodesLinkedOnce(n) /\ GroupOK(n)
      BY <2>2, <2>6, <2>8 DEF SoundBut, NodesLinkedOnce, GroupOK
    <3>2. \A u \in Thread \ {t} : ThreadOK(n, u)
      BY <2>2, <2>6, <2>8, <2>9 DEF SoundBut, ThreadOK, Suspended
    <3> QED
      BY <3>1, <3>2, <2>2, <2>7, <2>8 DEF SoundBut
  <2>11. t \notin n.timer
    BY <2>3, <2>6, <1>1, <1>4 DEF ThreadOK, Suspended, SuspendFlag
  <2>12. r = rt_schedule_insert_thread(n, t)
    BY <2>1, <2>5, <1>3, <1>4 DEF ChangePriority
  <2>13. Sound(r)
    BY <2>10, <2>11, <2>12, InsertSound
  <2>14. /\ \A q \in Queue : r.list[q] = n.list[q]
         /\ r.stat[t] \in Active
         /\ \A u \in Thread \ {t} : r.stat[u] = n.stat[u]
         /\ r.err = n.err /\ r.prio = n.prio /\ r.timer = n.timer /\ r.sig = n.sig
         /\ r.cur = n.cur /\ r.lock = n.lock
    BY <2>7, <2>12, InsertFrame
  <2>15. Calm(k, r)
    BY <2>3, <2>4, <2>6, <2>14, <1>4 DEF Calm, SameActivity, Active
  <2> QED
    BY <2>3, <2>6, <2>13, <2>14, <2>15, <1>3
<1>5. CASE k.stat[t] # "READY"
  <2>1. r = [k EXCEPT !.prio[t] = p]
    BY <1>3, <1>5 DEF ChangePriority
  <2>2. /\ r.list = k.list /\ r.stat = k.stat /\ r.err = k.err /\ r.timer = k.timer
        /\ r.sig = k.sig /\ r.cur = k.cur /\ r.group = k.group
        /\ r.lock = k.lock /\ r.prio = [k.prio EXCEPT ![t] = p]
    BY <2>1, <1>1 DEF KernelState
  <2>3. r \in KernelState
    BY <2>1, <1>1, <1>2 DEF KernelState
  <2>4. \A l, u : Linked(r, l, u) <=> Linked(k, l, u)
    BY <2>2 DEF Linked
  <2>5. NodesLinkedOnce(r) /\ GroupOK(r)
    BY <2>2, <2>4, <1>1 DEF NodesLinkedOnce, GroupOK
  <2>6. \A u \in Thread \ {t} : r.prio[u] = k.prio[u]
    BY <2>2, <1>1 DEF KernelState
  <2>7. \A u \in Thread \ {t} : ThreadOK(r, u)
    BY <2>2, <2>4, <2>6, <1>1 DEF ThreadOK, Suspended
  <2>8. ThreadOK(r, t)
    <3>1. ThreadOK(k, t)
      BY <1>1
    <3> QED
      BY <3>1, <2>2, <2>4, <1>5 DEF ThreadOK, Suspended
  <2>9. Sound(r)
    BY <2>3, <2>5, <2>7, <2>8, SoundFacts
  <2> QED
    BY <2>2, <2>9, <1>3 DEF Calm, SameActivity
<1> QED
  BY <1>4, <1>5

\* A thread that becomes active was not lost: who is suspended after a wake-up
\* was suspended before and is in the list it was in.
LEMMA WakesLinks ==
    ASSUME NEW k, Sound(k), NEW r, NEW t \in Thread, Wakes(k, r, t)
    PROVE  /\ \A q \in Queue : \A u : Linked(r, q, u) <=> Linked(k, q, u) /\ u # t
           /\ \A u \in Thread : Suspended(r, u) <=> Suspended(k, u) /\ u # t
<1>1. \A q \in Queue : k.list[q] \in Seq(Thread) /\ NoRepeats(k.list[q])
  BY DEF Sound, KernelState, KernelOK, NodesLinkedOnce
<1>2. \A q \in Queue : ToSet(r.list[q]) = ToSet(k.list[q]) \ {t}
  BY <1>1, WithoutList DEF Wakes
<1> QED
  BY <1>2 DEF Linked, Wakes, OthersKeep, SameActivity, Suspended, SuspendFlag, Active

\* Nobody joins or leaves a list, and nobody is suspended or resumed.
LEMMA CalmLinks ==
    ASSUME NEW k, NEW r, Calm(k, r)
    PROVE  /\ \A q \in Queue : \A u : Linked(r, q, u) <=> Linked(k, q, u)
           /\ \A u \in Thread : Suspended(r, u) <=> Suspended(k, u)
  BY DEF Calm, Linked, SameActivity, Suspended, SuspendFlag, Active

\* The place rt_ipc_list_suspend finds keeps the order.
LEMMA SortedInsert ==
    ASSUME NEW k \in KernelState, NEW s \in Seq(Thread), NEW t \in Thread, SortedBy(k.prio, s)
    PROVE  SortedBy(k.prio, InsertAt(s, PrioPosition(k, s, t), t))
<1>0. \A u \in Thread : k.prio[u] \in Nat
  BY KernelAssumption DEF KernelState
<1>1. \A u \in Thread : k.prio[u] \in Int
  BY <1>0
<1>2. PICK i : i = PrioPosition(k, s, t)
  OBVIOUS
<1>3. /\ i \in 1 .. Len(s) + 1
      /\ \A j \in 1 .. i - 1 : k.prio[s[j]] <= k.prio[t]
      /\ i <= Len(s) => k.prio[t] < k.prio[s[i]]
  BY <1>2, PrioPositionExists
<1>4. SortedBy(k.prio, InsertAt(s, i, t))
  BY <1>1, <1>3, SortedInsertAt
<1> QED
  BY <1>2, <1>4

\* The head of a list kept by priority is the most urgent of its threads.
LEMMA SortedHead ==
    ASSUME NEW k \in KernelState, NEW s \in Seq(Thread), SortedBy(k.prio, s)
    PROVE  \A t \in ToSet(s) : k.prio[Head(s)] <= k.prio[t]
<1> SUFFICES ASSUME NEW t \in ToSet(s) PROVE k.prio[Head(s)] <= k.prio[t]
  OBVIOUS
<1>1. PICK j \in 1 .. Len(s) : s[j] = t
  BY DEF ToSet
<1>2. Head(s) = s[1] /\ 1 \in 1 .. Len(s) /\ s[1] \in Thread
  BY <1>1
<1>3. k.prio[s[1]] \in Nat
  BY <1>2, KernelAssumption DEF KernelState
<1>4. CASE j = 1
  BY <1>1, <1>2, <1>3, <1>4
<1>5. CASE j # 1
  BY <1>1, <1>2, <1>5 DEF SortedBy
<1> QED
  BY <1>4, <1>5

-----------------------------------------------------------------------------
(* The thread_timers, the pending signals, and who runs.                   *)

\* Timers and signals when a thread is made ready.
LEMMA ResumeTimers ==
    ASSUME NEW k \in KernelState, NEW t \in Thread, Suspended(k, t)
    PROVE  LET r == rt_thread_resume(k, t)
           IN r.timer = k.timer \ {t} /\ r.sig = k.sig /\ r.cur = k.cur
<1>1. PICK m : m = rt_list_remove(k, t)
  OBVIOUS
<1>2. m \in KernelState /\ m.timer = k.timer /\ m.sig = k.sig /\ m.cur = k.cur
  BY <1>1, RemoveFrame
<1>3. PICK n : n = [m EXCEPT !.timer = m.timer \ {t}]
  OBVIOUS
<1>4. n \in KernelState /\ n.timer = m.timer \ {t} /\ n.sig = m.sig /\ n.cur = m.cur
  BY <1>2, <1>3 DEF KernelState
<1>5. PICK r : r = rt_schedule_insert_thread(n, t)
  OBVIOUS
<1>6. r = rt_thread_resume(k, t)
  BY <1>1, <1>3, <1>5 DEF rt_thread_resume
<1>7. r.timer = n.timer /\ r.sig = n.sig /\ r.cur = n.cur
  BY <1>4, <1>5, InsertFrame
<1> QED
  BY <1>2, <1>4, <1>6, <1>7

\* rt_thread_timeout stops the timer that expired and no other, and leaves a thread
\* running that can run.
LEMMA TimeoutTimers ==
    ASSUME NEW k, Sound(k), NEW t \in Thread, t \in k.timer
    PROVE  LET r == rt_thread_timeout(k, t)
           IN /\ r.timer = k.timer \ {t} /\ r.sig = k.sig
              /\ k.lock = 0 => r.stat[r.cur] = "RUNNING"
              /\ \E i : Sound(i) /\ r = rt_schedule(i) /\ Wakes(k, i, t)
                        /\ i.cur = k.cur /\ i.prio = k.prio
<1>1. k \in KernelState /\ Suspended(k, t)
  BY SoundFacts DEF ThreadOK
<1>2. PICK e : e = [k EXCEPT !.timer = @ \ {t}, !.err[t] = "ETIMEOUT"]
  OBVIOUS
<1>3. /\ e.list = k.list /\ e.group = k.group /\ e.stat = k.stat
      /\ e.cur = k.cur /\ e.prio = k.prio /\ e.timer = k.timer \ {t} /\ e.sig = k.sig
      /\ e.lock = k.lock /\ e.err = [k.err EXCEPT ![t] = "ETIMEOUT"]
  BY <1>1, <1>2 DEF KernelState
<1>4. e \in KernelState
  <2>1. [k.err EXCEPT ![t] = "ETIMEOUT"] \in [Thread -> Error]
    BY <1>1 DEF KernelState, Error
  <2> QED
    BY <2>1, <1>1, <1>2 DEF KernelState
<1>5. \A u \in Thread \ {t} : e.err[u] = k.err[u]
  BY <1>1, <1>3 DEF KernelState
<1>6. Sound(e) /\ Suspended(e, t)
  BY <1>1, <1>3, <1>4, MiscSound DEF Suspended
<1>7. PICK m : m = rt_list_remove(e, t)
  OBVIOUS
<1>8. /\ m \in KernelState
      /\ \A l \in Prio \cup Queue : m.list[l] = Without(e.list[l], t)
      /\ m.stat = e.stat /\ m.err = e.err /\ m.prio = e.prio /\ m.timer = e.timer
      /\ m.lock = e.lock /\ m.sig = e.sig /\ m.cur = e.cur
  BY <1>4, <1>7, RemoveFrame
<1>9. PICK i : i = rt_schedule_insert_thread(m, t)
  OBVIOUS
<1>10. Wakes(k, i, t) /\ i.prio = k.prio
  <2>1. /\ \A q \in Queue : m.list[q] = Without(k.list[q], t)
        /\ m.stat = k.stat /\ m.prio = k.prio /\ m.lock = k.lock
        /\ \A u \in Thread \ {t} : m.err[u] = k.err[u]
    BY <1>3, <1>5, <1>8
  <2> QED
    BY <2>1, <1>1, <1>8, <1>9, InsertWakes
<1>11. i.timer = m.timer /\ i.sig = m.sig /\ i.cur = m.cur /\ i.lock = m.lock
  BY <1>8, <1>9, InsertFrame
<1>12. Sound(i)
  <2>1. SoundBut(m, t)
    BY <1>6, <1>7, UnlinkSound
  <2> QED
    BY <2>1, <1>3, <1>8, <1>9, InsertSound
<1>13. PICK r : r = rt_schedule(i)
  OBVIOUS
<1>14. r.timer = i.timer /\ r.sig = i.sig
  BY <1>12, <1>13, ScheduleFrame
<1>15. k.lock = 0 => r.stat[r.cur] = "RUNNING"
  BY <1>3, <1>8, <1>11, <1>12, <1>13, ScheduleRuns
<1>16. r = rt_thread_timeout(k, t)
  BY <1>2, <1>7, <1>9, <1>13 DEF rt_thread_timeout
<1> QED
  BY <1>3, <1>8, <1>10, <1>11, <1>12, <1>13, <1>14, <1>15, <1>16

\* rt_thread_startup starts and stops no other timer.
LEMMA StartupTimers ==
    ASSUME NEW k, Sound(k), NEW t \in App, k.stat[t] = "INIT"
    PROVE  LET r == rt_thread_startup(k, t)
           IN r.timer = k.timer \ {t} /\ r.sig = k.sig
<1>0. t \in Thread /\ k \in KernelState
  BY DEF App, Sound
<1>1. PICK m : m = [k EXCEPT !.prio[t] = InitPrio[t], !.stat[t] = "INTERRUPTIBLE"]
  OBVIOUS
<1>2. /\ m.timer = k.timer /\ m.sig = k.sig
      /\ m.stat = [k.stat EXCEPT ![t] = "INTERRUPTIBLE"]
  BY <1>0, <1>1 DEF KernelState
<1>3. m \in KernelState
  <2>1. [k.stat EXCEPT ![t] = "INTERRUPTIBLE"] \in [Thread -> Stat]
    BY <1>0 DEF KernelState, Stat, SuspendFlag
  <2>2. [k.prio EXCEPT ![t] = InitPrio[t]] \in [Thread -> Prio]
    BY <1>0, KernelAssumption DEF KernelState
  <2>3. m = [k EXCEPT !.prio = [k.prio EXCEPT ![t] = InitPrio[t]],
                      !.stat = [k.stat EXCEPT ![t] = "INTERRUPTIBLE"]]
    BY <1>0, <1>1 DEF KernelState
  <2> QED
    BY <2>1, <2>2, <2>3, <1>0 DEF KernelState
<1>4. Suspended(m, t)
  BY <1>0, <1>2 DEF KernelState, Suspended, SuspendFlag
<1>5. PICK r : r = rt_thread_resume(m, t)
  OBVIOUS
<1>6. r.timer = m.timer \ {t} /\ r.sig = m.sig
  BY <1>0, <1>3, <1>4, <1>5, ResumeTimers
<1>7. r = rt_thread_startup(k, t)
  BY <1>1, <1>5 DEF rt_thread_startup
<1> QED
  BY <1>2, <1>6, <1>7

\* rt_thread_suspend_with_flag stops the timer of the thread.
LEMMA SuspendFrame ==
    ASSUME NEW k, Sound(k), NEW t \in App, NEW flag \in SuspendFlag,
           k.stat[t] \in Active
    PROVE  LET r == rt_thread_suspend_with_flag(k, t, flag)
           IN /\ \A u \in Thread \ {t} : r.stat[u] = k.stat[u]
              /\ r.timer = k.timer \ {t} /\ r.sig = k.sig /\ r.lock = k.lock
<1>0. t \in Thread /\ k \in KernelState
  BY DEF App, Sound
<1>1. PICK m : m = rt_schedule_remove_thread(k, t)
  OBVIOUS
<1>2. m \in KernelState /\ m.stat = k.stat /\ m.timer = k.timer /\ m.sig = k.sig /\ m.lock = k.lock
  BY <1>0, <1>1, RemoveFrame
<1>3. PICK v : v = [m EXCEPT !.stat[t] = flag, !.timer = @ \ {t}]
  OBVIOUS
<1>4. /\ v.timer = m.timer \ {t} /\ v.sig = m.sig /\ v.lock = m.lock
      /\ v.stat = [m.stat EXCEPT ![t] = flag]
  BY <1>2, <1>3 DEF KernelState
<1>5. \A u \in Thread \ {t} : v.stat[u] = k.stat[u]
  BY <1>0, <1>2, <1>4 DEF KernelState
<1>6. v = rt_thread_suspend_with_flag(k, t, flag)
  BY <1>1, <1>3 DEF rt_thread_suspend_with_flag
<1> QED
  BY <1>2, <1>4, <1>5, <1>6

\* rt_thread_sleep of a running thread with no signal pending: it waits, and the
\* timer that ends the wait runs.
LEMMA SleepSound ==
    ASSUME NEW k, Sound(k), NEW t \in App, k.stat[t] = "RUNNING", k.sig[t] = {}
    PROVE  LET r == rt_thread_sleep(k, t)
           IN /\ Sound(r) /\ Suspended(r, t) /\ r.timer = k.timer \cup {t}
              /\ \A u \in Thread \ {t} : r.stat[u] = k.stat[u]
              /\ r.cur = k.cur /\ r.prio = k.prio /\ r.sig = k.sig /\ r.lock = k.lock
<1>0. t \in Thread
  BY DEF App
<1>1. PICK v : v = rt_thread_suspend_with_flag(k, t, "INTERRUPTIBLE")
  OBVIOUS
<1>2. "INTERRUPTIBLE" \in SuspendFlag /\ k.stat[t] \in Active /\ k.stat[t] \in {"READY", "RUNNING"}
  BY DEF SuspendFlag, Active
<1>3. Sound(v) /\ Suspended(v, t) /\ v.cur = k.cur /\ v.prio = k.prio
  BY <1>1, <1>2, SuspendSound
<1>4. /\ \A u \in Thread \ {t} : v.stat[u] = k.stat[u]
      /\ v.timer = k.timer \ {t} /\ v.sig = k.sig /\ v.lock = k.lock
  BY <1>1, <1>2, SuspendFrame
<1>5. MaySuspend(k, t, "INTERRUPTIBLE")
  BY DEF MaySuspend, SignalForbidsSuspend
<1>6. PICK r : r = StartThreadTimer(v, t)
  OBVIOUS
<1>7. r = rt_thread_sleep(k, t)
  BY <1>1, <1>5, <1>6 DEF rt_thread_sleep, StartThreadTimer
<1>8. Sound(r)
  BY <1>0, <1>3, <1>6, StartTimerSound
<1>9. /\ r.timer = v.timer \cup {t} /\ r.stat = v.stat /\ r.cur = v.cur
      /\ r.prio = v.prio /\ r.sig = v.sig /\ r.lock = v.lock
  BY <1>3, <1>6 DEF StartThreadTimer, Sound, KernelState
<1>10. Suspended(r, t)
  BY <1>3, <1>9 DEF Suspended
<1>11. r.timer = k.timer \cup {t}
  BY <1>4, <1>9
<1> QED
  BY <1>3, <1>4, <1>7, <1>8, <1>9, <1>10, <1>11

\* A thread more urgent than every other one is not kept waiting for the processor
\* by rt_schedule, and not taken off it.
LEMMA ScheduleUrgent ==
    ASSUME NEW k, Sound(k), k.lock = 0, NEW t \in Thread,
           \A u \in Thread \ {t} : k.prio[t] < k.prio[u]
    PROVE  LET r == rt_schedule(k)
           IN /\ r.stat[t] # "READY"
              /\ k.stat[t] \in Active => r.cur = t
<1>1. /\ k \in KernelState /\ NodesLinkedOnce(k) /\ GroupOK(k)
      /\ \A u \in Thread : ThreadOK(k, u)
  BY SoundFacts
<1>2. /\ \A u \in Thread : k.prio[u] \in Prio /\ k.prio[u] \in Nat
      /\ k.group \in SUBSET Prio /\ k.cur \in Thread
  BY <1>1, KernelAssumption DEF KernelState
<1>3. PICK r : r = rt_schedule(k)
  OBVIOUS
<1>4. Sound(r) /\ Calm(k, r) /\ r.stat[r.cur] = "RUNNING"
  BY <1>3, ScheduleSound, ScheduleFrame, ScheduleRuns
<1>5. \A u \in Thread : ThreadOK(r, u)
  BY <1>4, SoundFacts
<1>6. CASE k.stat[t] \notin Active
  <2>1. r.stat[t] \notin Active
    BY <1>4, <1>6 DEF Calm, SameActivity
  <2> QED
    BY <2>1, <1>3, <1>6 DEF Active
<1>7. CASE k.stat[t] \in Active
  <2>1. SUFFICES r.cur = t
    BY <1>3, <1>4 DEF Active
  <2>2. CASE k.group = {}
    <3>1. r = k
      BY <2>2, <1>3 DEF rt_schedule
    <3>2. k.stat[t] # "READY"
      BY <2>2, <1>1, <1>2 DEF ThreadOK, GroupOK
    <3> QED
      BY <3>1, <3>2, <1>1, <1>7 DEF ThreadOK, Active
  <2>3. CASE k.group # {}
    <3>1. PICK highest : highest = HighestReadyPriority(k)
      OBVIOUS
    <3>2. highest \in k.group /\ highest \in Prio /\ \A p \in k.group : highest <= p
      BY <3>1, <2>3, <1>2, MostUrgentExists DEF HighestReadyPriority
    <3>3. PICK to : to = IF KeepsCurrent(k, highest) THEN k.cur ELSE Head(k.list[highest])
      OBVIOUS
    <3>4. PICK y : y = IF k.stat[k.cur] = "RUNNING" THEN [k EXCEPT !.yield = @ \ {k.cur}] ELSE k
      OBVIOUS
    <3>5. y \in KernelState /\ y.cur = k.cur
      BY <3>4, <1>1 DEF KernelState
    <3>6. to = t
      <4>1. CASE k.stat[t] = "RUNNING"
        <5>1. t = k.cur
          BY <4>1, <1>1 DEF ThreadOK
        <5>2. PICK u \in Thread : Linked(k, highest, u)
          BY <3>2, <1>1 DEF GroupOK
        <5>3. k.stat[u] = "READY" /\ k.prio[u] = highest
          BY <5>2, <3>2, <1>1 DEF ThreadOK
        <5>4. k.prio[t] < highest
          BY <5>3, <4>1
        <5> QED
          BY <5>1, <5>4, <4>1, <3>3 DEF KeepsCurrent
      <4>2. CASE k.stat[t] = "READY"
        <5>1. Linked(k, k.prio[t], t) /\ k.prio[t] \in k.group
          BY <4>2, <1>1, <1>2 DEF ThreadOK, GroupOK
        <5>2. highest <= k.prio[t] /\ highest \in Nat
          BY <5>1, <3>2, KernelAssumption
        <5>3. k.list[highest] \in Seq(Thread) /\ k.list[highest] # <<>>
          BY <3>2, <1>1, ListTypes DEF GroupOK
        <5>4. PICK h : h = Head(k.list[highest])
          OBVIOUS
        <5>5. h \in Thread /\ Linked(k, highest, h)
          BY <5>3, <5>4, HeadInList DEF Linked
        <5>6. k.prio[h] = highest
          BY <5>5, <3>2, <1>1 DEF ThreadOK
        <5>7. h = t
          <6>1. k.prio[h] <= k.prio[t] /\ k.prio[t] \in Nat /\ k.prio[h] \in Nat
            BY <5>2, <5>5, <5>6, <1>2
          <6>2. ~ (k.prio[t] < k.prio[h])
            BY <6>1
          <6> QED
            BY <6>2, <5>5
        <5>8. k.cur # t
          BY <4>2, <1>1 DEF ThreadOK
        <5>9. k.prio[t] < k.prio[k.cur] /\ highest = k.prio[t]
          BY <5>6, <5>7, <5>8, <1>2
        <5>10. ~ (k.prio[k.cur] < highest) /\ k.prio[k.cur] # highest
          BY <5>9, <1>2
        <5> QED
          BY <5>4, <5>7, <5>10, <3>3 DEF KeepsCurrent
      <4> QED
        BY <4>1, <4>2, <1>7 DEF Active
    <3>7. CASE to # k.cur
      <4>1. r = SwitchTo(y, to)
        BY <3>1, <3>3, <3>4, <3>7, <2>3, <1>3 DEF rt_schedule
      <4>2. PICK s : s = [y EXCEPT !.cur = to]
        OBVIOUS
      <4>3. s \in KernelState /\ s.cur = to
        BY <4>2, <3>5, <3>6 DEF KernelState
      <4>4. PICK f : f = IF y.stat[y.cur] = "RUNNING"
                         THEN rt_schedule_insert_thread(s, y.cur) ELSE s
        OBVIOUS
      <4>5. f \in KernelState /\ f.cur = to
        BY <4>3, <4>4, <3>5, <1>2, InsertFrame
      <4>6. PICK g : g = rt_schedule_remove_thread(f, to)
        OBVIOUS
      <4>7. g \in KernelState /\ g.cur = to
        BY <4>5, <4>6, <3>6, RemoveFrame
      <4>8. r = [g EXCEPT !.stat[to] = "RUNNING"]
        BY <4>1, <4>2, <4>4, <4>6 DEF SwitchTo
      <4> QED
        BY <4>7, <4>8, <3>6 DEF KernelState
    <3>8. CASE to = k.cur
      <4>1. r = [rt_schedule_remove_thread(y, to) EXCEPT !.stat[to] = "RUNNING"]
        BY <3>1, <3>3, <3>4, <3>8, <2>3, <1>3 DEF rt_schedule
      <4>2. PICK g : g = rt_schedule_remove_thread(y, to)
        OBVIOUS
      <4>3. g \in KernelState /\ g.cur = to
        BY <4>2, <3>5, <3>6, <3>8, RemoveFrame
      <4> QED
        BY <4>1, <4>2, <4>3, <3>6 DEF KernelState
    <3> QED
      BY <3>7, <3>8
  <2> QED
    BY <2>2, <2>3
<1> QED
  BY <1>6, <1>7

-----------------------------------------------------------------------------
(* The timer list.  The arguments are about the ticks that remain until a  *)
(* timer is due: while they stay within half of the range of the tick, the *)
(* comparisons of timer.c, which are modulo that range, order them         *)
(* correctly.                                                              *)

\* RT_TICK_MAX / 2
Half == RT_TICK_MAX \div 2

-----------------------------------------------------------------------------
(* Arithmetic modulo the size of rt_tick_t. *)

\* Half of the range, in numbers.
LEMMA HalfFacts ==
    /\ TickSize \in Nat /\ TickSize > 4 /\ TickSize # 0
    /\ Half \in Nat /\ Half >= 2
    /\ TickSize = 2 * Half + 1 \/ TickSize = 2 * Half + 2
    /\ TickSize \div 2 \in Nat /\ TickSize \div 2 >= Half /\ TickSize \div 2 <= Half + 1
    /\ 2 * (TickSize \div 2) <= TickSize
    /\ Tick = 0 .. TickSize - 1
    /\ \A i \in InitTick : i \in Nat /\ 1 <= i /\ i <= Half - 1
  BY TimerAssumption DEF Half, RT_TICK_MAX, Tick

\* A value that is within one range of the tick, reduced.
LEMMA Reduced ==
    ASSUME NEW x \in Int
    PROVE  /\ x % TickSize \in Tick
           /\ x \in Tick => x % TickSize = x
           /\ x + TickSize \in Tick => x % TickSize = x + TickSize
           /\ x - TickSize \in Tick => x % TickSize = x - TickSize
<1>1. TickSize \in Nat /\ TickSize > 0 /\ Tick = 0 .. TickSize - 1
  BY HalfFacts
<1>2. x % TickSize \in Tick
  BY <1>1
<1>3. PICK r \in Tick : r = x % TickSize
  BY <1>2
<1>4. x \in Tick => r = x
  BY <1>1, <1>3
<1>5. x + TickSize \in Tick => r = x + TickSize
  BY <1>1, <1>3, SMTT(30)
<1>6. x - TickSize \in Tick => r = x - TickSize
  BY <1>1, <1>3, SMTT(30)
<1> QED
  BY <1>2, <1>3, <1>4, <1>5, <1>6

\* A value that is a whole range away from a tick is that tick.
LEMMA ReducedTo ==
    ASSUME NEW x \in Int, NEW m \in Tick, x \in {m, m + TickSize, m - TickSize}
    PROVE  x % TickSize = m
<1>1. TickSize \in Nat /\ m \in Int
  BY HalfFacts
<1>2. CASE x = m
  BY <1>2, Reduced
<1>3. CASE x = m + TickSize
  <2>1. x - TickSize = m
    BY <1>1, <1>3
  <2> QED
    BY <2>1, Reduced
<1>4. CASE x = m - TickSize
  <2>1. x + TickSize = m
    BY <1>1, <1>4
  <2> QED
    BY <2>1, Reduced
<1> QED
  BY <1>2, <1>3, <1>4

\* The ticks from tick y to tick x, negative when x is past.
Ticks(x, y) ==
    LET d == Minus(x, y) IN IF d <= TickSize \div 2 THEN d ELSE d - TickSize

\* Signed distances between ticks, in numbers.
LEMMA TicksFacts ==
    ASSUME NEW x \in Tick, NEW y \in Tick
    PROVE  /\ Ticks(x, y) \in Int
           /\ Ticks(x, y) <= TickSize \div 2
           /\ TickSize \div 2 < Ticks(x, y) + TickSize
           /\ x - y \in {Ticks(x, y), Ticks(x, y) + TickSize, Ticks(x, y) - TickSize}
<1>1. PICK d : d = (x - y) % TickSize
  OBVIOUS
<1>2. d \in Tick /\ x - y \in {d, d - TickSize}
  <2>1. x - y \in Int
    BY HalfFacts
  <2>2. x - y \in Tick \/ x - y + TickSize \in Tick
    BY HalfFacts
  <2>3. d = x - y \/ d = x - y + TickSize
    BY <2>1, <2>2, <1>1, Reduced
  <2>4. d \in Tick
    BY <2>1, <1>1, Reduced
  <2> QED
    BY <2>1, <2>3, <2>4, HalfFacts
<1>3. Ticks(x, y) = IF d <= TickSize \div 2 THEN d ELSE d - TickSize
  BY <1>1 DEF Ticks, Minus
<1> QED
  BY <1>2, <1>3, HalfFacts

\* A distance of less than half of the range is found again from the tick it
\* leads to.
LEMMA TicksAhead ==
    ASSUME NEW y \in Tick, NEW r \in 0 .. Half
    PROVE  /\ (y + r) % TickSize \in Tick
           /\ Ticks((y + r) % TickSize, y) = r
<1>1. PICK x : x = (y + r) % TickSize
  OBVIOUS
<1>2. x \in Tick /\ (x = y + r \/ x = (y + r) - TickSize)
  <2>1. PICK v \in Int : v = y + r
    BY HalfFacts
  <2>2. v \in Tick \/ v - TickSize \in Tick
    BY <2>1, HalfFacts
  <2> QED
    BY <2>1, <2>2, <1>1, Reduced
<1>3. PICK a \in Int : a = Ticks(x, y)
  BY <1>2, TicksFacts
<1>4. /\ a <= TickSize \div 2 /\ TickSize \div 2 < a + TickSize
      /\ x - y \in {a, a + TickSize, a - TickSize}
  BY <1>2, <1>3, TicksFacts
<1>5. a = r
  BY <1>2, <1>4, HalfFacts
<1> QED
  BY <1>1, <1>2, <1>3, <1>5

\* When the clock ticks every distance shrinks by one, as long as it stays within
\* the range.
LEMMA TicksPass ==
    ASSUME NEW x \in Tick, NEW y \in Tick, Ticks(x, y) > 1 - Half
    PROVE  /\ (y + 1) % TickSize \in Tick
           /\ Ticks(x, (y + 1) % TickSize) = Ticks(x, y) - 1
<1>1. PICK z : z = (y + 1) % TickSize
  OBVIOUS
<1>2. z \in Tick /\ (z = y + 1 \/ z = (y + 1) - TickSize)
  <2>1. PICK v \in Int : v = y + 1
    BY HalfFacts
  <2>2. v \in Tick \/ v - TickSize \in Tick
    BY <2>1, HalfFacts
  <2> QED
    BY <2>1, <2>2, <1>1, Reduced
<1>3. PICK a \in Int : a = Ticks(x, y)
  BY TicksFacts
<1>4. /\ a <= TickSize \div 2 /\ a > 1 - Half
      /\ x - y \in {a, a + TickSize, a - TickSize}
  BY <1>3, TicksFacts
<1>5. PICK b \in Int : b = Ticks(x, z)
  BY <1>2, TicksFacts
<1>6. /\ b <= TickSize \div 2 /\ TickSize \div 2 < b + TickSize
      /\ x - z \in {b, b + TickSize, b - TickSize}
  BY <1>2, <1>5, TicksFacts
<1>7. b = a - 1
  BY <1>2, <1>4, <1>6, HalfFacts
<1> QED
  BY <1>1, <1>2, <1>3, <1>5, <1>7

\* The comparison in rt_timer_start of two ticks, x and y, seen from tick n: it is
\* right when neither is too far ahead and they are not too far apart.
LEMMA TicksCompare ==
    ASSUME NEW x \in Tick, NEW y \in Tick, NEW n \in Tick,
           Ticks(x, n) < Half, 0 <= Ticks(y, n), Ticks(y, n) - Ticks(x, n) <= Half + 1
    PROVE  Minus(x, y) # 0 /\ Ahead(Minus(x, y)) <=> Ticks(x, n) > Ticks(y, n)
<1>1. PICK a \in Int : a = Ticks(x, n)
  BY TicksFacts
<1>2. PICK b \in Int : b = Ticks(y, n)
  BY TicksFacts
<1>3. x - n \in {a, a + TickSize, a - TickSize} /\ y - n \in {b, b + TickSize, b - TickSize}
  BY <1>1, <1>2, TicksFacts
<1>4. a < Half /\ 0 <= b /\ b - a <= Half + 1
  BY <1>1, <1>2
<1>5. x - y \in Int /\ x - y \in {a - b, a - b + TickSize, a - b - TickSize}
  BY <1>3, <1>4, HalfFacts
<1>6. CASE a >= b
  <2>1. a - b \in Tick /\ a - b < Half
    BY <1>4, <1>6, HalfFacts
  <2>2. PICK m \in Tick : m = a - b
    BY <2>1
  <2>3. x - y \in {m, m + TickSize, m - TickSize}
    BY <2>2, <1>1, <1>2, <1>5, HalfFacts
  <2>4. Minus(x, y) = m
    BY <2>3, <1>5, ReducedTo DEF Minus
  <2>5. m < Half /\ (m # 0 <=> a > b)
    BY <2>1, <2>2, <1>6, HalfFacts
  <2> QED
    BY <2>4, <2>5, <1>1, <1>2 DEF Ahead, Half
<1>7. CASE a < b
  <2>1. a - b + TickSize \in Tick /\ a - b + TickSize >= Half
    BY <1>4, <1>7, HalfFacts
  <2>2. PICK m \in Tick : m = a - b + TickSize
    BY <2>1
  <2>3. x - y \in {m, m + TickSize, m - TickSize}
    <3>1. x - y # (a - b) - TickSize
      BY <1>7, HalfFacts
    <3>2. m - TickSize = a - b
      BY <2>2, HalfFacts
    <3> QED
      BY <3>1, <3>2, <2>2, <1>5
  <2>4. Minus(x, y) = m
    BY <2>3, <1>5, ReducedTo DEF Minus
  <2>5. ~ (m < Half)
    BY <2>1, <2>2, HalfFacts
  <2> QED
    BY <2>4, <2>5, <1>1, <1>2, <1>7 DEF Ahead, Half
<1> QED
  BY <1>6, <1>7

\* The test of rt_timer_check: the tick x is not ahead of the tick n.
LEMMA TicksDue ==
    ASSUME NEW x \in Tick, NEW n \in Tick, Ticks(x, n) < Half, - Half < Ticks(x, n)
    PROVE  Ahead(Minus(n, x)) <=> Ticks(x, n) <= 0
<1>0. TickSize \in Nat
  BY HalfFacts
<1>1. PICK a \in Int : a = Ticks(x, n)
  BY TicksFacts
<1>2. x - n \in {a, a + TickSize, a - TickSize} /\ a < Half /\ - Half < a
  BY <1>1, TicksFacts
<1>3. n - x \in Int /\ n - x \in {- a, - a + TickSize, - a - TickSize}
  BY <1>2, HalfFacts
<1>4. CASE a <= 0
  <2>1. - a \in Tick /\ - a < Half
    BY <1>2, <1>4, HalfFacts
  <2>2. PICK m \in Tick : m = - a
    BY <2>1
  <2>3. n - x \in {m, m + TickSize, m - TickSize}
    BY <2>2, <1>3
  <2>4. Minus(n, x) = m
    BY <2>3, <1>3, ReducedTo DEF Minus
  <2> QED
    BY <2>1, <2>2, <2>4, <1>1, <1>4, HalfFacts DEF Ahead, Half
<1>5. CASE a > 0
  <2>1. - a + TickSize \in Tick /\ - a + TickSize >= Half
    BY <1>2, <1>5, HalfFacts
  <2>2. PICK m \in Tick : m = - a + TickSize
    BY <2>1
  <2>3. n - x \in {m, m + TickSize, m - TickSize}
    <3>1. n - x > - TickSize
      BY HalfFacts
    <3>2. n - x # - a - TickSize
      BY <3>1, <1>0, <1>1, <1>5
    <3> QED
      BY <3>2, <2>2, <1>0, <1>1, <1>3
  <2>4. Minus(n, x) = m
    BY <2>3, <1>3, ReducedTo DEF Minus
  <2> QED
    BY <2>1, <2>2, <2>4, <1>1, <1>5, HalfFacts DEF Ahead, Half
<1> QED
  BY <1>4, <1>5

-----------------------------------------------------------------------------
(* The list. *)

\* The ticks left until each timer is due.
Key(w) == [t \in Timer |-> Ticks(w.timeout[t], w.tick)]

\* A timer is linked once, in one of the two lists, and is active in the first.
LinkedOnce(w) ==
    /\ NoRepeats(w.list)
    /\ ToSet(w.list) \cap w.temp = {}
    /\ \A t, u \in w.temp : t = u
    /\ ToSet(w.list) \subseteq w.active

\* No linked timer is due too far ahead, nor so late that it would be confused with
\* one to come when rt_timer_start compares it with a timer that is started now.
InRange(w) ==
    \A t \in ToSet(w.list) :
        /\ Ticks(w.timeout[t], w.tick) < Half
        /\ \A i \in InitTick : i - Ticks(w.timeout[t], w.tick) <= Half + 1

\* What every function of timer.c keeps.
TimersOK(w) ==
    /\ w \in TimerListState
    /\ LinkedOnce(w)
    /\ InRange(w)
    /\ SortedBy(Key(w), w.list)

\* No timer is linked in front of one that was linked before and is due at the
\* same tick.
NoOvertaking(w, v) ==
    \A i, j \in 1 .. Len(v.list) :
        i < j /\ v.timeout[v.list[i]] = v.timeout[v.list[j]]
            => (v.list[i] \in ToSet(w.list) \/ v.list[j] \notin ToSet(w.list))

\* From w to v time stands still, and the timers of v's list were in w's list, due
\* at the same tick.
OnlyUnlinks(w, v) ==
    /\ v.tick = w.tick
    /\ ToSet(v.list) \subseteq ToSet(w.list)
    /\ \A u \in ToSet(v.list) : v.timeout[u] = w.timeout[u]

\* The types of the parts of a timer list.
LEMMA StateFacts ==
    ASSUME NEW w \in TimerListState
    PROVE  /\ w.tick \in Tick
           /\ w.list \in Seq(Timer)
           /\ ToSet(w.list) \subseteq Timer
           /\ w.timeout \in [Timer -> Tick]
           /\ \A t \in Timer : w.timeout[t] \in Tick
           /\ \A t \in Timer : Ticks(w.timeout[t], w.tick) \in Int
           /\ \A t \in Timer : w.init[t] \in InitTick
           /\ w.temp \subseteq Timer /\ w.active \subseteq Timer /\ w.periodic \subseteq Timer
<1>1. /\ w.tick \in Tick
      /\ w.list \in Seq(Timer)
      /\ w.timeout \in [Timer -> Tick]
      /\ w.init \in [Timer -> InitTick]
      /\ w.temp \subseteq Timer /\ w.active \subseteq Timer /\ w.periodic \subseteq Timer
  BY DEF TimerListState
<1>2. ToSet(w.list) \subseteq Timer
  BY <1>1 DEF ToSet
<1>3. \A t \in Timer : w.timeout[t] \in Tick /\ w.init[t] \in InitTick
  BY <1>1
<1>4. \A t \in Timer : Ticks(w.timeout[t], w.tick) \in Int
  BY <1>1, <1>3, TicksFacts
<1> QED
  BY <1>1, <1>2, <1>3, <1>4

\* What the properties say, from what the functions keep.
LEMMA TimersFacts ==
    ASSUME NEW w, TimersOK(w)
    PROVE  FlagMatchesList(w) /\ SortedByTimeout(w)
<1>1. \A t : Remaining(w, t) = Ticks(w.timeout[t], w.tick)
  BY DEF Remaining, Ticks
<1>2. SortedByTimeout(w)
  <2> SUFFICES ASSUME NEW i \in 1 .. Len(w.list), NEW j \in 1 .. Len(w.list), i < j
               PROVE  Remaining(w, w.list[i]) <= Remaining(w, w.list[j])
    BY DEF SortedByTimeout
  <2>1. w.list[i] \in Timer /\ w.list[j] \in Timer
    BY StateFacts DEF TimersOK
  <2>2. Key(w)[w.list[i]] <= Key(w)[w.list[j]]
    BY DEF TimersOK, SortedBy
  <2> QED
    BY <2>1, <2>2, <1>1 DEF Key
<1>3. Cardinality(w.temp) <= 1
  <2>1. CASE w.temp = {}
    BY <2>1, FS_EmptySet
  <2>2. CASE w.temp # {}
    <3>1. PICK t : t \in w.temp
      BY <2>2
    <3>2. w.temp = {t}
      BY <3>1 DEF TimersOK, LinkedOnce
    <3>3. Cardinality({t}) = 1
      BY FS_Singleton
    <3> QED
      BY <3>2, <3>3
  <2> QED
    BY <2>1, <2>2
<1> QED
  BY <1>2, <1>3 DEF FlagMatchesList, TimersOK, LinkedOnce

\* A list whose timers are due when they were keeps its order and its range.
LEMMA OnlyUnlinksKeeps ==
    ASSUME NEW w, TimersOK(w), NEW v \in TimerListState, OnlyUnlinks(w, v), LinkedOnce(v),
           SortedBy(Key(w), v.list)
    PROVE  /\ TimersOK(v) /\ NoOvertaking(w, v)
           /\ \A u \in ToSet(v.list) : Ticks(v.timeout[u], v.tick) = Ticks(w.timeout[u], w.tick)
<1>1. w \in TimerListState /\ InRange(w) /\ v.list \in Seq(Timer) /\ ToSet(v.list) \subseteq Timer
  BY StateFacts DEF TimersOK
<1>2. \A u \in ToSet(v.list) : u \in ToSet(w.list) /\ Ticks(v.timeout[u], v.tick) = Ticks(w.timeout[u], w.tick)
  BY DEF OnlyUnlinks
<1>3. InRange(v)
  BY <1>1, <1>2 DEF InRange
<1>4. \A u \in ToSet(v.list) : Key(w)[u] = Key(v)[u]
  BY <1>1, <1>2 DEF Key
<1>5. SortedBy(Key(v), v.list)
  BY <1>1, <1>4, SortedSame
<1>6. \A i \in 1 .. Len(v.list) : v.list[i] \in ToSet(v.list)
  BY <1>1 DEF ToSet
<1>7. NoOvertaking(w, v)
  BY <1>2, <1>6 DEF NoOvertaking
<1> QED
  BY <1>2, <1>3, <1>5, <1>7 DEF TimersOK

\* _rt_timer_remove
LEMMA TimerRemoveSound ==
    ASSUME NEW w, TimersOK(w), NEW t \in Timer
    PROVE  LET v == TimerRemove(w, t)
           IN /\ TimersOK(v) /\ OnlyUnlinks(w, v)
              /\ ToSet(v.list) = ToSet(w.list) \ {t}
              /\ v.temp = w.temp \ {t}
              /\ v.init = w.init /\ v.active = w.active /\ v.periodic = w.periodic
              /\ NoOvertaking(w, v)
              /\ \A u \in ToSet(v.list) :
                    Ticks(v.timeout[u], v.tick) = Ticks(w.timeout[u], w.tick)
<1>1. w \in TimerListState /\ LinkedOnce(w) /\ SortedBy(Key(w), w.list)
  BY DEF TimersOK
<1>2. PICK v : v = TimerRemove(w, t)
  OBVIOUS
<1>3. PICK s : s = Without(w.list, t)
  OBVIOUS
<1>4. s \in Seq(Timer) /\ ToSet(s) = ToSet(w.list) \ {t} /\ NoRepeats(s)
  BY <1>1, <1>3, StateFacts, WithoutList DEF LinkedOnce
<1>5. SortedBy(Key(w), s)
  BY <1>1, <1>3, StateFacts, SortedWithout
<1>6. /\ v.tick = w.tick /\ v.list = s /\ v.temp = w.temp \ {t}
      /\ v.timeout = [w.timeout EXCEPT ![t] = 0]
      /\ v.init = w.init /\ v.active = w.active /\ v.periodic = w.periodic
  BY <1>1, <1>2, <1>3 DEF TimerRemove, TimerListState
<1>7. v \in TimerListState
  <2>1. [w.timeout EXCEPT ![t] = 0] \in [Timer -> Tick]
    BY <1>1, StateFacts, HalfFacts
  <2>2. w.temp \ {t} \subseteq Timer
    BY <1>1, StateFacts
  <2> QED
    BY <2>1, <2>2, <1>1, <1>2, <1>3, <1>4 DEF TimerRemove, TimerListState
<1>8. \A u \in ToSet(v.list) : v.timeout[u] = w.timeout[u]
  BY <1>1, <1>4, <1>6, StateFacts
<1>9. OnlyUnlinks(w, v) /\ LinkedOnce(v)
  BY <1>1, <1>4, <1>6, <1>8 DEF OnlyUnlinks, LinkedOnce
<1>10. /\ TimersOK(v) /\ NoOvertaking(w, v)
       /\ \A u \in ToSet(v.list) : Ticks(v.timeout[u], v.tick) = Ticks(w.timeout[u], w.tick)
  BY <1>5, <1>6, <1>7, <1>9, OnlyUnlinksKeeps
<1>11. /\ TimersOK(v) /\ OnlyUnlinks(w, v)
       /\ ToSet(v.list) = ToSet(w.list) \ {t}
       /\ v.temp = w.temp \ {t}
       /\ v.init = w.init /\ v.active = w.active /\ v.periodic = w.periodic
       /\ NoOvertaking(w, v)
       /\ \A u \in ToSet(v.list) : Ticks(v.timeout[u], v.tick) = Ticks(w.timeout[u], w.tick)
  BY <1>4, <1>6, <1>9, <1>10
<1> QED
  BY <1>2, <1>11

\* A change of the flags, of init_tick, or of the temporary list.
LEMMA SameListSound ==
    ASSUME NEW w, TimersOK(w), NEW v \in TimerListState,
           v.tick = w.tick, v.list = w.list, v.timeout = w.timeout, LinkedOnce(v)
    PROVE  /\ TimersOK(v) /\ OnlyUnlinks(w, v) /\ NoOvertaking(w, v)
           /\ \A u \in ToSet(v.list) : Ticks(v.timeout[u], v.tick) = Ticks(w.timeout[u], w.tick)
<1>1. OnlyUnlinks(w, v) /\ SortedBy(Key(w), v.list)
  BY DEF OnlyUnlinks, TimersOK
<1> QED
  BY <1>1, OnlyUnlinksKeeps

\* The walk of rt_timer_start ends.
LEMMA StartPositionExists ==
    ASSUME NEW w \in TimerListState, NEW t \in Timer
    PROVE  LET p == StartPosition(w, t)
           IN /\ p \in 1 .. Len(w.list) + 1
              /\ \A j \in 1 .. p - 1 : ~ ExpiresAfter(w, w.list[j], t)
              /\ p <= Len(w.list) => ExpiresAfter(w, w.list[p], t)
<1>0. w.list \in Seq(Timer) /\ Len(w.list) \in Nat
  BY StateFacts
<1>1. PICK G : G = {i \in 1 .. Len(w.list) + 1 :
                        i <= Len(w.list) => ExpiresAfter(w, w.list[i], t)}
  OBVIOUS
<1>2. G \subseteq Nat /\ Len(w.list) + 1 \in G
  BY <1>0, <1>1
<1>3. PICK i \in G : \A j \in G : i <= j
  BY <1>2, LeastPosition
<1>4. i \in 1 .. Len(w.list) + 1 /\ (i <= Len(w.list) => ExpiresAfter(w, w.list[i], t))
  BY <1>1, <1>3
<1>5. \A j \in 1 .. i - 1 : ~ ExpiresAfter(w, w.list[j], t)
  <2> TAKE j \in 1 .. i - 1
  <2>1. j \in 1 .. Len(w.list) /\ j \in 1 .. Len(w.list) + 1 /\ ~ (i <= j)
    BY <1>0, <1>4
  <2>2. j \notin G
    BY <2>1, <1>3
  <2> QED
    BY <2>1, <2>2, <1>1
<1> QED
  BY <1>4, <1>5 DEF StartPosition

\* The second part of rt_timer_start, once the timer is in no list.
Link(w, t) ==
    LET r == [w EXCEPT !.timeout[t] = (w.tick + w.init[t]) % TickSize]
    IN [r EXCEPT !.list = InsertAt(@, StartPosition(r, t), t), !.active = @ \cup {t}]

\* No timer that is due when t is comes after t.
LastOfItsTick(v, t) ==
    \A i, j \in 1 .. Len(v.list) :
        i < j /\ v.timeout[v.list[i]] = v.timeout[v.list[j]] => v.list[i] # t

\* Linking a timer that is in no list: the place that rt_timer_start finds keeps the
\* order, and is behind the timers that are due at the same tick.
LEMMA TimerLinkSound ==
    ASSUME NEW w, TimersOK(w), NEW t \in Timer, t \notin ToSet(w.list), t \notin w.temp
    PROVE  LET v == Link(w, t)
           IN /\ TimersOK(v) /\ v.tick = w.tick /\ v.temp = w.temp
              /\ ToSet(v.list) = ToSet(w.list) \cup {t}
              /\ Ticks(v.timeout[t], v.tick) = w.init[t]
              /\ \A u \in ToSet(w.list) : Ticks(v.timeout[u], v.tick) = Ticks(w.timeout[u], w.tick)
              /\ LastOfItsTick(v, t)
<1>1. w \in TimerListState /\ LinkedOnce(w) /\ SortedBy(Key(w), w.list) /\ InRange(w)
  BY DEF TimersOK
<1>2. PICK x : x = (w.tick + w.init[t]) % TickSize
  OBVIOUS
<1>a. PICK r : r = [w EXCEPT !.timeout[t] = (w.tick + w.init[t]) % TickSize]
  OBVIOUS
<1>b. PICK v : v = [r EXCEPT !.list = InsertAt(@, StartPosition(r, t), t),
                             !.active = @ \cup {t}]
  OBVIOUS
<1>c. v = Link(w, t)
  BY <1>a, <1>b DEF Link
<1>3. w.init[t] \in InitTick /\ w.init[t] \in 0 .. Half /\ w.init[t] < Half
  <2>1. PICK a \in InitTick : a = w.init[t]
    BY <1>1, StateFacts
  <2>2. a \in 0 .. Half /\ a < Half
    BY HalfFacts
  <2> QED
    BY <2>1, <2>2
<1>4. x \in Tick /\ Ticks(x, w.tick) = w.init[t]
  BY <1>1, <1>2, <1>3, StateFacts, TicksAhead
<1>5. /\ r.tick = w.tick /\ r.list = w.list /\ r.temp = w.temp
      /\ r.timeout = [w.timeout EXCEPT ![t] = x]
      /\ r.init = w.init /\ r.active = w.active /\ r.periodic = w.periodic
  BY <1>1, <1>2, <1>a DEF TimerListState
<1>6. r \in TimerListState
  <2>1. [w.timeout EXCEPT ![t] = x] \in [Timer -> Tick]
    BY <1>1, <1>4, StateFacts
  <2> QED
    BY <2>1, <1>1, <1>2, <1>a DEF TimerListState
<1>7. /\ r.timeout[t] = x
      /\ \A u \in Timer \ {t} : r.timeout[u] = w.timeout[u]
  BY <1>1, <1>5, StateFacts
<1>8. \A u \in ToSet(w.list) : u \in Timer /\ u # t
  BY <1>1, StateFacts
<1>9. \A u \in ToSet(w.list) : Ticks(r.timeout[u], r.tick) = Ticks(w.timeout[u], w.tick)
  BY <1>5, <1>7, <1>8
<1>10. Ticks(r.timeout[t], r.tick) = w.init[t]
  BY <1>4, <1>5, <1>7
<1>11. ASSUME NEW u \in ToSet(w.list)
       PROVE  ExpiresAfter(r, u, t) <=> Key(r)[u] > Key(r)[t]
  <2>1. /\ r.timeout[u] \in Tick /\ r.timeout[t] \in Tick /\ r.tick \in Tick
    BY <1>6, <1>8, StateFacts
  <2>2. /\ Ticks(r.timeout[u], r.tick) < Half
        /\ w.init[t] - Ticks(r.timeout[u], r.tick) <= Half + 1
    BY <1>1, <1>3, <1>9 DEF InRange
  <2>3. /\ 0 <= Ticks(r.timeout[t], r.tick)
        /\ Ticks(r.timeout[t], r.tick) - Ticks(r.timeout[u], r.tick) <= Half + 1
    BY <2>2, <1>3, <1>10
  <2>4. Minus(r.timeout[u], r.timeout[t]) # 0 /\ Ahead(Minus(r.timeout[u], r.timeout[t]))
            <=> Ticks(r.timeout[u], r.tick) > Ticks(r.timeout[t], r.tick)
    BY <2>1, <2>2, <2>3, TicksCompare
  <2> QED
    BY <2>4, <1>8 DEF ExpiresAfter, Key
<1>12. PICK p : p = StartPosition(r, t)
  OBVIOUS
<1>13. /\ p \in 1 .. Len(w.list) + 1
       /\ \A j \in 1 .. p - 1 : ~ ExpiresAfter(r, w.list[j], t)
       /\ p <= Len(w.list) => ExpiresAfter(r, w.list[p], t)
  BY <1>5, <1>6, <1>12, StartPositionExists
<1>14. w.list \in Seq(Timer) /\ Len(w.list) \in Nat /\ \A j \in 1 .. Len(w.list) : w.list[j] \in ToSet(w.list)
  BY <1>1, StateFacts DEF ToSet
<1>15. \A u \in Timer : Key(r)[u] \in Int
  BY <1>6, StateFacts DEF Key
<1>16. \A u \in ToSet(w.list) : Key(w)[u] = Key(r)[u]
  BY <1>8, <1>9 DEF Key
<1>17. SortedBy(Key(r), w.list)
  BY <1>1, <1>14, <1>16, SortedSame
<1>18. \A j \in 1 .. p - 1 : Key(r)[w.list[j]] <= Key(r)[t]
  <2> TAKE j \in 1 .. p - 1
  <2>1. j \in 1 .. Len(w.list)
    BY <1>13, <1>14
  <2>2. w.list[j] \in ToSet(w.list) /\ w.list[j] \in Timer
    BY <2>1, <1>8, <1>14
  <2>3. ~ (Key(r)[w.list[j]] > Key(r)[t])
    BY <2>2, <1>11, <1>13
  <2> QED
    BY <2>2, <2>3, <1>15
<1>19. p <= Len(w.list) => Key(r)[t] < Key(r)[w.list[p]]
  <2> HAVE p <= Len(w.list)
  <2>1. w.list[p] \in ToSet(w.list) /\ w.list[p] \in Timer
    BY <1>8, <1>13, <1>14
  <2> QED
    BY <2>1, <1>11, <1>13, <1>15
<1>20. PICK s : s = InsertAt(w.list, p, t)
  OBVIOUS
<1>21. SortedBy(Key(r), s)
  BY <1>13, <1>14, <1>15, <1>17, <1>18, <1>19, <1>20, SortedInsertAt
<1>22. s \in Seq(Timer) /\ ToSet(s) = ToSet(w.list) \cup {t} /\ NoRepeats(s)
  BY <1>1, <1>13, <1>14, <1>20, InsertList DEF LinkedOnce
<1>23. /\ v.tick = w.tick /\ v.list = s /\ v.temp = w.temp /\ v.timeout = r.timeout
       /\ v.active = w.active \cup {t} /\ v.init = w.init /\ v.periodic = w.periodic
  BY <1>b, <1>5, <1>6, <1>12, <1>20 DEF TimerListState
<1>24. v \in TimerListState
  <2>1. w.active \cup {t} \subseteq Timer
    BY <1>1, StateFacts
  <2> QED
    BY <2>1, <1>b, <1>5, <1>6, <1>12, <1>20, <1>22 DEF TimerListState
<1>25. LinkedOnce(v)
  BY <1>1, <1>22, <1>23 DEF LinkedOnce
<1>26. Ticks(v.timeout[t], v.tick) = w.init[t]
  BY <1>5, <1>10, <1>23
<1>27. \A u \in ToSet(w.list) : Ticks(v.timeout[u], v.tick) = Ticks(w.timeout[u], w.tick)
  BY <1>5, <1>9, <1>23
<1>28. InRange(v)
  <2>1. ASSUME NEW i \in InitTick PROVE i - w.init[t] <= Half + 1
    <3>1. i \in Nat /\ i <= Half - 1
      BY HalfFacts
    <3>2. w.init[t] \in Nat /\ Half \in Nat
      BY <1>3, HalfFacts
    <3> QED
      BY <3>1, <3>2
  <2> QED
    BY <2>1, <1>1, <1>3, <1>22, <1>23, <1>26, <1>27 DEF InRange
<1>29. SortedBy(Key(v), v.list)
  BY <1>5, <1>21, <1>23 DEF Key
<1>d. /\ Len(s) = Len(w.list) + 1 /\ s[p] = t
      /\ \A m \in p .. Len(w.list) : s[m + 1] = w.list[m]
  <2>1. PICK l \in Seq(Timer) : l = w.list
    BY <1>14
  <2>2. p \in 1 .. Len(l) + 1 /\ t \in Timer
    BY <2>1, <1>13
  <2>3. /\ Len(InsertAt(l, p, t)) = Len(l) + 1 /\ InsertAt(l, p, t)[p] = t
        /\ \A m \in p .. Len(l) : InsertAt(l, p, t)[m + 1] = l[m]
    BY <2>2, InsertAtList
  <2> QED
    BY <2>1, <2>3, <1>20
<1>30. ASSUME NEW i \in 1 .. Len(v.list), NEW j \in 1 .. Len(v.list), i < j,
              v.timeout[v.list[i]] = v.timeout[v.list[j]]
       PROVE  v.list[i] # t
  <2> SUFFICES ASSUME v.list[i] = t PROVE FALSE
    OBVIOUS
  <2>2. i = p
    BY <1>d, <1>13, <1>14, <1>22, <1>23 DEF NoRepeats
  <2>3. PICK m \in p .. Len(w.list) : j = m + 1
    <3>1. j - 1 \in p .. Len(w.list) /\ j = (j - 1) + 1
      BY <1>d, <2>2, <1>13, <1>14, <1>23, <1>30
    <3> QED
      BY <3>1
  <2>4. v.list[j] = w.list[m] /\ m \in 1 .. Len(w.list) /\ p \in 1 .. Len(w.list)
    BY <1>d, <2>3, <1>13, <1>14, <1>23
  <2>5. w.list[m] \in Timer /\ w.list[p] \in Timer
    BY <2>4, <1>8, <1>14
  <2>6. Key(r)[t] < Key(r)[w.list[p]]
    BY <2>4, <1>19, <1>14
  <2>7. Key(r)[w.list[p]] <= Key(r)[w.list[m]]
    <3>1. CASE p = m
      BY <3>1, <2>5, <1>15
    <3>2. CASE p < m
      BY <3>2, <2>4, <1>17 DEF SortedBy
    <3> QED
      BY <3>1, <3>2, <2>3, <1>13
  <2>8. Key(r)[t] # Key(r)[w.list[m]]
    BY <2>5, <2>6, <2>7, <1>15
  <2>9. r.timeout[t] # r.timeout[w.list[m]]
    BY <2>5, <2>8 DEF Key
  <2> QED
    BY <2>4, <2>9, <1>23, <1>30
<1>31. /\ TimersOK(v) /\ v.tick = w.tick /\ v.temp = w.temp
       /\ ToSet(v.list) = ToSet(w.list) \cup {t}
       /\ Ticks(v.timeout[t], v.tick) = w.init[t]
       /\ \A u \in ToSet(w.list) : Ticks(v.timeout[u], v.tick) = Ticks(w.timeout[u], w.tick)
       /\ LastOfItsTick(v, t)
  BY <1>22, <1>23, <1>24, <1>25, <1>26, <1>27, <1>28, <1>29, <1>30 DEF TimersOK, LastOfItsTick
<1> QED
  BY <1>c, <1>31

\* The timer t is linked and due init_tick ticks from now; no other timer moves.
Started(w, v, t) ==
    /\ TimersOK(v) /\ v.tick = w.tick /\ v.temp = w.temp \ {t}
    /\ ToSet(v.list) = ToSet(w.list) \cup {t}
    /\ Ticks(v.timeout[t], v.tick) = w.init[t]
    /\ \A u \in ToSet(w.list) \ {t} :
          Ticks(v.timeout[u], v.tick) = Ticks(w.timeout[u], w.tick)
    /\ NoOvertaking(w, v)

\* rt_timer_start
LEMMA TimerStartSound ==
    ASSUME NEW w, TimersOK(w), NEW t \in Timer, NEW v, v = rt_timer_start(w, t)
    PROVE  Started(w, v, t)
<1>1. PICK d : d = TimerRemove(w, t)
  OBVIOUS
<1>2. /\ TimersOK(d) /\ OnlyUnlinks(w, d)
      /\ ToSet(d.list) = ToSet(w.list) \ {t}
      /\ d.temp = w.temp \ {t} /\ d.init = w.init
      /\ \A u \in ToSet(d.list) : Ticks(d.timeout[u], d.tick) = Ticks(w.timeout[u], w.tick)
  BY <1>1, TimerRemoveSound
<1>3. d.tick = w.tick
  BY <1>2 DEF OnlyUnlinks
<1>5. v = Link(d, t)
  BY <1>1, <1>2, <1>3 DEF rt_timer_start, Link
<1>7. TimersOK(d) /\ t \notin ToSet(d.list) /\ t \notin d.temp
  BY <1>2
<1>8. /\ TimersOK(v) /\ v.tick = d.tick /\ v.temp = d.temp
      /\ ToSet(v.list) = ToSet(d.list) \cup {t}
      /\ Ticks(v.timeout[t], v.tick) = d.init[t]
      /\ \A u \in ToSet(d.list) : Ticks(v.timeout[u], v.tick) = Ticks(d.timeout[u], d.tick)
      /\ LastOfItsTick(v, t)
  BY <1>5, <1>7, TimerLinkSound
<1>9. ToSet(v.list) = ToSet(w.list) \cup {t}
  BY <1>2, <1>8
<1>10. \A i \in 1 .. Len(v.list) : v.list[i] \in ToSet(v.list)
  BY <1>8, StateFacts DEF ToSet, TimersOK
<1>11. NoOvertaking(w, v)
  BY <1>8, <1>9, <1>10 DEF NoOvertaking, LastOfItsTick
<1>12. \A u \in ToSet(w.list) \ {t} : Ticks(v.timeout[u], v.tick) = Ticks(w.timeout[u], w.tick)
  BY <1>2, <1>8
<1> QED
  BY <1>2, <1>3, <1>8, <1>9, <1>11, <1>12 DEF Started

\* rt_timer_detach and rt_timer_delete
LEMMA TimerDetachSound ==
    ASSUME NEW w, TimersOK(w), NEW t \in Timer
    PROVE  LET v == TimerDetach(w, t)
           IN /\ TimersOK(v) /\ OnlyUnlinks(w, v) /\ NoOvertaking(w, v)
              /\ ToSet(v.list) = ToSet(w.list) \ {t} /\ v.temp = w.temp \ {t}
              /\ \A u \in ToSet(v.list) :
                    Ticks(v.timeout[u], v.tick) = Ticks(w.timeout[u], w.tick)
<1>1. PICK d : d = TimerRemove(w, t)
  OBVIOUS
<1>2. /\ TimersOK(d) /\ OnlyUnlinks(w, d)
      /\ ToSet(d.list) = ToSet(w.list) \ {t} /\ d.temp = w.temp \ {t}
      /\ \A u \in ToSet(d.list) : Ticks(d.timeout[u], d.tick) = Ticks(w.timeout[u], w.tick)
  BY <1>1, TimerRemoveSound
<1>3. PICK v : v = [d EXCEPT !.active = @ \ {t}]
  OBVIOUS
<1>4. v = TimerDetach(w, t)
  BY <1>1, <1>3 DEF TimerDetach
<1>5. d \in TimerListState
  BY <1>2 DEF TimersOK
<1>6. /\ v \in TimerListState /\ v.tick = d.tick /\ v.list = d.list
      /\ v.timeout = d.timeout /\ v.temp = d.temp /\ v.active = d.active \ {t}
  BY <1>3, <1>5 DEF TimerListState
<1>7. LinkedOnce(v)
  BY <1>2, <1>6 DEF LinkedOnce, TimersOK
<1>8. /\ TimersOK(v)
      /\ \A u \in ToSet(v.list) : Ticks(v.timeout[u], v.tick) = Ticks(d.timeout[u], d.tick)
  BY <1>2, <1>6, <1>7, SameListSound
<1>9. OnlyUnlinks(w, v) /\ SortedBy(Key(w), v.list)
  <2>1. OnlyUnlinks(w, v)
    BY <1>2, <1>6 DEF OnlyUnlinks
  <2>2. w.list \in Seq(Timer) /\ SortedBy(Key(w), w.list)
    BY StateFacts DEF TimersOK
  <2>3. d.list = Without(w.list, t)
    BY <1>1 DEF TimerRemove, TimersOK, TimerListState
  <2> QED
    BY <2>1, <2>2, <2>3, <1>6, SortedWithout
<1>10. NoOvertaking(w, v)
  BY <1>6, <1>7, <1>9, OnlyUnlinksKeeps
<1>11. /\ TimersOK(v) /\ OnlyUnlinks(w, v) /\ NoOvertaking(w, v)
       /\ ToSet(v.list) = ToSet(w.list) \ {t} /\ v.temp = w.temp \ {t}
       /\ \A u \in ToSet(v.list) : Ticks(v.timeout[u], v.tick) = Ticks(w.timeout[u], w.tick)
  BY <1>2, <1>6, <1>8, <1>9, <1>10
<1> QED
  BY <1>4, <1>11

\* rt_timer_stop
LEMMA TimerStopSound ==
    ASSUME NEW w, TimersOK(w), NEW t \in Timer
    PROVE  LET v == rt_timer_stop(w, t)
           IN /\ TimersOK(v) /\ OnlyUnlinks(w, v) /\ NoOvertaking(w, v)
              /\ ToSet(v.list) = ToSet(w.list) \ {t} /\ v.temp \subseteq w.temp
              /\ \A u \in ToSet(v.list) :
                    Ticks(v.timeout[u], v.tick) = Ticks(w.timeout[u], w.tick)
<1>1. CASE t \in w.active
  BY <1>1, TimerDetachSound DEF rt_timer_stop, TimerDetach
<1>2. CASE t \notin w.active
  <2>1. w \in TimerListState /\ LinkedOnce(w) /\ t \notin ToSet(w.list)
    BY <1>2 DEF TimersOK, LinkedOnce
  <2>2. OnlyUnlinks(w, w) /\ NoOvertaking(w, w)
    BY <2>1, SameListSound
  <2>3. rt_timer_stop(w, t) = w
    BY <1>2 DEF rt_timer_stop
  <2> QED
    BY <2>1, <2>2, <2>3
<1> QED
  BY <1>1, <1>2

\* rt_timer_init, of a timer that is not linked
LEMMA TimerInitSound ==
    ASSUME NEW w, TimersOK(w), NEW t \in Timer, t \notin ToSet(w.list), t \notin w.temp,
           NEW time \in InitTick, NEW isPeriodic
    PROVE  LET v == TimerInit(w, t, time, isPeriodic)
           IN TimersOK(v) /\ OnlyUnlinks(w, v) /\ NoOvertaking(w, v)
              /\ v.list = w.list /\ v.temp = w.temp
              /\ \A u \in ToSet(v.list) :
                    Ticks(v.timeout[u], v.tick) = Ticks(w.timeout[u], w.tick)
<1>1. w \in TimerListState /\ LinkedOnce(w)
  BY DEF TimersOK
<1>2. PICK P : P = IF isPeriodic THEN w.periodic \cup {t} ELSE w.periodic \ {t}
  OBVIOUS
<1>3. P \subseteq Timer /\ w.active \ {t} \subseteq Timer
  BY <1>1, <1>2, StateFacts
<1>4. PICK v : v = TimerInit(w, t, time, isPeriodic)
  OBVIOUS
<1>5. v = [w EXCEPT !.init[t] = time, !.active = @ \ {t}, !.periodic = P]
  BY <1>1, <1>2, <1>4 DEF TimerInit, TimerListState
<1>6. [w.init EXCEPT ![t] = time] \in [Timer -> InitTick]
  BY <1>1 DEF TimerListState
<1>7. /\ v \in TimerListState /\ v.tick = w.tick /\ v.list = w.list
      /\ v.timeout = w.timeout /\ v.temp = w.temp /\ v.active = w.active \ {t}
  BY <1>1, <1>3, <1>5, <1>6 DEF TimerListState
<1>8. LinkedOnce(v)
  BY <1>1, <1>7 DEF LinkedOnce
<1>9. /\ TimersOK(v) /\ OnlyUnlinks(w, v) /\ NoOvertaking(w, v)
      /\ \A u \in ToSet(v.list) : Ticks(v.timeout[u], v.tick) = Ticks(w.timeout[u], w.tick)
  BY <1>7, <1>8, SameListSound
<1> QED
  BY <1>4, <1>7, <1>9

\* rt_timer_control
LEMMA TimerControlSound ==
    ASSUME NEW w, TimersOK(w), NEW t \in Timer, NEW time \in InitTick, NEW v,
           v \in {TimerSetTime(w, t, time), TimerSetOneshot(w, t), TimerSetPeriodic(w, t)}
    PROVE  /\ TimersOK(v) /\ OnlyUnlinks(w, v) /\ NoOvertaking(w, v)
           /\ v.list = w.list /\ v.temp = w.temp
           /\ \A u \in ToSet(v.list) : Ticks(v.timeout[u], v.tick) = Ticks(w.timeout[u], w.tick)
<1>1. w \in TimerListState /\ LinkedOnce(w)
  BY DEF TimersOK
<1>2. /\ [w.init EXCEPT ![t] = time] \in [Timer -> InitTick]
      /\ w.periodic \cup {t} \subseteq Timer /\ w.periodic \ {t} \subseteq Timer
  BY <1>1 DEF TimerListState
<1>3. /\ v \in TimerListState /\ v.tick = w.tick /\ v.list = w.list
      /\ v.timeout = w.timeout /\ v.temp = w.temp /\ v.active = w.active
  <2>1. CASE v = TimerSetTime(w, t, time)
    BY <2>1, <1>1, <1>2 DEF TimerListState, TimerSetTime
  <2>2. CASE v = TimerSetOneshot(w, t)
    BY <2>2, <1>1, <1>2 DEF TimerListState, TimerSetOneshot
  <2>3. CASE v = TimerSetPeriodic(w, t)
    BY <2>3, <1>1, <1>2 DEF TimerListState, TimerSetPeriodic
  <2> QED
    BY <2>1, <2>2, <2>3
<1>4. LinkedOnce(v)
  BY <1>1, <1>3 DEF LinkedOnce
<1> QED
  BY <1>3, <1>4, SameListSound

\* The loop of rt_timer_check takes the first timer off the list.
LEMMA TimerTakeSound ==
    ASSUME NEW w, TimersOK(w), w.list # <<>>
    PROVE  LET v == TakeExpired(w)
           IN /\ TimersOK(v) /\ OnlyUnlinks(w, v) /\ NoOvertaking(w, v)
              /\ Head(w.list) \in ToSet(w.list) /\ v.temp = {Head(w.list)}
              /\ \A u \in ToSet(v.list) :
                    Ticks(v.timeout[u], v.tick) = Ticks(w.timeout[u], w.tick)
<1>1. PICK t : t = Head(w.list)
  OBVIOUS
<1>2. w.list \in Seq(Timer)
  BY StateFacts DEF TimersOK
<1>3. t \in ToSet(w.list) /\ t \in Timer
  BY <1>1, <1>2, HeadInList
<1>4. PICK d : d = TimerRemove(w, t)
  OBVIOUS
<1>5. /\ TimersOK(d) /\ OnlyUnlinks(w, d)
      /\ ToSet(d.list) = ToSet(w.list) \ {t} /\ d.active = w.active
      /\ \A u \in ToSet(d.list) : Ticks(d.timeout[u], d.tick) = Ticks(w.timeout[u], w.tick)
  BY <1>3, <1>4, TimerRemoveSound
<1>6. PICK A : A = IF t \in w.periodic THEN d.active ELSE d.active \ {t}
  OBVIOUS
<1>7. PICK v : v = [d EXCEPT !.temp = {t}, !.active = A]
  OBVIOUS
<1>8. d \in TimerListState /\ LinkedOnce(d)
  BY <1>5 DEF TimersOK
<1>9. v = TakeExpired(w)
  BY <1>1, <1>4, <1>6, <1>7, <1>8 DEF TakeExpired, TimerListState
<1>10. A \subseteq Timer /\ {t} \subseteq Timer
  BY <1>3, <1>6, <1>8, StateFacts
<1>11. /\ v \in TimerListState /\ v.tick = d.tick /\ v.list = d.list
       /\ v.timeout = d.timeout /\ v.temp = {t} /\ v.active = A
  BY <1>7, <1>8, <1>10 DEF TimerListState
<1>12. LinkedOnce(v)
  BY <1>5, <1>6, <1>8, <1>11 DEF LinkedOnce
<1>13. /\ TimersOK(v)
       /\ \A u \in ToSet(v.list) : Ticks(v.timeout[u], v.tick) = Ticks(d.timeout[u], d.tick)
  BY <1>5, <1>11, <1>12, SameListSound
<1>14. OnlyUnlinks(w, v)
  BY <1>5, <1>11 DEF OnlyUnlinks
<1>15. SortedBy(Key(w), v.list)
  <2>1. d.list = Without(w.list, t)
    BY <1>4 DEF TimerRemove, TimersOK, TimerListState
  <2> QED
    BY <2>1, <1>2, <1>11, SortedWithout DEF TimersOK
<1>16. NoOvertaking(w, v)
  BY <1>11, <1>12, <1>14, <1>15, OnlyUnlinksKeeps
<1>17. /\ TimersOK(v) /\ OnlyUnlinks(w, v) /\ NoOvertaking(w, v)
       /\ t \in ToSet(w.list) /\ v.temp = {t}
       /\ \A u \in ToSet(v.list) : Ticks(v.timeout[u], v.tick) = Ticks(w.timeout[u], w.tick)
  BY <1>3, <1>5, <1>11, <1>13, <1>14, <1>16
<1> QED
  BY <1>1, <1>9, <1>17

\* After the timeout function the timer is restarted, or in no list.
LEMMA TimerAfterSound ==
    ASSUME NEW w, TimersOK(w)
    PROVE  LET v == AfterTimeout(w)
           IN /\ TimersOK(v) /\ NoOvertaking(w, v) /\ v.tick = w.tick
              /\ v.temp = {}
              /\ ToSet(v.list) \subseteq ToSet(w.list) \cup w.temp
              /\ \A u \in ToSet(v.list) :
                    \/ u \in ToSet(w.list)
                       /\ Ticks(v.timeout[u], v.tick) = Ticks(w.timeout[u], w.tick)
                    \/ Ticks(v.timeout[u], v.tick) = w.init[u]
<1>1. w \in TimerListState /\ LinkedOnce(w)
  BY DEF TimersOK
<1>2. CASE w.temp = {}
  <2>1. AfterTimeout(w) = w
    BY <1>2 DEF AfterTimeout
  <2>2. NoOvertaking(w, w)
    BY <1>1, SameListSound
  <2> QED
    BY <2>1, <2>2, <1>2
<1>3. CASE w.temp # {}
  <2>1. PICK t : t = CHOOSE u \in w.temp : TRUE
    OBVIOUS
  <2>2. t \in w.temp /\ w.temp = {t} /\ t \in Timer /\ t \notin ToSet(w.list)
    <3>1. t \in w.temp
      BY <2>1, <1>3
    <3> QED
      BY <3>1, <1>1, StateFacts DEF LinkedOnce
  <2>3. PICK d : d = TimerRemove(w, t)
    OBVIOUS
  <2>4. /\ TimersOK(d) /\ OnlyUnlinks(w, d) /\ NoOvertaking(w, d)
        /\ ToSet(d.list) = ToSet(w.list) \ {t} /\ d.temp = w.temp \ {t} /\ d.init = w.init
        /\ \A u \in ToSet(d.list) : Ticks(d.timeout[u], d.tick) = Ticks(w.timeout[u], w.tick)
    BY <2>2, <2>3, TimerRemoveSound
  <2>5. d.tick = w.tick /\ ToSet(d.list) = ToSet(w.list) /\ d.temp = {}
    BY <2>2, <2>4 DEF OnlyUnlinks
  <2>6. AfterTimeout(w) = IF t \in d.periodic /\ t \in d.active THEN rt_timer_start(d, t) ELSE d
    BY <2>1, <2>3, <1>3 DEF AfterTimeout
  <2>7. CASE t \in d.periodic /\ t \in d.active
    <3>1. PICK v : v = rt_timer_start(d, t)
      OBVIOUS
    <3>2. /\ TimersOK(v) /\ v.tick = d.tick /\ v.temp = d.temp \ {t}
          /\ ToSet(v.list) = ToSet(d.list) \cup {t}
          /\ Ticks(v.timeout[t], v.tick) = d.init[t]
          /\ \A u \in ToSet(d.list) \ {t} :
                Ticks(v.timeout[u], v.tick) = Ticks(d.timeout[u], d.tick)
          /\ NoOvertaking(d, v)
      <4>1. TimersOK(d) /\ t \in Timer
        BY <2>2, <2>4
      <4>2. Started(d, v, t)
        BY <4>1, <3>1, TimerStartSound
      <4> QED
        BY <4>2 DEF Started
    <3>3. NoOvertaking(w, v)
      BY <3>2, <2>5 DEF NoOvertaking
    <3>4. ASSUME NEW u \in ToSet(v.list)
          PROVE  \/ u \in ToSet(w.list)
                    /\ Ticks(v.timeout[u], v.tick) = Ticks(w.timeout[u], w.tick)
                 \/ Ticks(v.timeout[u], v.tick) = w.init[u]
      BY <3>2, <2>4, <2>5
    <3>5. /\ TimersOK(v) /\ NoOvertaking(w, v) /\ v.tick = w.tick /\ v.temp = {}
          /\ ToSet(v.list) \subseteq ToSet(w.list) \cup w.temp
      BY <3>2, <3>3, <2>2, <2>5
    <3>6. v = AfterTimeout(w)
      BY <3>1, <2>6, <2>7
    <3> QED
      BY <3>4, <3>5, <3>6
  <2>8. CASE ~ (t \in d.periodic /\ t \in d.active)
    <3>1. d = AfterTimeout(w)
      BY <2>6, <2>8
    <3> QED
      BY <3>1, <2>4, <2>5
  <2> QED
    BY <2>7, <2>8
<1> QED
  BY <1>2, <1>3

\* rt_tick_increase: every timer is due one tick earlier, if none gets too late.
LEMMA TimerTickSound ==
    ASSUME NEW w, TimersOK(w),
           \A t \in ToSet(w.list) :
                /\ Ticks(w.timeout[t], w.tick) > 1 - Half
                /\ \A i \in InitTick : i - Ticks(w.timeout[t], w.tick) <= Half
    PROVE  LET v == [w EXCEPT !.tick = (@ + 1) % TickSize]
           IN /\ TimersOK(v) /\ NoOvertaking(w, v)
              /\ v.list = w.list /\ v.temp = w.temp /\ v.timeout = w.timeout
              /\ \A u \in ToSet(v.list) :
                    Ticks(v.timeout[u], v.tick) = Ticks(w.timeout[u], w.tick) - 1
<1>1. w \in TimerListState /\ LinkedOnce(w) /\ InRange(w) /\ SortedBy(Key(w), w.list)
  BY DEF TimersOK
<1>2. PICK n : n = (w.tick + 1) % TickSize
  OBVIOUS
<1>3. n \in Tick
  <2>1. w.tick + 1 \in Int
    BY <1>1, StateFacts, HalfFacts
  <2> QED
    BY <2>1, <1>2, Reduced
<1>4. PICK v : v = [w EXCEPT !.tick = n]
  OBVIOUS
<1>5. v = [w EXCEPT !.tick = (@ + 1) % TickSize]
  BY <1>1, <1>2, <1>4 DEF TimerListState
<1>6. /\ v \in TimerListState /\ v.tick = n /\ v.list = w.list /\ v.temp = w.temp
      /\ v.timeout = w.timeout /\ v.active = w.active
  BY <1>1, <1>3, <1>4 DEF TimerListState
<1>7. w.list \in Seq(Timer) /\ \A u \in ToSet(w.list) : u \in Timer /\ Ticks(w.timeout[u], w.tick) \in Int
  BY <1>1, StateFacts
<1>8. ASSUME NEW u \in ToSet(w.list)
      PROVE  Ticks(w.timeout[u], n) = Ticks(w.timeout[u], w.tick) - 1
  <2>1. w.timeout[u] \in Tick /\ w.tick \in Tick
    BY <1>1, <1>7, StateFacts
  <2> QED
    BY <2>1, <1>2, TicksPass
<1>9. LinkedOnce(v)
  BY <1>1, <1>6 DEF LinkedOnce
<1>10. ASSUME NEW u \in ToSet(w.list)
       PROVE  /\ Ticks(w.timeout[u], n) < Half
              /\ \A i \in InitTick : i - Ticks(w.timeout[u], n) <= Half + 1
  <2>1. PICK a \in Int : a = Ticks(w.timeout[u], w.tick)
    BY <1>7
  <2>2. a < Half /\ (\A i \in InitTick : i - a <= Half) /\ Ticks(w.timeout[u], n) = a - 1
    BY <2>1, <1>1, <1>8 DEF InRange
  <2>3. a - 1 < Half
    BY <2>2, HalfFacts
  <2>4. ASSUME NEW i \in InitTick PROVE i - (a - 1) <= Half + 1
    <3>1. i \in Nat /\ i - a <= Half /\ Half \in Nat
      BY <2>2, HalfFacts
    <3> QED
      BY <3>1
  <2> QED
    BY <2>2, <2>3, <2>4
<1>11. InRange(v)
  BY <1>6, <1>10 DEF InRange
<1>12. SortedBy(Key(v), v.list)
  <2> SUFFICES ASSUME NEW i \in 1 .. Len(w.list), NEW j \in 1 .. Len(w.list), i < j
               PROVE  Key(v)[w.list[i]] <= Key(v)[w.list[j]]
    BY <1>6 DEF SortedBy
  <2>1. Key(w)[w.list[i]] <= Key(w)[w.list[j]]
    BY <1>1 DEF SortedBy
  <2>2. w.list[i] \in ToSet(w.list) /\ w.list[j] \in ToSet(w.list)
    BY <1>7 DEF ToSet
  <2>3. /\ Key(v)[w.list[i]] = Key(w)[w.list[i]] - 1
        /\ Key(v)[w.list[j]] = Key(w)[w.list[j]] - 1
        /\ Key(w)[w.list[i]] \in Int /\ Key(w)[w.list[j]] \in Int
    BY <2>2, <1>6, <1>7, <1>8 DEF Key
  <2> QED
    BY <2>1, <2>3
<1>13. NoOvertaking(w, v)
  <2>1. \A i \in 1 .. Len(w.list) : w.list[i] \in ToSet(w.list)
    BY <1>7 DEF ToSet
  <2> QED
    BY <2>1, <1>6 DEF NoOvertaking
<1>14. TimersOK(v)
  BY <1>6, <1>9, <1>11, <1>12 DEF TimersOK
<1>15. \A u \in ToSet(v.list) : Ticks(v.timeout[u], v.tick) = Ticks(w.timeout[u], w.tick) - 1
  BY <1>6, <1>8
<1> QED
  BY <1>5, <1>6, <1>13, <1>14, <1>15

\* rt_system_timer_init
LEMMA TimerStartupSound ==
    ASSUME NEW w, TimerListInit(w)
    PROVE  TimersOK(w) /\ w.list = <<>> /\ w.temp = {}
<1>1. /\ w.tick \in Tick /\ w.list = <<>> /\ w.temp = {} /\ w.active = {}
      /\ w.timeout = [t \in Timer |-> 0]
  BY DEF TimerListInit
<1>2. w \in TimerListState
  <2>1. [t \in Timer |-> 0] \in [Timer -> Tick]
    BY HalfFacts
  <2>2. <<>> \in Seq(Timer) /\ {} \in SUBSET Timer
    OBVIOUS
  <2> QED
    BY <2>1, <2>2 DEF TimerListInit, TimerListState
<1>3. ToSet(w.list) = {} /\ Len(w.list) = 0
  BY <1>1 DEF ToSet
<1>4. LinkedOnce(w)
  BY <1>1, <1>3 DEF LinkedOnce, NoRepeats
<1>5. InRange(w)
  BY <1>3 DEF InRange
<1>6. SortedBy(Key(w), w.list)
  BY <1>3 DEF SortedBy
<1> QED
  BY <1>1, <1>2, <1>4, <1>5, <1>6 DEF TimersOK

\* The test of the loop of rt_timer_check, while no timer is too late: when it
\* fails, no linked timer is due.
LEMMA HeadTest ==
    ASSUME NEW w, TimersOK(w), w.list # <<>>,
           - Half < Ticks(w.timeout[Head(w.list)], w.tick)
    PROVE  /\ HeadExpired(w) <=> Ticks(w.timeout[Head(w.list)], w.tick) <= 0
           /\ \A t \in ToSet(w.list) :
                Ticks(w.timeout[Head(w.list)], w.tick) <= Ticks(w.timeout[t], w.tick)
<1>1. PICK h : h = Head(w.list)
  OBVIOUS
<1>2. w \in TimerListState /\ InRange(w) /\ SortedBy(Key(w), w.list)
  BY DEF TimersOK
<1>3. w.list \in Seq(Timer) /\ h \in ToSet(w.list) /\ h \in Timer
  BY <1>1, <1>2, StateFacts, HeadInList
<1>4. w.timeout[h] \in Tick /\ w.tick \in Tick /\ Ticks(w.timeout[h], w.tick) \in Int
  BY <1>2, <1>3, StateFacts
<1>5. Ticks(w.timeout[h], w.tick) < Half
  BY <1>2, <1>3 DEF InRange
<1>6. Ahead(Minus(w.tick, w.timeout[h])) <=> Ticks(w.timeout[h], w.tick) <= 0
  BY <1>1, <1>4, <1>5, TicksDue
<1>7. ASSUME NEW t \in ToSet(w.list)
      PROVE  Ticks(w.timeout[h], w.tick) <= Ticks(w.timeout[t], w.tick)
  <2>1. PICK j \in 1 .. Len(w.list) : w.list[j] = t
    BY <1>3 DEF ToSet
  <2>2. h = w.list[1] /\ 1 \in 1 .. Len(w.list) /\ t \in Timer
    BY <2>1, <1>1, <1>3
  <2>3. CASE j = 1
    BY <2>1, <2>2, <2>3, <1>4
  <2>4. CASE j # 1
    <3>1. Key(w)[h] <= Key(w)[t]
      BY <2>1, <2>2, <2>4, <1>2 DEF SortedBy
    <3> QED
      BY <3>1, <2>2, <1>3 DEF Key
  <2> QED
    BY <2>3, <2>4
<1> QED
  BY <1>1, <1>6, <1>7 DEF HeadExpired
=============================================================================
