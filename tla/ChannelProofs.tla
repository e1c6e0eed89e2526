---------------------------- MODULE ChannelProofs ----------------------------
(***************************************************************************)
(* Proofs about module Channel: the kernel structures stay consistent, the *)
(* state of a channel tells who waits, requests and suspended senders      *)
(* match, a sender gets the reply to its own request, and no message of    *)
(* the pool is lost or freed twice.                                        *)
(***************************************************************************)
EXTENDS Channel, KernelProofs

-----------------------------------------------------------------------------
(* The inductive invariant *)

Sends == {"sending", "sent"}
Receives == {"receiving", "received"}

\* The wait of t has been ended by a reply or a message.
Delivered(t) ==
    \/ pc[t] = "replied"
    \/ pc[t] \in Sends \cup Receives /\ ~ Suspended(k, t) /\ k.err[t] = "EOK"

\* A thread waits where its call has put it, with the wake-up function of that
\* wait; it has a message exactly when its wait has been ended by one, and a
\* client has the reply to the request it has sent last.
ThreadInv(t) ==
    /\ Suspended(k, t) => pc[t] \in Sends \cup Receives /\ k.err[t] = "EOK"
    /\ wakeup[t] # "none" <=> Suspended(k, t)
    /\ wakeup[t] = "receiver" <=> Linked(k, receivers, t)
    /\ Linked(k, receivers, t) => pc[t] \in Receives
    /\ Linked(k, senders, t) => pc[t] \in Sends
    /\ pc[t] \in Sends \cup {"replied"} => t \in Clients
    /\ pc[t] \in Receives => t = Server
    /\ msg_ret[t] # NoMsg <=> Delivered(t)
    /\ Delivered(t) /\ t \in Clients => msg_ret[t] = <<t, serial[t]>>

\* Nobody locks the scheduler, the current thread is suspended only between
\* putting itself on a list and calling rt_schedule, and the last close is not
\* interrupted.
RunInv ==
    /\ k.lock = 0
    /\ Suspended(k, k.cur) => pc[k.cur] \in {"sending", "receiving"}
    /\ \A t \in Thread : pc[t] = "closing" => t = k.cur

\* a comes before b in the list s.
Before(s, a, b) == \E i, j \in 1 .. Len(s) : i < j /\ s[i] = a /\ s[j] = b

\* The requests among the messages M and the senders in the list L, but for the
\* one that waits for the reply, are the same, in the same order.
QueueOK(L, M, reply, number) ==
    /\ \A i \in 1 .. Len(M) : need_reply(M[i]) =>
            /\ Sender(M[i]) \in ToSet(L) /\ Sender(M[i]) # reply
            /\ M[i][2] = number[Sender(M[i])]
    /\ \A t \in ToSet(L) \ {reply} :
            \E i \in 1 .. Len(M) : need_reply(M[i]) /\ Sender(M[i]) = t
    /\ \A i, j \in 1 .. Len(M) : i < j /\ need_reply(M[i]) /\ need_reply(M[j]) =>
            Before(L, Sender(M[i]), Sender(M[j]))

\* The request that the server has, or will have when its call returns.
InHand == IF pc[Server] \in Receives THEN msg_ret[Server] ELSE serving

\* stat and reply tell who waits for what.
StateInv ==
    /\ ch.stat = "WAIT" <=> Linked(k, receivers, Server)
    /\ ch.stat = "WAIT" => ch.msgs = <<>>
    /\ ch.stat = "ACTIVE" <=> ch.reply # Idle
    /\ ch.reply # Idle => Suspended(k, ch.reply) /\ pc[ch.reply] \in Sends
    /\ \A t \in Thread : wakeup[t] = "sender_wait_reply" => ch.reply = t
    /\ \A t \in Thread : Suspended(k, t) =>
            Linked(k, receivers, t) \/ Linked(k, senders, t) \/ t = ch.reply

\* The reply will be for the request that the server has in hand.
HandInv == ch.reply # Idle => InHand = <<ch.reply, serial[ch.reply]>>

QueueInv == QueueOK(k.list[senders], ch.msgs, ch.reply, serial)

OpenInv == StateInv /\ HandInv /\ QueueInv

\* In the last close everybody who waits is on a list.
CloseInv ==
    \A t \in Thread : Suspended(k, t) => Linked(k, receivers, t) \/ Linked(k, senders, t)

ChannelInv ==
    /\ TypeOK /\ KernelOK(k)
    /\ \A t \in Thread : ThreadInv(t)
    /\ RunInv
    /\ Closing => CloseInv
    /\ ~ Closing => OpenInv
    /\ MessagesAccounted

-----------------------------------------------------------------------------
(* Lists of senders and lists of messages *)

\* What Append and Tail do to the messages.
LEMMA AppendFacts ==
    ASSUME NEW S, NEW s \in Seq(S), NEW e \in S
    PROVE  /\ Append(s, e) \in Seq(S) /\ Len(s) \in Nat
           /\ Len(Append(s, e)) = Len(s) + 1
           /\ \A i \in 1 .. Len(s) : Append(s, e)[i] = s[i]
           /\ Append(s, e)[Len(s) + 1] = e
  OBVIOUS

LEMMA TailFacts ==
    ASSUME NEW S, NEW s \in Seq(S), s # <<>>
    PROVE  /\ Tail(s) \in Seq(S) /\ Len(s) \in Nat \ {0} /\ Head(s) = s[1] /\ s[1] \in S
           /\ Len(Tail(s)) = Len(s) - 1
           /\ \A i \in 1 .. Len(s) - 1 : Tail(s)[i] = s[i + 1]
  OBVIOUS

\* An element that joins comes last.
LEMMA BeforeAppend ==
    ASSUME NEW S, NEW s \in Seq(S), NEW t \in S, NEW a
    PROVE  /\ \A b : Before(s, a, b) => Before(Append(s, t), a, b)
           /\ a \in ToSet(s) => Before(Append(s, t), a, t)
<1>1. /\ Len(s) \in Nat /\ Len(Append(s, t)) = Len(s) + 1
      /\ \A i \in 1 .. Len(s) : Append(s, t)[i] = s[i]
      /\ Append(s, t)[Len(s) + 1] = t
  BY AppendFacts
<1>2. \A i \in 1 .. Len(s) : i \in 1 .. Len(s) + 1 /\ i < Len(s) + 1
  BY <1>1
<1>3. Len(s) + 1 \in 1 .. Len(s) + 1
  BY <1>1
<1>4. ASSUME NEW b, Before(s, a, b) PROVE Before(Append(s, t), a, b)
  <2>1. PICK i \in 1 .. Len(s), j \in 1 .. Len(s) : i < j /\ s[i] = a /\ s[j] = b
    BY <1>4 DEF Before
  <2> QED
    BY <2>1, <1>1, <1>2 DEF Before
<1>5. ASSUME a \in ToSet(s) PROVE Before(Append(s, t), a, t)
  <2>1. PICK i \in 1 .. Len(s) : s[i] = a
    BY <1>5 DEF ToSet
  <2> QED
    BY <2>1, <1>1, <1>2, <1>3 DEF Before
<1> QED
  BY <1>4, <1>5

\* An element that leaves does not disturb the order of the others.
LEMMA BeforeWithout ==
    ASSUME NEW S, NEW s \in Seq(S), NEW t, NEW a, NEW b, a # t, b # t, Before(s, a, b)
    PROVE  Before(Without(s, t), a, b)
<1>1. CASE t \notin ToSet(s)
  BY <1>1 DEF Without
<1>2. CASE t \in ToSet(s)
  <2>1. PICK n : n = CHOOSE i \in DOMAIN s : s[i] = t
    OBVIOUS
  <2>2. n \in 1 .. Len(s) /\ s[n] = t
    BY <2>1, <1>2 DEF ToSet
  <2>3. PICK r : r = RemoveAt(s, n)
    OBVIOUS
  <2>4. /\ Len(r) = Len(s) - 1 /\ Len(s) \in Nat
        /\ \A j \in 1 .. Len(s) - 1 : r[j] = IF j < n THEN s[j] ELSE s[j + 1]
    <3>1. /\ Len(r) = Len(s) - 1
          /\ \A j \in 1 .. Len(s) - 1 : r[j] = IF j < n THEN s[j] ELSE s[j + 1]
      BY <2>2, <2>3, RemoveAtList
    <3> QED
      BY <3>1
  <2>5. r = Without(s, t)
    BY <2>1, <2>3, <1>2 DEF Without
  <2>6. PICK i \in 1 .. Len(s), j \in 1 .. Len(s) : i < j /\ s[i] = a /\ s[j] = b
    BY DEF Before
  <2>7. i # n /\ j # n
    BY <2>2, <2>6
  <2>8. PICK p : p = IF i < n THEN i ELSE i - 1
    OBVIOUS
  <2>9. PICK q : q = IF j < n THEN j ELSE j - 1
    OBVIOUS
  <2>10. p \in 1 .. Len(r) /\ q \in 1 .. Len(r) /\ p < q
    BY <2>2, <2>4, <2>6, <2>7, <2>8, <2>9
  <2>11. r[p] = a
    BY <2>2, <2>4, <2>6, <2>7, <2>8, <2>10
  <2>12. r[q] = b
    BY <2>2, <2>4, <2>6, <2>7, <2>9, <2>10
  <2> QED
    BY <2>5, <2>10, <2>11, <2>12 DEF Before
<1> QED
  BY <1>1, <1>2

\* Of two elements of a list, one comes first.
LEMMA BeforeIsStrict ==
    ASSUME NEW S, NEW s \in Seq(S), NoRepeats(s), NEW a, NEW b, Before(s, a, b)
    PROVE  a # b /\ ~ Before(s, b, a) /\ Head(s) # b
<1>1. PICK i \in 1 .. Len(s), j \in 1 .. Len(s) : i < j /\ s[i] = a /\ s[j] = b
  BY DEF Before
<1>2. a # b
  BY <1>1 DEF NoRepeats
<1>3. ASSUME Before(s, b, a) PROVE FALSE
  <2>1. PICK p \in 1 .. Len(s), q \in 1 .. Len(s) : p < q /\ s[p] = b /\ s[q] = a
    BY <1>3 DEF Before
  <2>2. p = j /\ q = i
    BY <2>1, <1>1 DEF NoRepeats
  <2> QED
    BY <2>1, <2>2, <1>1
<1>4. Head(s) # b
  <2>1. s # <<>> /\ 1 \in 1 .. Len(s) /\ Head(s) = s[1] /\ j # 1
    BY <1>1
  <2> QED
    BY <2>1, <1>1 DEF NoRepeats
<1> QED
  BY <1>2, <1>3, <1>4

\* A message without a reply joins.
LEMMA QueueAppendsPlain ==
    ASSUME NEW L, NEW M \in Seq(Message), NEW r, NEW f, QueueOK(L, M, r, f)
    PROVE  QueueOK(L, Append(M, Plain), r, f)
<1>1. PICK N : N = Append(M, Plain)
  OBVIOUS
<1>2. /\ Len(M) \in Nat /\ Len(N) = Len(M) + 1
      /\ \A i \in 1 .. Len(M) : N[i] = M[i]
      /\ N[Len(M) + 1] = Plain
  BY <1>1, AppendFacts DEF Message
<1>3. \A i \in 1 .. Len(N) : need_reply(N[i]) => i \in 1 .. Len(M) /\ N[i] = M[i]
  BY <1>2 DEF need_reply
<1>4. \A i \in 1 .. Len(M) : i \in 1 .. Len(N)
  BY <1>2
<1>5. QueueOK(L, N, r, f)
  BY <1>2, <1>3, <1>4 DEF QueueOK
<1> QED
  BY <1>1, <1>5

\* A request joins, and its sender joins the list.
LEMMA QueueAppendsRequest ==
    ASSUME NEW L \in Seq(Thread), NEW M \in Seq(Message), NEW r, NEW f, QueueOK(L, M, r, f),
           NEW t \in App, t \notin ToSet(L), t # r, NEW n \in {0, 1},
           NEW g, g[t] = n, \A u \in ToSet(L) : g[u] = f[u]
    PROVE  QueueOK(Append(L, t), Append(M, <<t, n>>), r, g)
<1>0. PICK m : m = <<t, n>>
  OBVIOUS
<1>1. PICK N : N = Append(M, m)
  OBVIOUS
<1>2. m \in Message /\ need_reply(m) /\ Sender(m) = t /\ m[2] = n
  BY <1>0, ChannelAssumption DEF Message, Request, need_reply, Sender
<1>3. /\ Len(M) \in Nat /\ Len(N) = Len(M) + 1
      /\ \A i \in 1 .. Len(M) : N[i] = M[i]
      /\ N[Len(M) + 1] = m
  BY <1>1, <1>2, AppendFacts
<1>4. \A i \in 1 .. Len(N) : (i \in 1 .. Len(M) /\ N[i] = M[i]) \/ (i = Len(M) + 1 /\ N[i] = m)
  BY <1>3
<1>5. \A i \in 1 .. Len(M) : i \in 1 .. Len(N)
  BY <1>3
<1>6. PICK K : K = Append(L, t)
  OBVIOUS
<1>7. ToSet(K) = ToSet(L) \cup {t}
  <2>1. t \in Thread
    BY DEF App
  <2>2. /\ Len(L) \in Nat /\ Len(K) = Len(L) + 1 /\ DOMAIN L = 1 .. Len(L)
        /\ DOMAIN K = 1 .. Len(L) + 1
        /\ \A i \in 1 .. Len(L) : K[i] = L[i]
        /\ K[Len(L) + 1] = t
    BY <2>1, <1>6, AppendFacts
  <2> QED
    BY <2>2 DEF ToSet
<1>8. \A a : /\ \A b : Before(L, a, b) => Before(K, a, b)
             /\ a \in ToSet(L) => Before(K, a, t)
  BY <1>6, BeforeAppend DEF App
<1>9. ASSUME NEW i \in 1 .. Len(N), need_reply(N[i])
      PROVE  /\ Sender(N[i]) \in ToSet(K) /\ Sender(N[i]) # r
             /\ N[i][2] = g[Sender(N[i])]
  <2>1. CASE i \in 1 .. Len(M) /\ N[i] = M[i]
    BY <2>1, <1>7, <1>9 DEF QueueOK
  <2>2. CASE N[i] = m
    BY <2>2, <1>2, <1>7
  <2> QED
    BY <2>1, <2>2, <1>4
<1>10. ASSUME NEW u \in ToSet(K) \ {r}
       PROVE  \E i \in 1 .. Len(N) : need_reply(N[i]) /\ Sender(N[i]) = u
  <2>1. CASE u \in ToSet(L)
    BY <2>1, <1>3, <1>5, <1>10 DEF QueueOK
  <2>2. CASE u = t
    BY <2>2, <1>2, <1>3
  <2> QED
    BY <2>1, <2>2, <1>7, <1>10
<1>11. ASSUME NEW i \in 1 .. Len(N), NEW j \in 1 .. Len(N), i < j,
              need_reply(N[i]), need_reply(N[j])
       PROVE  Before(K, Sender(N[i]), Sender(N[j]))
  <2>1. i \in 1 .. Len(M) /\ N[i] = M[i]
    BY <1>3, <1>11
  <2>2. CASE j \in 1 .. Len(M) /\ N[j] = M[j]
    BY <2>1, <2>2, <1>8, <1>11 DEF QueueOK
  <2>3. CASE N[j] = m
    BY <2>1, <2>3, <1>2, <1>8, <1>11 DEF QueueOK
  <2> QED
    BY <2>2, <2>3, <1>4
<1>12. QueueOK(K, N, r, g)
  BY <1>9, <1>10, <1>11 DEF QueueOK
<1> QED
  BY <1>0, <1>1, <1>6, <1>12

\* A sender leaves, and takes its request back.
LEMMA QueueRemoves ==
    ASSUME NEW L \in Seq(Thread), NoRepeats(L), NEW M \in Seq(Message), NEW r, NEW f,
           QueueOK(L, M, r, f), NEW t, NEW n \in 1 .. Len(M), need_reply(M[n]), Sender(M[n]) = t
    PROVE  QueueOK(Without(L, t), RemoveAt(M, n), r, f)
<1>1. PICK N : N = RemoveAt(M, n)
  OBVIOUS
<1>2. /\ Len(N) = Len(M) - 1
      /\ \A j \in 1 .. Len(M) - 1 : N[j] = IF j < n THEN M[j] ELSE M[j + 1]
  BY <1>1, RemoveAtList
<1>3. Len(M) \in Nat
  OBVIOUS
<1>4. PICK K : K = Without(L, t)
  OBVIOUS
<1>5. ToSet(K) = ToSet(L) \ {t}
  BY <1>4, WithoutList
<1>6. PICK o : o = [j \in 1 .. Len(N) |-> IF j < n THEN j ELSE j + 1]
  OBVIOUS
<1>7. ASSUME NEW j \in 1 .. Len(N)
      PROVE  o[j] \in 1 .. Len(M) /\ o[j] # n /\ N[j] = M[o[j]]
  BY <1>2, <1>3, <1>6
<1>8. ASSUME NEW i \in 1 .. Len(N), NEW j \in 1 .. Len(N), i < j
      PROVE  o[i] < o[j]
  BY <1>2, <1>3, <1>6, <1>8
<1>9. \A a, b : a # t /\ b # t /\ Before(L, a, b) => Before(K, a, b)
  BY <1>4, BeforeWithout
<1>10. ASSUME NEW i \in 1 .. Len(M), i # n, need_reply(M[i]) PROVE Sender(M[i]) # t
  <2>1. i < n \/ n < i
    BY <1>3, <1>10
  <2>2. Before(L, Sender(M[i]), t) \/ Before(L, t, Sender(M[i]))
    BY <2>1, <1>10 DEF QueueOK
  <2> QED
    BY <2>2, BeforeIsStrict
<1>11. ASSUME NEW i \in 1 .. Len(N), need_reply(N[i])
       PROVE  /\ Sender(N[i]) \in ToSet(K) /\ Sender(N[i]) # r
              /\ N[i][2] = f[Sender(N[i])]
  <2>1. PICK j \in 1 .. Len(M) : j # n /\ N[i] = M[j]
    BY <1>7
  <2>2. /\ Sender(M[j]) \in ToSet(L) /\ Sender(M[j]) # r /\ M[j][2] = f[Sender(M[j])]
    BY <2>1, <1>11 DEF QueueOK
  <2>3. Sender(M[j]) # t
    BY <2>1, <1>10, <1>11
  <2> QED
    BY <2>1, <2>2, <2>3, <1>5
<1>12. ASSUME NEW u \in ToSet(K) \ {r}
       PROVE  \E i \in 1 .. Len(N) : need_reply(N[i]) /\ Sender(N[i]) = u
  <2>1. PICK i \in 1 .. Len(M) : need_reply(M[i]) /\ Sender(M[i]) = u
    BY <1>5, <1>12 DEF QueueOK
  <2>2. i # n
    BY <2>1, <1>5, <1>12
  <2>3. PICK j : j = IF i < n THEN i ELSE i - 1
    OBVIOUS
  <2>4. j \in 1 .. Len(N) /\ N[j] = M[i]
    BY <2>2, <2>3, <1>2, <1>3
  <2> QED
    BY <2>1, <2>4
<1>13. ASSUME NEW i \in 1 .. Len(N), NEW j \in 1 .. Len(N), i < j,
              need_reply(N[i]), need_reply(N[j])
       PROVE  Before(K, Sender(N[i]), Sender(N[j]))
  <2>1. o[i] < o[j]
    BY <1>8, <1>13
  <2>2. Before(L, Sender(N[i]), Sender(N[j]))
    <3>1. PICK a \in 1 .. Len(M) : a = o[i] /\ N[i] = M[a]
      BY <1>7
    <3>2. PICK b \in 1 .. Len(M) : b = o[j] /\ N[j] = M[b]
      BY <1>7
    <3>3. a < b /\ need_reply(M[a]) /\ need_reply(M[b])
      BY <3>1, <3>2, <2>1, <1>13
    <3>4. Before(L, Sender(M[a]), Sender(M[b]))
      BY <3>3 DEF QueueOK
    <3> QED
      BY <3>1, <3>2, <3>4
  <2>3. Sender(N[i]) # t /\ Sender(N[j]) # t
    BY <1>7, <1>10, <1>13
  <2> QED
    BY <2>2, <2>3, <1>9
<1>14. QueueOK(K, N, r, f)
  BY <1>11, <1>12, <1>13 DEF QueueOK
<1> QED
  BY <1>1, <1>4, <1>14

\* The sender that waits for the reply leaves: its request is with the server.
LEMMA QueueLosesReply ==
    ASSUME NEW L \in Seq(Thread), NoRepeats(L), NEW M \in Seq(Message), NEW r, NEW f,
           QueueOK(L, M, r, f), NEW o, o \notin ToSet(L)
    PROVE  QueueOK(Without(L, r), M, o, f)
<1>1. PICK K : K = Without(L, r)
  OBVIOUS
<1>2. ToSet(K) = ToSet(L) \ {r}
  BY <1>1, WithoutList
<1>3. \A a, b : a # r /\ b # r /\ Before(L, a, b) => Before(K, a, b)
  BY <1>1, BeforeWithout
<1>4. QueueOK(K, M, o, f)
  BY <1>2, <1>3 DEF QueueOK
<1> QED
  BY <1>1, <1>4

\* A message without a reply is taken.
LEMMA QueueTakesPlain ==
    ASSUME NEW L, NEW M \in Seq(Message), NEW r, NEW f, QueueOK(L, M, r, f),
           M # <<>>, ~ need_reply(Head(M))
    PROVE  QueueOK(L, Tail(M), r, f)
<1>1. PICK N : N = Tail(M)
  OBVIOUS
<1>2. /\ Len(M) \in Nat \ {0} /\ Head(M) = M[1] /\ Len(N) = Len(M) - 1
      /\ \A i \in 1 .. Len(M) - 1 : N[i] = M[i + 1]
  BY <1>1, TailFacts
<1>3. \A i \in 1 .. Len(N) : i + 1 \in 1 .. Len(M) /\ N[i] = M[i + 1]
  BY <1>2
<1>4. ASSUME NEW i \in 1 .. Len(M), need_reply(M[i])
      PROVE  \E j \in 1 .. Len(N) : N[j] = M[i]
  <2>1. i # 1
    BY <1>2, <1>4
  <2>2. i - 1 \in 1 .. Len(N) /\ N[i - 1] = M[i]
    BY <2>1, <1>2
  <2> QED
    BY <2>2
<1>5. \A i, j \in 1 .. Len(N) : i < j => i + 1 < j + 1
  BY <1>2
<1>6. QueueOK(L, N, r, f)
  <2>1. \A i \in 1 .. Len(N) : need_reply(N[i]) =>
            /\ Sender(N[i]) \in ToSet(L) /\ Sender(N[i]) # r
            /\ N[i][2] = f[Sender(N[i])]
    BY <1>3 DEF QueueOK
  <2>2. \A t \in ToSet(L) \ {r} :
            \E i \in 1 .. Len(N) : need_reply(N[i]) /\ Sender(N[i]) = t
    BY <1>4 DEF QueueOK
  <2>3. \A i, j \in 1 .. Len(N) : i < j /\ need_reply(N[i]) /\ need_reply(N[j]) =>
            Before(L, Sender(N[i]), Sender(N[j]))
    BY <1>3, <1>5 DEF QueueOK
  <2> QED
    BY <2>1, <2>2, <2>3 DEF QueueOK
<1> QED
  BY <1>1, <1>6

\* A request is taken when nobody waits for a reply: its sender is the first of the
\* list.
LEMMA QueueTakesRequest ==
    ASSUME NEW L \in Seq(Thread), NoRepeats(L), NEW M \in Seq(Message), NEW r, NEW f,
           QueueOK(L, M, r, f), r \notin ToSet(L), M # <<>>, need_reply(Head(M))
    PROVE  LET u == Head(L)
           IN /\ L # <<>> /\ u = Sender(Head(M)) /\ Head(M)[2] = f[u]
              /\ QueueOK(Without(L, u), Tail(M), u, f)
<1>1. PICK N : N = Tail(M)
  OBVIOUS
<1>2. /\ Len(M) \in Nat \ {0} /\ Head(M) = M[1] /\ Len(N) = Len(M) - 1
      /\ \A i \in 1 .. Len(M) - 1 : N[i] = M[i + 1]
  BY <1>1, TailFacts
<1>3. \A i \in 1 .. Len(N) : i + 1 \in 1 .. Len(M) /\ N[i] = M[i + 1] /\ 1 < i + 1
  BY <1>2
<1>4. PICK u : u = Sender(M[1])
  OBVIOUS
<1>5. u \in ToSet(L) /\ M[1][2] = f[u] /\ 1 \in 1 .. Len(M)
  BY <1>2, <1>4 DEF QueueOK
<1>6. L # <<>> /\ Head(L) \in ToSet(L)
  BY <1>5, EmptyList, HeadInList
<1>7. Head(L) = u
  <2>1. SUFFICES ASSUME Head(L) # u PROVE FALSE
    OBVIOUS
  <2>2. PICK i \in 1 .. Len(M) : need_reply(M[i]) /\ Sender(M[i]) = Head(L)
    BY <1>6 DEF QueueOK
  <2>3. 1 < i
    BY <2>1, <2>2, <1>2, <1>4
  <2>4. Before(L, u, Head(L))
    BY <2>2, <2>3, <1>2, <1>4, <1>5 DEF QueueOK
  <2> QED
    BY <2>4, BeforeIsStrict
<1>8. PICK K : K = Without(L, u)
  OBVIOUS
<1>9. ToSet(K) = ToSet(L) \ {u}
  BY <1>8, WithoutList
<1>10. \A a, b : a # u /\ b # u /\ Before(L, a, b) => Before(K, a, b)
  BY <1>8, BeforeWithout
<1>11. ASSUME NEW i \in 1 .. Len(N), need_reply(N[i])
       PROVE  Sender(N[i]) # u
  <2>1. Before(L, u, Sender(N[i]))
    BY <1>2, <1>3, <1>4, <1>5, <1>11 DEF QueueOK
  <2> QED
    BY <2>1, BeforeIsStrict
<1>12. ASSUME NEW i \in 1 .. Len(N), need_reply(N[i])
       PROVE  /\ Sender(N[i]) \in ToSet(K) /\ Sender(N[i]) # u
              /\ N[i][2] = f[Sender(N[i])]
  <2>1. PICK j \in 1 .. Len(M) : N[i] = M[j]
    BY <1>3
  <2>2. /\ Sender(M[j]) \in ToSet(L) /\ M[j][2] = f[Sender(M[j])]
    BY <2>1, <1>12 DEF QueueOK
  <2> QED
    BY <2>1, <2>2, <1>9, <1>11, <1>12
<1>13. ASSUME NEW t \in ToSet(K) \ {u}
       PROVE  \E i \in 1 .. Len(N) : need_reply(N[i]) /\ Sender(N[i]) = t
  <2>1. t \in ToSet(L) \ {r}
    BY <1>9, <1>13
  <2>2. PICK i \in 1 .. Len(M) : need_reply(M[i]) /\ Sender(M[i]) = t
    BY <2>1 DEF QueueOK
  <2>3. i # 1
    BY <2>2, <1>4, <1>13
  <2>4. i - 1 \in 1 .. Len(N) /\ N[i - 1] = M[i]
    BY <2>3, <1>2
  <2> QED
    BY <2>2, <2>4
<1>14. ASSUME NEW i \in 1 .. Len(N), NEW j \in 1 .. Len(N), i < j,
              need_reply(N[i]), need_reply(N[j])
       PROVE  Before(K, Sender(N[i]), Sender(N[j]))
  <2>1. i + 1 < j + 1
    BY <1>2, <1>14
  <2>2. Before(L, Sender(N[i]), Sender(N[j]))
    BY <2>1, <1>3, <1>14 DEF QueueOK
  <2> QED
    BY <2>2, <1>10, <1>11, <1>14
<1>15. QueueOK(K, N, u, f)
  BY <1>12, <1>13, <1>14 DEF QueueOK
<1> QED
  BY <1>1, <1>2, <1>4, <1>5, <1>6, <1>7, <1>8, <1>15

-----------------------------------------------------------------------------
(* What the invariant says *)

LEMMA ChannelQueues ==
    /\ receivers \in Queue /\ senders \in Queue /\ receivers # senders
    /\ receivers \in Prio \cup Queue /\ senders \in Prio \cup Queue
    /\ Server \in Thread /\ Server # Idle /\ Idle \in Thread /\ Server \notin Clients
    /\ \A t \in Clients : t \in App /\ t \in Thread /\ t # Idle /\ t # Server
    /\ Plain \notin Request /\ NoMsg \notin Message
  BY ChannelAssumption, KernelAssumption DEF App, Clients, Request, Message

LEMMA InvFacts ==
    ASSUME ChannelInv
    PROVE  /\ TypeOK /\ Sound(k) /\ k \in KernelState /\ k.cur \in Thread /\ k.lock = 0
           /\ \A u \in Thread : ThreadInv(u)
           /\ RunInv /\ MessagesAccounted
           /\ Closing => CloseInv
           /\ ~ Closing => StateInv /\ HandInv /\ QueueInv
<1>1. k \in KernelState
  BY DEF ChannelInv, TypeOK
<1>2. k.cur \in Thread
  BY <1>1 DEF KernelState
<1> QED
  BY <1>1, <1>2 DEF ChannelInv, Sound, RunInv, OpenInv

\* The two lists.
LEMMA ListFacts ==
    ASSUME ChannelInv
    PROVE  /\ k.list[receivers] \in Seq(Thread) /\ NoRepeats(k.list[receivers])
           /\ k.list[senders] \in Seq(Thread) /\ NoRepeats(k.list[senders])
           /\ \A u : Linked(k, receivers, u) => u = Server /\ Suspended(k, u)
           /\ \A u : Linked(k, senders, u) => u \in Clients /\ Suspended(k, u)
           /\ k.list[receivers] = <<>> <=> ~ Linked(k, receivers, Server)
           /\ ~ Linked(k, senders, Idle)
<1>1. /\ k.list[receivers] \in Seq(Thread) /\ k.list[senders] \in Seq(Thread)
      /\ \A u : Linked(k, receivers, u) => u \in Thread
      /\ \A u : Linked(k, senders, u) => u \in Thread
      /\ k.list[receivers] = <<>> <=> \A u \in Thread : ~ Linked(k, receivers, u)
  BY InvFacts, ChannelQueues, ListTypes
<1>2. NoRepeats(k.list[receivers]) /\ NoRepeats(k.list[senders])
  BY InvFacts, ChannelQueues DEF Sound, KernelOK, NodesLinkedOnce
<1>3. \A u \in Thread : /\ Linked(k, receivers, u) => u = Server /\ Suspended(k, u)
                        /\ Linked(k, senders, u) => u \in Clients /\ Suspended(k, u)
  <2>1. SUFFICES ASSUME NEW u \in Thread
                 PROVE  /\ Linked(k, receivers, u) => u = Server /\ Suspended(k, u)
                        /\ Linked(k, senders, u) => u \in Clients /\ Suspended(k, u)
    OBVIOUS
  <2>2. /\ Linked(k, receivers, u) => Suspended(k, u)
        /\ Linked(k, senders, u) => Suspended(k, u)
    BY InvFacts, ChannelQueues, SoundFacts DEF ThreadOK
  <2>3. ThreadInv(u)
    BY InvFacts
  <2> QED
    BY <2>2, <2>3 DEF ThreadInv
<1> QED
  BY <1>1, <1>2, <1>3, ChannelQueues

\* The thread that runs is in the last close if anybody is.
LEMMA NotClosing ==
    ASSUME ChannelInv, pc[k.cur] # "closing"
    PROVE  ~ Closing
  BY InvFacts DEF Closing, RunInv

\* A thread in application code does not wait.
LEMMA RunningFacts ==
    ASSUME ChannelInv, NEW t \in Thread, pc[t] \notin Sends \cup Receives
    PROVE  /\ ~ Suspended(k, t) /\ wakeup[t] = "none"
           /\ ~ Linked(k, receivers, t) /\ ~ Linked(k, senders, t)
           /\ pc[t] # "replied" => msg_ret[t] = NoMsg
<1>1. ThreadInv(t)
  BY InvFacts
<1> QED
  BY <1>1 DEF ThreadInv, Delivered

\* A thread that waits has no message, and its wait has not been ended.
LEMMA WaitingFacts ==
    ASSUME ChannelInv, NEW t \in Thread, Suspended(k, t)
    PROVE  /\ pc[t] \in Sends \cup Receives /\ k.err[t] = "EOK" /\ wakeup[t] # "none"
           /\ msg_ret[t] = NoMsg /\ t # Idle /\ t \in App
           /\ pc[t] \in Sends => t \in Clients
           /\ pc[t] \in Receives => t = Server
           /\ wakeup[t] = "receiver" <=> Linked(k, receivers, t)
<1>1. ThreadInv(t)
  BY InvFacts
<1>2. pc[t] \in Sends \cup Receives /\ pc[t] # "replied"
  BY <1>1 DEF ThreadInv, Sends, Receives
<1>3. t \in Clients \/ t = Server
  BY <1>1, <1>2 DEF ThreadInv
<1> QED
  BY <1>1, <1>2, <1>3, ChannelQueues DEF ThreadInv, Delivered, App

-----------------------------------------------------------------------------
(* How to show the invariant of the next state *)

LEMMA InvNext ==
    ASSUME TypeOK', Sound(k'), \A u \in Thread : ThreadInv(u)', RunInv',
           Closing' => CloseInv', ~ Closing' => StateInv' /\ HandInv' /\ QueueInv',
           MessagesAccounted'
    PROVE  ChannelInv'
  BY DEF ChannelInv, Sound, OpenInv

ChannelType == [stat : {"IDLE", "WAIT", "ACTIVE"}, reply : Thread, msgs : Seq(Message)]
PoolType == [free : 0 .. PoolSize, lost : 0 .. PoolSize]
WakeupType == {"none", "sender_wait_recv", "sender_wait_reply", "receiver"}

\* The type of the next state, from the types of what the step writes.
LEMMA TypesNext ==
    ASSUME TypeOK, Sound(k'), ch' \in ChannelType, pool' \in PoolType, open' \subseteq Holder,
           pc' = pc \/ \E t \in Thread, l \in Location : pc' = [pc EXCEPT ![t] = l],
           msg_ret' = msg_ret \/ \E t \in Thread, m \in Message \cup {NoMsg} :
                                    msg_ret' = [msg_ret EXCEPT ![t] = m],
           wakeup' \in [Thread -> WakeupType], serial' \in [App -> {0, 1}],
           serving' \in Message
    PROVE  TypeOK'
<1>1. pc' \in [Thread -> Location]
  BY DEF TypeOK
<1>2. msg_ret' \in [Thread -> Message \cup {NoMsg}]
  BY DEF TypeOK
<1> QED
  BY <1>1, <1>2 DEF TypeOK, Sound, ChannelType, PoolType, WakeupType

\* The types of the variables.
LEMMA Types ==
    ASSUME ChannelInv
    PROVE  /\ ch \in ChannelType /\ pool \in PoolType /\ open \subseteq Holder
           /\ wakeup \in [Thread -> WakeupType] /\ serial \in [App -> {0, 1}]
           /\ serving \in Message /\ pc \in [Thread -> Location]
           /\ msg_ret \in [Thread -> Message \cup {NoMsg}]
           /\ ch.msgs \in Seq(Message) /\ ch.reply \in Thread
  BY DEF ChannelInv, TypeOK, ChannelType, PoolType, WakeupType

\* u goes on with the same wait, or with none.
SameWait(u) ==
    /\ Suspended(k', u) <=> Suspended(k, u)
    /\ Linked(k', receivers, u) <=> Linked(k, receivers, u)
    /\ Linked(k', senders, u) <=> Linked(k, senders, u)

SamePlace(u) ==
    /\ pc'[u] \in Sends <=> pc[u] \in Sends
    /\ pc'[u] \in Receives <=> pc[u] \in Receives
    /\ pc'[u] = "replied" <=> pc[u] = "replied"

\* A thread to which nothing happens.
LEMMA ThreadSame ==
    ASSUME NEW u \in Thread, ThreadInv(u), SameWait(u), SamePlace(u),
           pc[u] \in Sends \cup Receives => k'.err[u] = k.err[u],
           msg_ret'[u] = msg_ret[u], wakeup'[u] = wakeup[u],
           u \in Clients => serial'[u] = serial[u]
    PROVE  ThreadInv(u)'
<1>1. Delivered(u)' <=> Delivered(u)
  BY DEF SameWait, SamePlace, Delivered, ThreadInv
<1>2. ThreadInv(u)' <=>
      /\ Suspended(k', u) => pc'[u] \in Sends \cup Receives /\ k'.err[u] = "EOK"
      /\ wakeup'[u] # "none" <=> Suspended(k', u)
      /\ wakeup'[u] = "receiver" <=> Linked(k', receivers, u)
      /\ Linked(k', receivers, u) => pc'[u] \in Receives
      /\ Linked(k', senders, u) => pc'[u] \in Sends
      /\ pc'[u] \in Sends \cup {"replied"} => u \in Clients
      /\ pc'[u] \in Receives => u = Server
      /\ msg_ret'[u] # NoMsg <=> Delivered(u)'
      /\ Delivered(u)' /\ u \in Clients => msg_ret'[u] = <<u, serial'[u]>>
  BY DEF ThreadInv
<1> QED
  BY <1>1, <1>2 DEF ThreadInv, SameWait, SamePlace

-----------------------------------------------------------------------------
(* The pool *)

\* The threads that have a message.
Held == {t \in Thread : msg_ret[t] # NoMsg}

LEMMA HeldFacts ==
    /\ IsFiniteSet(Held) /\ Cardinality(Held) \in Nat
    /\ IsFiniteSet(Held') /\ Cardinality(Held') \in Nat
<1>1. IsFiniteSet(Thread) /\ Held \subseteq Thread /\ Held' \subseteq Thread
  BY KernelAssumption DEF Held
<1>2. IsFiniteSet(Held) /\ IsFiniteSet(Held')
  BY <1>1, FS_Subset
<1> QED
  BY <1>2, FS_CardinalityType

\* The numbers the pool deals with.
LEMMA PoolFacts ==
    ASSUME ChannelInv
    PROVE  /\ pool.free \in Nat /\ pool.lost \in Nat /\ Len(ch.msgs) \in Nat
           /\ Cardinality(Held) \in Nat /\ PoolSize \in Nat
           /\ pool.free + pool.lost + Len(ch.msgs) + Cardinality(Held) = PoolSize
<1>1. pool.free \in 0 .. PoolSize /\ pool.lost \in 0 .. PoolSize /\ ch.msgs \in Seq(Message)
  BY Types DEF PoolType
<1>2. pool.free + pool.lost + Len(ch.msgs) + Cardinality(Held) = PoolSize
  BY InvFacts DEF MessagesAccounted, Held
<1>3. PoolSize \in Nat
  BY ChannelAssumption
<1> QED
  BY <1>1, <1>2, <1>3, HeldFacts

\* How to show that the messages are accounted for.
LEMMA AccountedNext ==
    ASSUME pool'.free + pool'.lost + Len(ch'.msgs) + Cardinality(Held') = PoolSize
    PROVE  MessagesAccounted'
  BY DEF MessagesAccounted, Held

\* Messages move between the pool, the channel and the threads.
LEMMA AccountedMoves ==
    ASSUME ChannelInv, NEW f \in Int, NEW m \in Int, NEW h \in Int, f + m + h = 0,
           pool'.free = pool.free + f, pool'.lost = pool.lost,
           Len(ch'.msgs) = Len(ch.msgs) + m, Cardinality(Held') = Cardinality(Held) + h
    PROVE  MessagesAccounted'
<1>1. PICK a \in Int : a = pool.free
  BY PoolFacts
<1>2. PICK b \in Int : b = pool.lost
  BY PoolFacts
<1>3. PICK c \in Int : c = Len(ch.msgs)
  BY PoolFacts
<1>4. PICK d \in Int : d = Cardinality(Held)
  BY PoolFacts
<1>5. a + b + c + d = PoolSize
  BY <1>1, <1>2, <1>3, <1>4, PoolFacts
<1>6. (a + f) + b + (c + m) + (d + h) = a + b + c + d
  OBVIOUS
<1>7. pool'.free + pool'.lost + Len(ch'.msgs) + Cardinality(Held') = PoolSize
  BY <1>1, <1>2, <1>3, <1>4, <1>5, <1>6
<1> QED
  BY <1>7, AccountedNext

\* A thread gets a message.
LEMMA HeldAdds ==
    ASSUME ChannelInv, NEW t \in Thread, msg_ret[t] = NoMsg, NEW m \in Message,
           msg_ret' = [msg_ret EXCEPT ![t] = m]
    PROVE  Cardinality(Held') = Cardinality(Held) + 1
<1>1. m # NoMsg
  BY ChannelQueues
<1>2. msg_ret'[t] = m /\ \A u \in Thread \ {t} : msg_ret'[u] = msg_ret[u]
  BY Types
<1>3. Held' = Held \cup {t} /\ t \notin Held
  BY <1>1, <1>2 DEF Held
<1> QED
  BY <1>3, HeldFacts, FS_AddElement

\* A thread frees its message.
LEMMA HeldDrops ==
    ASSUME ChannelInv, NEW t \in Thread, msg_ret[t] # NoMsg,
           msg_ret' = [msg_ret EXCEPT ![t] = NoMsg]
    PROVE  Cardinality(Held') = Cardinality(Held) + (-1) /\ Cardinality(Held) > 0
<1>1. msg_ret'[t] = NoMsg /\ \A u \in Thread \ {t} : msg_ret'[u] = msg_ret[u]
  BY Types
<1>2. Held' = Held \ {t} /\ t \in Held
  BY <1>1 DEF Held
<1>3. Cardinality(Held') = Cardinality(Held) - 1
  BY <1>2, HeldFacts, FS_RemoveElement
<1> QED
  BY <1>3, HeldFacts

\* Nothing changes hands.
LEMMA HeldSame ==
    ASSUME msg_ret' = msg_ret
    PROVE  Cardinality(Held') = Cardinality(Held)
<1>1. Held' = Held
  BY DEF Held
<1> QED
  BY <1>1

\* _ipc_msg_alloc
LEMMA AllocFacts ==
    ASSUME ChannelInv, MayAlloc, pool' = Alloc
    PROVE  pool' \in PoolType /\ pool'.free = pool.free - 1 /\ pool'.lost = pool.lost
<1>1. pool \in PoolType /\ pool.free \in 0 .. PoolSize /\ pool.lost \in 0 .. PoolSize
  BY Types DEF PoolType
<1>2. pool.free > 0 /\ PoolSize \in Nat
  BY ChannelAssumption DEF MayAlloc
<1>3. pool.free - 1 \in 0 .. PoolSize
  BY <1>1, <1>2
<1> QED
  BY <1>1, <1>3 DEF Alloc, PoolType

\* _ipc_msg_free of a message that is somewhere.
LEMMA FreeFacts ==
    ASSUME ChannelInv, pool' = Free, Len(ch.msgs) + Cardinality(Held) > 0
    PROVE  pool' \in PoolType /\ pool'.free = pool.free + 1 /\ pool'.lost = pool.lost
<1>1. pool \in PoolType /\ pool.free \in 0 .. PoolSize /\ pool.lost \in 0 .. PoolSize
  BY Types DEF PoolType
<1>2. pool.free + 1 \in 0 .. PoolSize
  BY PoolFacts
<1> QED
  BY <1>1, <1>2 DEF Free, PoolType

-----------------------------------------------------------------------------
(* Steps after which the same threads wait *)

\* The processor stays where it is or goes to a thread that can run.
CurrentStays == \/ k'.cur = k.cur /\ pc'[k.cur] = pc[k.cur]
                \/ k'.stat[k'.cur] = "RUNNING"
                \/ k'.cur = k.cur /\ ~ Suspended(k, k.cur)

\* No new wait of the thread that runs: the current thread can still run.
LEMMA RunNext ==
    ASSUME ChannelInv, ~ Closing', k'.lock = 0, CurrentStays,
           \A u \in Thread : Suspended(k', u) => Suspended(k, u)
    PROVE  RunInv'
<1>1. Suspended(k', k'.cur) => pc'[k'.cur] \in {"sending", "receiving"}
  BY InvFacts DEF CurrentStays, RunInv, Suspended, SuspendFlag
<1>2. \A t \in Thread : pc'[t] # "closing"
  BY DEF Closing
<1> QED
  BY <1>1, <1>2 DEF RunInv

\* Nobody starts or stops waiting.
SameWaits ==
    /\ k'.list[receivers] = k.list[receivers] /\ k'.list[senders] = k.list[senders]
    /\ \A u \in Thread : Suspended(k', u) <=> Suspended(k, u)
    /\ k'.lock = 0

LEMMA CalmWaits ==
    ASSUME ChannelInv, Calm(k, k')
    PROVE  SameWaits
<1>1. \A u \in Thread : Suspended(k', u) <=> Suspended(k, u)
  BY CalmLinks
<1> QED
  BY <1>1, InvFacts, ChannelQueues DEF SameWaits, Calm

LEMMA WaitsSame ==
    ASSUME SameWaits
    PROVE  \A u \in Thread : SameWait(u)
  BY DEF SameWaits, SameWait, Linked

\* A step of the processor that leaves the channel and its messages alone.
LEMMA QuietStep ==
    ASSUME ChannelInv, ~ Closing, Sound(k'), SameWaits, CurrentStays, open' \subseteq Holder,
           pc' = pc \/ \E t \in Thread, l \in Location : pc' = [pc EXCEPT ![t] = l],
           \A u \in Thread : SamePlace(u) /\ pc'[u] # "closing",
           \A u \in Thread : pc[u] \in Sends \cup Receives => k'.err[u] = k.err[u],
           UNCHANGED <<ch, pool, msg_ret, wakeup, serial, serving>>
    PROVE  ChannelInv'
<1>0. /\ ch' = ch /\ pool' = pool /\ msg_ret' = msg_ret /\ wakeup' = wakeup
      /\ serial' = serial /\ serving' = serving
  OBVIOUS
<1>1. TypeOK'
  BY <1>0, InvFacts, Types, TypesNext
<1>2. ~ Closing'
  BY DEF Closing
<1>3. ASSUME NEW u \in Thread PROVE ThreadInv(u)'
  BY <1>0, InvFacts, WaitsSame, ThreadSame
<1>4. RunInv'
  BY <1>2, RunNext DEF SameWaits
<1>5. MessagesAccounted'
  BY <1>0, HeldSame, PoolFacts, AccountedNext
<1>6. StateInv /\ HandInv /\ QueueInv
  BY InvFacts
<1>7. \A u \in Thread : SameWait(u)
  BY WaitsSame
<1>8. StateInv'
  <2>1. ch.reply \in Thread /\ Server \in Thread
    BY Types, ChannelQueues
  <2> QED
    BY <2>1, <1>0, <1>6, <1>7 DEF StateInv, SameWait, SamePlace
<1>9. HandInv'
  <2>1. InHand' = InHand
    BY <1>0, ChannelQueues DEF InHand, SamePlace
  <2> QED
    BY <2>1, <1>0, <1>6 DEF HandInv
<1>10. QueueInv'
  BY <1>0, <1>6 DEF QueueInv, SameWaits
<1> QED
  BY <1>1, <1>2, <1>3, <1>4, <1>5, <1>8, <1>9, <1>10, InvNext

\* t goes on to l, which is as far in its call as it has been.
LEMMA GoesOn ==
    ASSUME ChannelInv, ~ Closing, NEW t \in Thread, NEW l, Goto(t, l),
           l # "closing" /\ l # "replied" /\ pc[t] # "replied",
           l \in Sends <=> pc[t] \in Sends, l \in Receives <=> pc[t] \in Receives
    PROVE  \A u \in Thread : SamePlace(u) /\ pc'[u] # "closing"
<1>1. pc'[t] = l /\ \A u \in Thread \ {t} : pc'[u] = pc[u]
  BY Types DEF Goto
<1>2. \A u \in Thread : pc[u] # "closing"
  BY DEF Closing
<1> QED
  BY <1>1, <1>2 DEF SamePlace

LEMMA StaysPut ==
    ASSUME ~ Closing, pc' = pc
    PROVE  \A u \in Thread : SamePlace(u) /\ pc'[u] # "closing"
  BY DEF SamePlace, Closing

\* Every location, told apart.
LEMMA Places ==
    /\ \A l \in {"run", "replied", "closing", "resched"} :
            l \in Location /\ l \notin Sends /\ l \notin Receives
    /\ "sending" \in Sends /\ "sent" \in Sends /\ "receiving" \in Receives
    /\ "received" \in Receives
    /\ \A l \in Sends \cup Receives :
            l \in Location /\ l \notin {"run", "replied", "closing", "resched"}
    /\ \A l \in Sends : l \notin Receives
  BY DEF Location, Sends, Receives

\* rt_schedule as the last thing in a call or in a wait.
LEMMA SchedulesStep ==
    ASSUME ChannelInv, NEW t \in Thread, k' = rt_schedule(k), open' = open,
           UNCHANGED <<ch, pool, msg_ret, wakeup, serial, serving>>,
           NEW l, Goto(t, l), \/ At(t, "sending") /\ l = "sent"
                              \/ At(t, "receiving") /\ l = "received"
                              \/ At(t, "resched") /\ l = "run"
    PROVE  ChannelInv'
<1>1. Sound(k) /\ k.lock = 0
  BY InvFacts
<1>2. Sound(k') /\ Calm(k, k') /\ k'.err = k.err /\ k'.stat[k'.cur] = "RUNNING"
  BY <1>1, ScheduleSound, ScheduleFrame, ScheduleRuns
<1>3. /\ k.cur = t /\ pc[t] # "closing" /\ l \in Location
      /\ l # "closing" /\ l # "replied" /\ pc[t] # "replied"
      /\ l \in Sends <=> pc[t] \in Sends
      /\ l \in Receives <=> pc[t] \in Receives
  BY Places DEF At
<1>4. ~ Closing
  BY <1>3, NotClosing
<1>5. \A u \in Thread : SamePlace(u) /\ pc'[u] # "closing"
  BY <1>3, <1>4, GoesOn
<1>6. SameWaits /\ CurrentStays /\ open' \subseteq Holder
  BY <1>2, CalmWaits, Types DEF CurrentStays
<1> QED
  BY <1>2, <1>3, <1>4, <1>5, <1>6, QuietStep DEF Goto

\* A call that a pending signal keeps from suspending.
LEMMA InterruptedStep ==
    ASSUME ChannelInv, NEW t \in Clients, NEW time, RequestInterrupted(t, time)
    PROVE  ChannelInv'
<1>1. /\ t \in Thread /\ k.cur = t /\ pc[t] = "run" /\ k' = SetError(k, t, "EOK") /\ pc' = pc
      /\ open' = open /\ UNCHANGED <<ch, pool, msg_ret, wakeup, serial, serving>>
  BY ChannelQueues DEF RequestInterrupted, Calls, At
<1>2. ~ Closing /\ Sound(k) /\ k.lock = 0
  BY <1>1, NotClosing, InvFacts
<1>3. "EOK" \in Error
  BY DEF Error
<1>4. /\ Sound(k') /\ k'.list = k.list /\ k'.stat = k.stat /\ k'.cur = k.cur /\ k'.lock = k.lock
      /\ \A u \in Thread \ {t} : k'.err[u] = k.err[u]
  BY <1>1, <1>2, <1>3, SetErrorFrame DEF SetError
<1>5. SameWaits /\ CurrentStays /\ open' \subseteq Holder
  BY <1>1, <1>2, <1>4, Types DEF SameWaits, CurrentStays, Suspended
<1>6. \A u \in Thread : pc[u] \in Sends \cup Receives => k'.err[u] = k.err[u]
  BY <1>1, <1>4, Places
<1> QED
  BY <1>1, <1>2, <1>4, <1>5, <1>6, StaysPut, QuietStep

\* rt_thread_startup of another thread.
LEMMA StartupStep ==
    ASSUME ChannelInv, NEW t \in App, NEW u \in App, Startup(t, u)
    PROVE  ChannelInv'
<1>1. /\ t \in Thread /\ u \in Thread /\ k.cur = t /\ pc[t] = "run" /\ k.stat[u] = "INIT"
      /\ k' = rt_thread_startup(k, u) /\ Goto(t, "resched") /\ open' = open
      /\ UNCHANGED <<ch, pool, msg_ret, wakeup, serial, serving>>
  BY DEF Startup, At, App
<1>2. ~ Closing /\ Sound(k) /\ k.lock = 0
  BY <1>1, NotClosing, InvFacts
<1>3. Sound(k') /\ Wakes(k, k', u) /\ k'.err = k.err /\ k'.cur = k.cur
  BY <1>1, <1>2, StartupFrame, StartupSound
<1>4. ~ Suspended(k, u)
  BY <1>1 DEF Suspended, SuspendFlag
<1>5. \A q \in Queue : k'.list[q] = k.list[q]
  BY <1>1, <1>2, <1>3, <1>4, NotWaiting DEF Wakes
<1>6. \A v \in Thread : Suspended(k', v) <=> Suspended(k, v)
  BY <1>1, <1>2, <1>3, <1>4, WakesLinks
<1>7. SameWaits
  BY <1>2, <1>3, <1>5, <1>6, ChannelQueues DEF SameWaits, Wakes
<1>8. CurrentStays /\ open' \subseteq Holder
  <2>1. ~ Suspended(k, k.cur)
    BY <1>1, RunningFacts, Places
  <2> QED
    BY <2>1, <1>1, <1>3, Types DEF CurrentStays
<1>9. /\ "resched" \in Location /\ \A v \in Thread : SamePlace(v) /\ pc'[v] # "closing"
  BY <1>1, <1>2, GoesOn, Places
<1> QED
  BY <1>1, <1>2, <1>3, <1>7, <1>8, <1>9, QuietStep DEF Goto

\* A signal is delivered.
LEMMA DeliverStep ==
    ASSUME ChannelInv, NEW t \in App, Deliver(t)
    PROVE  ChannelInv'
<1>1. PICK s \in k.sig[t] : k' = [k EXCEPT !.sig[t] = @ \ {s}]
  BY DEF Deliver
<1>2. /\ t \in Thread /\ k.cur = t /\ pc[t] = "run" /\ pc' = pc /\ open' = open
      /\ UNCHANGED <<ch, pool, msg_ret, wakeup, serial, serving>>
  BY DEF Deliver, At, App
<1>3. ~ Closing /\ Sound(k) /\ k \in KernelState /\ k.lock = 0
  BY <1>2, NotClosing, InvFacts
<1>4. /\ k'.list = k.list /\ k'.stat = k.stat /\ k'.cur = k.cur /\ k'.prio = k.prio
      /\ k'.err = k.err /\ k'.lock = k.lock /\ k'.group = k.group /\ k'.timer = k.timer
      /\ k' \in KernelState
  BY <1>1, <1>2, <1>3 DEF KernelState
<1>5. Sound(k')
  BY <1>3, <1>4, MiscSound
<1>6. SameWaits /\ CurrentStays /\ open' \subseteq Holder
  BY <1>2, <1>3, <1>4, Types DEF SameWaits, CurrentStays, Suspended
<1> QED
  BY <1>2, <1>3, <1>4, <1>5, <1>6, StaysPut, QuietStep

\* The end of a time slice.
LEMMA TimeSliceStep ==
    ASSUME ChannelInv, pc[k.cur] # "closing", TimeSlice
    PROVE  ChannelInv'
<1>1. /\ k' = TimeSliceEnds(k) /\ pc' = pc /\ open' = open
      /\ UNCHANGED <<ch, pool, msg_ret, wakeup, serial, serving>>
  BY DEF TimeSlice
<1>2. ~ Closing /\ Sound(k) /\ k.lock = 0
  BY NotClosing, InvFacts
<1>3. Sound(k') /\ Calm(k, k') /\ Dispatches(k, k') /\ k'.err = k.err
  BY <1>1, <1>2, TimeSliceFrame, TimeSliceSound
<1>4. SameWaits /\ CurrentStays /\ open' \subseteq Holder
  BY <1>1, <1>2, <1>3, CalmWaits, Types DEF Dispatches, CurrentStays
<1> QED
  BY <1>1, <1>2, <1>3, <1>4, StaysPut, QuietStep

\* rt_raw_channel_open, and a close that is not the last.
LEMMA OpenStep ==
    ASSUME ChannelInv, NEW t \in App, Open(t) \/ (Close(t) /\ open' # {})
    PROVE  ChannelInv'
<1>1. /\ t \in Thread /\ k.cur = t /\ pc[t] = "run" /\ pc' = pc /\ k' = k
      /\ UNCHANGED <<ch, pool, msg_ret, wakeup, serial, serving>>
  BY DEF Open, Close, Calls, At, App
<1>2. open' \subseteq Holder
  BY Types, ChannelAssumption DEF Open, Close
<1>3. ~ Closing /\ Sound(k) /\ k.lock = 0
  BY <1>1, NotClosing, InvFacts
<1>4. SameWaits /\ CurrentStays
  BY <1>1, <1>3 DEF SameWaits, CurrentStays
<1> QED
  BY <1>1, <1>2, <1>3, <1>4, StaysPut, QuietStep

-----------------------------------------------------------------------------
(* The ends of calls *)

\* A step of a thread that has been woken, at the end of its call.
LEMMA ReturnStep ==
    ASSUME ChannelInv, ~ Closing, NEW t \in Thread, ~ Suspended(k, t), k' = k,
           NEW l \in Location, l # "closing", Goto(t, l), TypeOK', ThreadInv(t)',
           \A u \in Thread \ {t} : msg_ret'[u] = msg_ret[u],
           UNCHANGED <<ch, wakeup, serial>>, HandInv', MessagesAccounted'
    PROVE  ChannelInv'
<1>1. ch' = ch /\ wakeup' = wakeup /\ serial' = serial
  OBVIOUS
<1>2. pc'[t] = l /\ \A u \in Thread \ {t} : pc'[u] = pc[u]
  BY Types DEF Goto
<1>3. ~ Closing'
  BY <1>2 DEF Closing
<1>4. ASSUME NEW u \in Thread PROVE ThreadInv(u)'
  <2>1. CASE u = t
    BY <2>1
  <2>2. CASE u # t
    <3>1. SameWait(u) /\ SamePlace(u) /\ msg_ret'[u] = msg_ret[u] /\ k'.err[u] = k.err[u]
      BY <2>2, <1>2 DEF SameWait, SamePlace
    <3> QED
      BY <3>1, <1>1, InvFacts, ThreadSame
  <2> QED
    BY <2>1, <2>2
<1>5. RunInv'
  <2>1. k'.lock = 0 /\ CurrentStays
    BY <1>2, InvFacts DEF CurrentStays
  <2> QED
    BY <2>1, <1>3, RunNext
<1>6. StateInv'
  <2>1. StateInv /\ ch.reply \in Thread
    BY InvFacts, Types
  <2>2. ch.reply # Idle => ch.reply # t
    BY <2>1 DEF StateInv
  <2> QED
    BY <2>1, <2>2, <1>1, <1>2 DEF StateInv
<1>7. QueueInv'
  BY <1>1, InvFacts DEF QueueInv
<1> QED
  BY <1>3, <1>4, <1>5, <1>6, <1>7, InvFacts, InvNext

LEMMA RequestReturnsStep ==
    ASSUME ChannelInv, NEW t \in Clients, RequestReturns(t)
    PROVE  ChannelInv'
<1>1. /\ k.cur = t /\ pc[t] = "sent" /\ k' = k /\ t \in Thread /\ t # Server
      /\ UNCHANGED <<ch, pool, open, msg_ret, wakeup, serial, serving>>
  BY ChannelQueues DEF RequestReturns, At
<1>2. PICK l : l = IF k.err[t] = "EOK" THEN "replied" ELSE "run"
  OBVIOUS
<1>3. Goto(t, l) /\ l \in {"run", "replied"} /\ l \in Location /\ l # "closing"
  BY <1>2, Places DEF RequestReturns
<1>4. pc'[t] = l /\ \A u \in Thread \ {t} : pc'[u] = pc[u]
  BY <1>1, <1>3, Types DEF Goto
<1>5. ~ Closing /\ ~ Suspended(k, t)
  BY <1>1, NotClosing, InvFacts DEF RunInv
<1>6. ThreadInv(t)'
  <2>1. /\ Delivered(t)' <=> Delivered(t)
        /\ pc'[t] \notin Sends /\ pc'[t] \notin Receives
    BY <1>1, <1>2, <1>3, <1>4, <1>5, Places DEF Delivered
  <2>2. /\ ThreadInv(t)
        /\ ~ Linked(k, receivers, t) /\ ~ Linked(k, senders, t)
    BY <1>1, <1>5, InvFacts, ListFacts
  <2> QED
    BY <2>1, <2>2, <1>1, <1>5 DEF ThreadInv
<1>7. TypeOK'
  BY <1>1, <1>3, InvFacts, Types, TypesNext DEF Goto
<1>8. HandInv'
  <2>1. InHand' = InHand
    BY <1>1, <1>4, ChannelQueues DEF InHand
  <2> QED
    BY <2>1, <1>1, <1>5, InvFacts DEF HandInv
<1>9. MessagesAccounted'
  BY <1>1, HeldSame, PoolFacts, AccountedNext
<1> QED
  BY <1>1, <1>3, <1>5, <1>6, <1>7, <1>8, <1>9, ReturnStep

LEMMA FreesReplyStep ==
    ASSUME ChannelInv, NEW t \in Clients, FreesReply(t)
    PROVE  ChannelInv'
<1>1. /\ k.cur = t /\ pc[t] = "replied" /\ k' = k /\ t \in Thread /\ t # Server
      /\ pool' = Free /\ msg_ret' = [msg_ret EXCEPT ![t] = NoMsg] /\ Goto(t, "run")
      /\ UNCHANGED <<ch, open, wakeup, serial, serving>>
  BY ChannelQueues DEF FreesReply, At
<1>2. pc'[t] = "run" /\ \A u \in Thread \ {t} : pc'[u] = pc[u]
  BY <1>1, Types DEF Goto
<1>3. msg_ret'[t] = NoMsg /\ \A u \in Thread \ {t} : msg_ret'[u] = msg_ret[u]
  BY <1>1, Types
<1>4. ~ Closing /\ ~ Suspended(k, t) /\ wakeup[t] = "none"
      /\ ~ Linked(k, receivers, t) /\ ~ Linked(k, senders, t)
  BY <1>1, NotClosing, RunningFacts, Places
<1>5. msg_ret[t] # NoMsg
  BY <1>1, InvFacts DEF ThreadInv, Delivered
<1>6. ThreadInv(t)'
  <2>1. ~ Delivered(t)' /\ pc'[t] \notin Sends /\ pc'[t] \notin Receives
    BY <1>2, Places DEF Delivered
  <2> QED
    BY <2>1, <1>1, <1>2, <1>3, <1>4 DEF ThreadInv
<1>7. Cardinality(Held') = Cardinality(Held) + (-1) /\ Cardinality(Held) > 0
  BY <1>1, <1>5, HeldDrops
<1>8. pool' \in PoolType /\ pool'.free = pool.free + 1 /\ pool'.lost = pool.lost
  <2>1. Len(ch.msgs) + Cardinality(Held) > 0
    BY <1>7, PoolFacts
  <2> QED
    BY <2>1, <1>1, FreeFacts
<1>9. MessagesAccounted'
  <2>1. Len(ch'.msgs) = Len(ch.msgs) + 0
    BY <1>1, PoolFacts
  <2> QED
    <3>1. -1 \in Int /\ 0 \in Int /\ 1 \in Int /\ 1 + 0 + (-1) = 0
      OBVIOUS
    <3> QED
      BY <3>1, <2>1, <1>7, <1>8, AccountedMoves
<1>10. TypeOK'
  BY <1>1, <1>8, InvFacts, Types, TypesNext, Places DEF Goto
<1>11. HandInv'
  <2>1. InHand' = InHand
    BY <1>1, <1>2, <1>3, ChannelQueues DEF InHand
  <2> QED
    BY <2>1, <1>1, <1>4, InvFacts DEF HandInv
<1> QED
  BY <1>1, <1>3, <1>4, <1>6, <1>9, <1>10, <1>11, ReturnStep, Places

LEMMA ReceiveReturnsStep ==
    ASSUME ChannelInv, ReceiveReturns(Server)
    PROVE  ChannelInv'
<1> DEFINE t == Server
<1>1. /\ k.cur = t /\ pc[t] = "received" /\ k' = k /\ t \in Thread /\ Goto(t, "run")
      /\ UNCHANGED <<ch, open, wakeup, serial>> /\ "run" \in Location
  BY ChannelQueues, Places DEF ReceiveReturns, At
<1>2. pc'[t] = "run" /\ \A u \in Thread \ {t} : pc'[u] = pc[u]
  BY <1>1, Types DEF Goto
<1>3. ~ Closing /\ ~ Suspended(k, t)
  BY <1>1, NotClosing, InvFacts DEF RunInv
<1>4. /\ ThreadInv(t) /\ wakeup[t] = "none"
      /\ ~ Linked(k, receivers, t) /\ ~ Linked(k, senders, t)
  BY <1>1, <1>3, InvFacts, ListFacts DEF ThreadInv
<1>5. Delivered(t) <=> k.err[t] = "EOK"
  BY <1>1, <1>3, Places DEF Delivered
<1>6. ~ Delivered(t)' /\ pc'[t] \notin Sends /\ pc'[t] \notin Receives
  BY <1>2, Places DEF Delivered
<1>7. CASE k.err[t] = "EOK"
  <2>1. /\ pool' = Free /\ msg_ret' = [msg_ret EXCEPT ![t] = NoMsg]
        /\ serving' = IF need_reply(msg_ret[t]) THEN msg_ret[t] ELSE serving
    BY <1>7 DEF ReceiveReturns
  <2>2. msg_ret'[t] = NoMsg /\ \A u \in Thread \ {t} : msg_ret'[u] = msg_ret[u]
    BY <2>1, <1>1, Types
  <2>3. msg_ret[t] # NoMsg
    BY <1>4, <1>5, <1>7 DEF ThreadInv
  <2>4. Cardinality(Held') = Cardinality(Held) + (-1) /\ Cardinality(Held) > 0
    BY <2>1, <2>3, <1>1, HeldDrops
  <2>5. pool' \in PoolType /\ pool'.free = pool.free + 1 /\ pool'.lost = pool.lost
    <3>1. Len(ch.msgs) + Cardinality(Held) > 0
      BY <2>4, PoolFacts
    <3> QED
      BY <3>1, <2>1, FreeFacts
  <2>6. MessagesAccounted'
    <3>1. Len(ch'.msgs) = Len(ch.msgs) + 0
      BY <1>1, PoolFacts
    <3> QED
      BY <3>1, <2>4, <2>5, AccountedMoves
  <2>7. serving' \in Message
    BY <2>1, <2>3, <1>1, Types
  <2>8. TypeOK'
    BY <2>1, <2>5, <2>7, <1>1, InvFacts, Types, TypesNext DEF Goto
  <2>9. ThreadInv(t)'
    BY <2>2, <1>1, <1>2, <1>3, <1>4, <1>6 DEF ThreadInv
  <2>10. HandInv'
    <3>1. SUFFICES ASSUME ch.reply # Idle PROVE InHand' = <<ch.reply, serial[ch.reply]>>
      BY <1>1 DEF HandInv
    <3>2. msg_ret[t] = <<ch.reply, serial[ch.reply]>>
      BY <3>1, <1>1, <1>3, InvFacts, Places DEF HandInv, InHand
    <3>3. InHand' = serving'
      BY <1>6 DEF InHand
    <3>4. need_reply(msg_ret[t])
      <4>1. StateInv /\ ch.reply \in Thread
        BY <1>3, InvFacts, Types
      <4>2. ch.reply \in App
        BY <4>1, <3>1 DEF App
      <4>3. serial[ch.reply] \in {0, 1}
        BY <4>2, Types
      <4> QED
        BY <3>2, <4>2, <4>3, ChannelQueues DEF need_reply, Request
    <3> QED
      BY <3>2, <3>3, <3>4, <2>1
  <2> QED
    BY <2>2, <2>6, <2>8, <2>9, <2>10, <1>1, <1>3, ReturnStep
<1>8. CASE k.err[t] # "EOK"
  <2>1. UNCHANGED <<pool, msg_ret, serving>>
    BY <1>8 DEF ReceiveReturns
  <2>2. msg_ret[t] = NoMsg
    BY <1>4, <1>5, <1>8 DEF ThreadInv
  <2>3. TypeOK'
    BY <2>1, <1>1, InvFacts, Types, TypesNext DEF Goto
  <2>4. ThreadInv(t)'
    BY <2>1, <2>2, <1>1, <1>2, <1>3, <1>4, <1>6 DEF ThreadInv
  <2>5. MessagesAccounted'
    BY <2>1, <1>1, HeldSame, PoolFacts, AccountedNext
  <2>6. ch.reply = Idle
    <3>1. SUFFICES ASSUME ch.reply # Idle PROVE FALSE
      OBVIOUS
    <3>2. NoMsg = <<ch.reply, serial[ch.reply]>>
      BY <3>1, <2>2, <1>1, <1>3, InvFacts, Places DEF HandInv, InHand
    <3>3. ch.reply \in App
      BY <3>1, Types DEF App
    <3>4. serial[ch.reply] \in {0, 1}
      BY <3>3, Types
    <3> QED
      BY <3>2, <3>3, <3>4, ChannelQueues DEF Message, Request
  <2>7. HandInv'
    BY <2>6, <1>1 DEF HandInv
  <2> QED
    BY <2>1, <2>3, <2>4, <2>5, <2>7, <1>1, <1>3, ReturnStep
<1> QED
  BY <1>7, <1>8

-----------------------------------------------------------------------------
(* Messages without a reply *)

LEMMA AccountedCases ==
    ASSUME ChannelInv, pool'.lost = pool.lost
    PROVE  /\ /\ pool'.free = pool.free - 1 /\ Len(ch'.msgs) = Len(ch.msgs) + 1
              /\ Cardinality(Held') = Cardinality(Held)
              => MessagesAccounted'
           /\ /\ pool'.free = pool.free - 1 /\ Len(ch'.msgs) = Len(ch.msgs)
              /\ Cardinality(Held') = Cardinality(Held) + 1
              => MessagesAccounted'
           /\ /\ pool'.free = pool.free + 1 /\ Len(ch'.msgs) = Len(ch.msgs) - 1
              /\ Cardinality(Held') = Cardinality(Held)
              => MessagesAccounted'
           /\ /\ pool'.free = pool.free /\ Len(ch'.msgs) = Len(ch.msgs)
              /\ Cardinality(Held') = Cardinality(Held)
              => MessagesAccounted'
<1>1. /\ pool.free \in Int /\ Len(ch.msgs) \in Int /\ Cardinality(Held) \in Int
  BY PoolFacts
<1>2. /\ -1 \in Int /\ 0 \in Int /\ 1 \in Int
      /\ (-1) + 1 + 0 = 0 /\ (-1) + 0 + 1 = 0 /\ 1 + (-1) + 0 = 0 /\ 0 + 0 + 0 = 0
  OBVIOUS
<1>3. ASSUME pool'.free = pool.free - 1, Len(ch'.msgs) = Len(ch.msgs) + 1,
             Cardinality(Held') = Cardinality(Held)
      PROVE  MessagesAccounted'
  <2>1. /\ pool'.free = pool.free + (-1) /\ Cardinality(Held') = Cardinality(Held) + 0
    BY <1>1, <1>3
  <2> QED
    BY <2>1, <1>2, <1>3, AccountedMoves
<1>4. ASSUME pool'.free = pool.free - 1, Len(ch'.msgs) = Len(ch.msgs),
             Cardinality(Held') = Cardinality(Held) + 1
      PROVE  MessagesAccounted'
  <2>1. /\ pool'.free = pool.free + (-1) /\ Len(ch'.msgs) = Len(ch.msgs) + 0
    BY <1>1, <1>4
  <2> QED
    BY <2>1, <1>2, <1>4, AccountedMoves
<1>5. ASSUME pool'.free = pool.free + 1, Len(ch'.msgs) = Len(ch.msgs) - 1,
             Cardinality(Held') = Cardinality(Held)
      PROVE  MessagesAccounted'
  <2>1. /\ Len(ch'.msgs) = Len(ch.msgs) + (-1) /\ Cardinality(Held') = Cardinality(Held) + 0
    BY <1>1, <1>5
  <2> QED
    BY <2>1, <1>2, <1>5, AccountedMoves
<1>6. ASSUME pool'.free = pool.free, Len(ch'.msgs) = Len(ch.msgs),
             Cardinality(Held') = Cardinality(Held)
      PROVE  MessagesAccounted'
  BY <1>6, PoolFacts, AccountedNext
<1> QED
  BY <1>3, <1>4, <1>5, <1>6

\* The receiver is alone in its list.
LEMMA HeadReceiver ==
    ASSUME ChannelInv, k.list[receivers] # <<>>
    PROVE  Head(k.list[receivers]) = Server /\ Linked(k, receivers, Server)
<1>1. k.list[receivers] \in Seq(Thread)
  BY ListFacts
<1>2. Linked(k, receivers, Head(k.list[receivers]))
  BY <1>1, HeadInList DEF Linked
<1> QED
  BY <1>2, ListFacts

\* What happens when t is woken.
LEMMA WokenFacts ==
    ASSUME ChannelInv, NEW t \in Thread, Wakes(k, k', t)
    PROVE  /\ \A u \in Thread \ {t} : SameWait(u) /\ k'.err[u] = k.err[u]
           /\ ~ Suspended(k', t) /\ ~ Linked(k', receivers, t) /\ ~ Linked(k', senders, t)
           /\ \A u \in Thread : Suspended(k', u) => Suspended(k, u)
           /\ k'.lock = 0 /\ k'.list[senders] = Without(k.list[senders], t)
<1>1. /\ \A q \in Queue : \A u : Linked(k', q, u) <=> Linked(k, q, u) /\ u # t
      /\ \A u \in Thread : Suspended(k', u) <=> Suspended(k, u) /\ u # t
  BY InvFacts, WakesLinks
<1>2. \A u \in Thread \ {t} : k'.err[u] = k.err[u]
  BY DEF Wakes, OthersKeep
<1>3. k'.lock = 0 /\ k'.list[senders] = Without(k.list[senders], t)
  BY InvFacts, ChannelQueues DEF Wakes
<1> QED
  BY <1>1, <1>2, <1>3, ChannelQueues DEF SameWait

\* The message is queued.
LEMMA PlainQueued ==
    ASSUME ChannelInv, ~ Closing, PutPlain, ch.stat # "WAIT", Sound(k'), SameWaits, CurrentStays,
           pc' = pc \/ \E t \in Thread, l \in Location : pc' = [pc EXCEPT ![t] = l],
           \A u \in Thread : SamePlace(u) /\ pc'[u] # "closing",
           \A u \in Thread : k'.err[u] = k.err[u], UNCHANGED <<open, serial, serving>>
    PROVE  ChannelInv'
<1>0. /\ MayAlloc /\ pool' = Alloc /\ ch' = [ch EXCEPT !.msgs = Append(@, Plain)]
      /\ msg_ret' = msg_ret /\ wakeup' = wakeup /\ open' = open
      /\ serial' = serial /\ serving' = serving
  BY DEF PutPlain
<1>1. /\ ch' \in ChannelType /\ ch'.msgs = Append(ch.msgs, Plain) /\ ch'.stat = ch.stat
      /\ ch'.reply = ch.reply /\ Len(ch'.msgs) = Len(ch.msgs) + 1
  <2>1. ch.msgs \in Seq(Message) /\ Plain \in Message
    BY Types DEF Message
  <2>2. Append(ch.msgs, Plain) \in Seq(Message) /\ Len(Append(ch.msgs, Plain)) = Len(ch.msgs) + 1
    BY <2>1, AppendFacts
  <2> QED
    BY <2>2, <1>0, Types DEF ChannelType
<1>2. pool' \in PoolType /\ pool'.free = pool.free - 1 /\ pool'.lost = pool.lost
  BY <1>0, AllocFacts
<1>3. TypeOK'
  BY <1>0, <1>1, <1>2, InvFacts, Types, TypesNext
<1>4. ~ Closing'
  BY DEF Closing
<1>5. ASSUME NEW u \in Thread PROVE ThreadInv(u)'
  BY <1>0, InvFacts, WaitsSame, ThreadSame
<1>6. RunInv'
  BY <1>4, RunNext DEF SameWaits
<1>7. MessagesAccounted'
  BY <1>0, <1>1, <1>2, HeldSame, AccountedCases
<1>8. StateInv /\ HandInv /\ QueueInv
  BY InvFacts
<1>9. StateInv'
  <2>1. ch.reply \in Thread /\ Server \in Thread /\ \A u \in Thread : SameWait(u)
    BY Types, ChannelQueues, WaitsSame
  <2> QED
    BY <2>1, <1>0, <1>1, <1>8 DEF StateInv, SameWait, SamePlace
<1>10. HandInv'
  <2>1. InHand' = InHand
    BY <1>0, ChannelQueues DEF InHand, SamePlace
  <2> QED
    BY <2>1, <1>0, <1>1, <1>8 DEF HandInv
<1>11. QueueInv'
  <2>1. QueueOK(k.list[senders], Append(ch.msgs, Plain), ch.reply, serial)
    BY <1>8, Types, QueueAppendsPlain DEF QueueInv
  <2> QED
    BY <2>1, <1>0, <1>1 DEF QueueInv, SameWaits
<1> QED
  BY <1>3, <1>4, <1>5, <1>6, <1>7, <1>9, <1>10, <1>11, InvNext

\* The receiver gets the message.
LEMMA PlainReceived ==
    ASSUME ChannelInv, ~ Closing, PutPlain, ch.stat = "WAIT", Sound(k'),
           Wakes(k, k', Server), k'.err[Server] = "EOK", CurrentStays,
           pc' = pc \/ \E t \in Thread, l \in Location : pc' = [pc EXCEPT ![t] = l],
           \A u \in Thread : SamePlace(u) /\ pc'[u] # "closing",
           UNCHANGED <<open, serial, serving>>
    PROVE  ChannelInv'
<1>1. StateInv /\ HandInv /\ QueueInv
  BY InvFacts
<1>2. /\ Linked(k, receivers, Server) /\ Head(k.list[receivers]) = Server
      /\ Server \in Thread /\ Server \notin Clients /\ Server # Idle
  BY <1>1, ListFacts, HeadReceiver, ChannelQueues DEF StateInv
<1>3. /\ MayAlloc /\ pool' = Alloc /\ ch' = [ch EXCEPT !.stat = "IDLE"]
      /\ msg_ret' = [msg_ret EXCEPT ![Server] = Plain]
      /\ wakeup' = [wakeup EXCEPT ![Server] = "none"]
      /\ open' = open /\ serial' = serial /\ serving' = serving
  BY <1>2 DEF PutPlain
<1>4. /\ ch' \in ChannelType /\ ch'.msgs = ch.msgs /\ ch'.stat = "IDLE" /\ ch'.reply = ch.reply
      /\ ch.msgs = <<>> /\ ch.reply = Idle
  BY <1>1, <1>3, Types DEF ChannelType, StateInv
<1>5. /\ msg_ret'[Server] = Plain /\ wakeup'[Server] = "none" /\ Plain \in Message
      /\ \A u \in Thread \ {Server} : msg_ret'[u] = msg_ret[u] /\ wakeup'[u] = wakeup[u]
  BY <1>2, <1>3, Types DEF Message
<1>6. Suspended(k, Server) /\ msg_ret[Server] = NoMsg /\ pc[Server] \in Receives
  BY <1>2, ListFacts, WaitingFacts, InvFacts DEF ThreadInv
<1>7. pool' \in PoolType /\ pool'.free = pool.free - 1 /\ pool'.lost = pool.lost
  BY <1>3, AllocFacts
<1>8. TypeOK'
  <2>1. wakeup' \in [Thread -> WakeupType]
    BY <1>3, Types DEF WakeupType
  <2> QED
    BY <2>1, <1>2, <1>3, <1>4, <1>5, <1>7, InvFacts, Types, TypesNext
<1>9. ~ Closing'
  BY DEF Closing
<1>10. /\ \A u \in Thread \ {Server} : SameWait(u) /\ k'.err[u] = k.err[u]
       /\ ~ Suspended(k', Server) /\ ~ Linked(k', receivers, Server)
       /\ ~ Linked(k', senders, Server)
       /\ \A u \in Thread : Suspended(k', u) => Suspended(k, u)
       /\ k'.lock = 0 /\ k'.list[senders] = Without(k.list[senders], Server)
  BY <1>2, WokenFacts
<1>11. ThreadInv(Server)'
  <2>1. pc'[Server] \in Receives
    BY <1>2, <1>6 DEF SamePlace
  <2>2. Delivered(Server)' /\ pc'[Server] \notin Sends /\ pc'[Server] # "replied"
    BY <2>1, <1>10, Places DEF Delivered
  <2>3. msg_ret'[Server] # NoMsg
    BY <1>5, ChannelQueues
  <2> QED
    BY <2>1, <2>2, <2>3, <1>2, <1>5, <1>10 DEF ThreadInv
<1>12. ASSUME NEW u \in Thread PROVE ThreadInv(u)'
  <2>1. CASE u = Server
    BY <2>1, <1>11
  <2>2. CASE u # Server
    BY <2>2, <1>3, <1>5, <1>10, InvFacts, ThreadSame
  <2> QED
    BY <2>1, <2>2
<1>13. RunInv'
  BY <1>9, <1>10, RunNext
<1>14. MessagesAccounted'
  <2>1. Cardinality(Held') = Cardinality(Held) + 1
    BY <1>2, <1>3, <1>5, <1>6, HeldAdds
  <2> QED
    BY <2>1, <1>4, <1>7, AccountedCases
<1>15. StateInv'
  <2>1. \A u \in Thread : wakeup'[u] # "sender_wait_reply"
    BY <1>1, <1>4, <1>5, InvFacts, KernelAssumption DEF StateInv, ThreadInv, Sound, KernelOK,
       CurrentIsApart, Suspended, SuspendFlag
  <2>2. \A u \in Thread : Suspended(k', u) => Linked(k', senders, u)
    BY <1>1, <1>2, <1>4, <1>10, ListFacts, WaitingFacts DEF StateInv, SameWait
  <2> QED
    BY <2>1, <2>2, <1>4, <1>10 DEF StateInv
<1>16. HandInv'
  BY <1>4 DEF HandInv
<1>17. QueueInv'
  <2>1. ~ Linked(k, senders, Server)
    BY <1>2, ListFacts
  <2>2. k'.list[senders] = k.list[senders]
    BY <2>1, <1>10 DEF Linked, Without
  <2> QED
    BY <2>2, <1>1, <1>3, <1>4 DEF QueueInv
<1> QED
  BY <1>8, <1>9, <1>12, <1>13, <1>14, <1>15, <1>16, <1>17, InvNext

\* rt_channel_list_resume of the receiver.
LEMMA ReceiverWoken ==
    ASSUME ChannelInv, ~ Closing, ch.stat = "WAIT", NEW m, m = ResumeReceiver(k)
    PROVE  Sound(m) /\ Wakes(k, m, Server) /\ m.err[Server] = "EOK" /\ m.cur = k.cur
<1>1. Linked(k, receivers, Server) /\ Suspended(k, Server) /\ Server \in Thread
  BY InvFacts, ListFacts, ChannelQueues DEF StateInv
<1>2. Head(k.list[receivers]) = Server
  BY <1>1, ListFacts, HeadReceiver
<1>3. m = rt_thread_resume([k EXCEPT !.err[Server] = "EOK"], Server)
  BY <1>2 DEF ResumeReceiver, SetError
<1>4. "EOK" \in Error /\ Sound(k)
  BY InvFacts DEF Error
<1>5. Wakes(k, m, Server) /\ m.err[Server] = "EOK" /\ m.cur = k.cur
  BY <1>1, <1>3, <1>4, WakeFrame
<1>6. Sound(m)
  BY <1>1, <1>3, <1>4, WakeSound
<1> QED
  BY <1>5, <1>6

LEMMA SendStep ==
    ASSUME ChannelInv, NEW t \in Clients, Send(t)
    PROVE  ChannelInv'
<1>1. /\ t \in Thread /\ k.cur = t /\ pc[t] = "run" /\ PutPlain /\ k' = PlainKernel
      /\ Goto(t, "resched") /\ UNCHANGED <<open, serial, serving>>
  BY ChannelQueues DEF Send, Calls, At
<1>2. ~ Closing /\ Sound(k) /\ k.lock = 0
  BY <1>1, NotClosing, InvFacts
<1>3. "resched" \in Location /\ \A u \in Thread : SamePlace(u) /\ pc'[u] # "closing"
  BY <1>1, <1>2, GoesOn, Places
<1>4. ~ Suspended(k, t)
  BY <1>1, RunningFacts, Places
<1>5. CASE ch.stat = "WAIT"
  <2>1. Sound(k') /\ Wakes(k, k', Server) /\ k'.err[Server] = "EOK" /\ k'.cur = k.cur
    BY <1>1, <1>2, <1>5, ReceiverWoken DEF PlainKernel
  <2>2. CurrentStays
    BY <2>1, <1>1, <1>4 DEF CurrentStays
  <2> QED
    BY <2>1, <2>2, <1>1, <1>2, <1>3, <1>5, PlainReceived DEF Goto
<1>6. CASE ch.stat # "WAIT"
  <2>1. k' = k
    BY <1>1, <1>6 DEF PlainKernel
  <2>2. SameWaits /\ CurrentStays
    BY <2>1, <1>1, <1>2, <1>4 DEF SameWaits, CurrentStays
  <2> QED
    BY <2>1, <2>2, <1>1, <1>2, <1>3, <1>6, PlainQueued DEF Goto
<1> QED
  BY <1>5, <1>6

LEMMA HandlerSendsStep ==
    ASSUME ChannelInv, pc[k.cur] # "closing", HandlerSends
    PROVE  ChannelInv'
<1>1. /\ PutPlain /\ k' = rt_schedule(PlainKernel) /\ pc' = pc
      /\ UNCHANGED <<open, serial, serving>>
  BY DEF HandlerSends
<1>2. ~ Closing /\ Sound(k) /\ k.lock = 0
  BY NotClosing, InvFacts
<1>3. \A u \in Thread : SamePlace(u) /\ pc'[u] # "closing"
  BY <1>1, <1>2, StaysPut
<1>4. PICK m : m = PlainKernel
  OBVIOUS
<1>5. CASE ch.stat = "WAIT"
  <2>1. Sound(m) /\ Wakes(k, m, Server) /\ m.err[Server] = "EOK" /\ m.cur = k.cur
    BY <1>2, <1>4, <1>5, ReceiverWoken DEF PlainKernel
  <2>2. m.lock = 0
    BY <2>1, <1>2 DEF Wakes
  <2>3. /\ Sound(k') /\ Calm(m, k') /\ k'.err = m.err /\ k'.prio = m.prio
        /\ k'.stat[k'.cur] = "RUNNING"
    BY <2>1, <2>2, <1>1, <1>4, ScheduleSound, ScheduleFrame, ScheduleRuns
  <2>4. Wakes(k, k', Server) /\ CurrentStays
    BY <2>1, <2>3, ChannelQueues, WakesThenCalm DEF CurrentStays
  <2> QED
    BY <2>1, <2>3, <2>4, <1>1, <1>2, <1>3, <1>5, PlainReceived
<1>6. CASE ch.stat # "WAIT"
  <2>1. m = k
    BY <1>4, <1>6 DEF PlainKernel
  <2>2. Sound(k') /\ Calm(k, k') /\ k'.err = k.err /\ k'.stat[k'.cur] = "RUNNING"
    BY <2>1, <1>1, <1>2, <1>4, ScheduleSound, ScheduleFrame, ScheduleRuns
  <2>3. SameWaits /\ CurrentStays
    BY <2>2, CalmWaits DEF CurrentStays
  <2> QED
    BY <2>2, <2>3, <1>1, <1>2, <1>3, <1>6, PlainQueued
<1> QED
  BY <1>5, <1>6

-----------------------------------------------------------------------------
(* Waiting *)

\* SuspendOn: t puts itself on the list q.
LEMMA SuspendsFacts ==
    ASSUME ChannelInv, NEW t \in App, NEW q \in {receivers, senders}, NEW time,
           MaySuspend(k, t, "INTERRUPTIBLE"), NEW m, m = SuspendOn(SetError(k, t, "EOK"), q, t, time)
    PROVE  /\ Sound(m) /\ Suspended(m, t) /\ m.err[t] = "EOK" /\ m.cur = k.cur /\ m.lock = 0
           /\ m.list[q] = Append(k.list[q], t)
           /\ \A p \in Queue \ {q} : m.list[p] = k.list[p]
           /\ \A u \in Thread \ {t} : m.err[u] = k.err[u] /\ (Suspended(m, u) <=> Suspended(k, u))
<1>1. /\ Sound(k) /\ k.lock = 0 /\ t \in Thread /\ q \in Queue /\ "EOK" \in Error
      /\ "INTERRUPTIBLE" \in SuspendFlag
  BY InvFacts, ChannelQueues DEF App, Error, SuspendFlag
<1>2. PICK s : s = SetError(k, t, "EOK")
  OBVIOUS
<1>3. /\ Sound(s) /\ s.list = k.list /\ s.stat = k.stat /\ s.cur = k.cur /\ s.lock = k.lock
      /\ s.err[t] = "EOK" /\ \A u \in Thread \ {t} : s.err[u] = k.err[u]
  BY <1>1, <1>2, SetErrorFrame DEF SetError
<1>4. s.stat[t] \in Active /\ s.stat[t] \in {"READY", "RUNNING"}
  BY <1>3 DEF MaySuspend, Active
<1>5. PICK v : v = rt_ipc_list_suspend(s, q, t, "FIFO", "INTERRUPTIBLE")
  OBVIOUS
<1>6. Sound(v)
  BY <1>1, <1>3, <1>4, <1>5, ListSuspendSound
<1>7. /\ \A p \in Queue \ {q} : v.list[p] = s.list[p]
      /\ v.list[q] = Append(s.list[q], t)
      /\ Suspended(v, t) /\ OthersKeep(s, v, t) /\ v.err = s.err /\ v.cur = s.cur
      /\ v.lock = s.lock
  <2>1. Sound(s) /\ q \in Queue /\ t \in App /\ "INTERRUPTIBLE" \in SuspendFlag /\ s.stat[t] \in Active
    BY <1>1, <1>3, <1>4
  <2>2. PICK order : order = "FIFO"
    OBVIOUS
  <2>3. v = rt_ipc_list_suspend(s, q, t, order, "INTERRUPTIBLE")
    BY <2>2, <1>5
  <2>4. /\ \A p \in Queue \ {q} : v.list[p] = s.list[p]
        /\ v.list[q] = IF order = "FIFO" THEN Append(s.list[q], t)
                       ELSE InsertAt(s.list[q], PrioPosition(s, s.list[q], t), t)
        /\ Suspended(v, t) /\ OthersKeep(s, v, t) /\ v.err = s.err /\ v.cur = s.cur
        /\ v.lock = s.lock
    BY <2>1, <2>3, ListSuspendFrame
  <2> QED
    BY <2>2, <2>4
<1>8. m = IF time = "ticks" THEN StartThreadTimer(v, t) ELSE v
  BY <1>2, <1>5 DEF SuspendOn
<1>9. /\ Sound(m) /\ m.list = v.list /\ m.stat = v.stat /\ m.err = v.err /\ m.cur = v.cur
      /\ m.lock = v.lock
  <2>1. v \in KernelState
    BY <1>6 DEF Sound
  <2>2. CASE time = "ticks"
    BY <2>1, <2>2, <1>1, <1>6, <1>7, <1>8, StartTimerSound, StartTimerFrame
  <2>3. CASE time # "ticks"
    BY <2>3, <1>6, <1>8
  <2> QED
    BY <2>2, <2>3
<1>10. \A u \in Thread \ {t} : Suspended(m, u) <=> Suspended(k, u)
  BY <1>3, <1>7, <1>9 DEF OthersKeep, SameActivity, Active, Suspended, SuspendFlag
<1> QED
  BY <1>1, <1>3, <1>7, <1>9, <1>10 DEF Suspended

\* What the lists hold then.
LEMMA SuspendsLinks ==
    ASSUME ChannelInv, NEW t \in App, pc[t] = "run", NEW q \in {receivers, senders},
           NEW m, m.list[q] = Append(k.list[q], t),
           \A p \in Queue \ {q} : m.list[p] = k.list[p]
    PROVE  /\ \A p \in {receivers, senders} \ {q} : \A u : Linked(m, p, u) <=> Linked(k, p, u)
           /\ \A u : Linked(m, q, u) <=> Linked(k, q, u) \/ u = t
           /\ \A p \in {receivers, senders} \ {q} : ~ Linked(m, p, t)
<1>1. /\ t \in Thread /\ ~ Linked(k, receivers, t) /\ ~ Linked(k, senders, t)
  BY RunningFacts, Places DEF App
<1>2. k.list[q] \in Seq(Thread) /\ NoRepeats(k.list[q]) /\ t \notin ToSet(k.list[q])
  BY <1>1, ListFacts DEF Linked
<1>3. ToSet(m.list[q]) = ToSet(k.list[q]) \cup {t}
  BY <1>1, <1>2, AppendList
<1>4. \A p \in {receivers, senders} \ {q} : m.list[p] = k.list[p]
  BY ChannelQueues
<1> QED
  BY <1>1, <1>3, <1>4 DEF Linked

\* The serial number of the next request.
LEMMA NextSerial ==
    ASSUME ChannelInv, NEW t \in App, serial' = [serial EXCEPT ![t] = 1 - @]
    PROVE  /\ serial' \in [App -> {0, 1}] /\ serial'[t] = 1 - serial[t] /\ 1 - serial[t] \in {0, 1}
           /\ \A u \in App \ {t} : serial'[u] = serial[u]
           /\ <<t, 1 - serial[t]>> \in Message /\ <<t, 1 - serial[t]>> \in Request
<1>1. serial \in [App -> {0, 1}] /\ 1 - serial[t] \in {0, 1}
  BY Types
<1> QED
  BY <1>1 DEF Message, Request

LEMMA RequestQueuesStep ==
    ASSUME ChannelInv, NEW t \in Clients, NEW time, RequestQueues(t, time)
    PROVE  ChannelInv'
<1>1. /\ t \in Thread /\ t \in App /\ t # Server /\ t # Idle /\ k.cur = t /\ pc[t] = "run"
      /\ MayAlloc /\ MaySuspend(k, t, "INTERRUPTIBLE") /\ ch.stat # "WAIT"
      /\ k' = SuspendOn(SetError(k, t, "EOK"), senders, t, time)
      /\ ch' = [ch EXCEPT !.msgs = Append(@, <<t, 1 - serial[t]>>)]
      /\ pool' = Alloc /\ wakeup' = [wakeup EXCEPT ![t] = "sender_wait_recv"]
      /\ serial' = [serial EXCEPT ![t] = 1 - @] /\ Goto(t, "sending")
      /\ open' = open /\ msg_ret' = msg_ret /\ serving' = serving
  BY ChannelQueues DEF RequestQueues, Calls, At
<1>2. /\ Sound(k') /\ Suspended(k', t) /\ k'.err[t] = "EOK" /\ k'.cur = k.cur /\ k'.lock = 0
      /\ k'.list[senders] = Append(k.list[senders], t)
      /\ \A p \in Queue \ {senders} : k'.list[p] = k.list[p]
      /\ \A u \in Thread \ {t} : k'.err[u] = k.err[u] /\ (Suspended(k', u) <=> Suspended(k, u))
  BY <1>1, SuspendsFacts
<1>3. /\ \A u : Linked(k', receivers, u) <=> Linked(k, receivers, u)
      /\ \A u : Linked(k', senders, u) <=> Linked(k, senders, u) \/ u = t
      /\ ~ Linked(k', receivers, t)
  <2>1. /\ senders \in {receivers, senders} /\ receivers \in {receivers, senders} \ {senders}
    BY ChannelQueues
  <2>2. PICK m : m = k'
    OBVIOUS
  <2>3. /\ m.list[senders] = Append(k.list[senders], t)
        /\ \A p \in Queue \ {senders} : m.list[p] = k.list[p]
    BY <2>2, <1>2
  <2>4. /\ \A p \in {receivers, senders} \ {senders} :
              \A u : Linked(m, p, u) <=> Linked(k, p, u)
        /\ \A u : Linked(m, senders, u) <=> Linked(k, senders, u) \/ u = t
        /\ \A p \in {receivers, senders} \ {senders} : ~ Linked(m, p, t)
    BY <2>1, <2>3, <1>1, SuspendsLinks
  <2> QED
    BY <2>1, <2>2, <2>4
<1>4. ~ Closing /\ StateInv /\ HandInv /\ QueueInv
  BY <1>1, NotClosing, InvFacts
<1>5. /\ ~ Suspended(k, t) /\ ~ Linked(k, senders, t) /\ msg_ret[t] = NoMsg
  BY <1>1, RunningFacts, Places
<1>6. /\ serial' \in [App -> {0, 1}] /\ serial'[t] = 1 - serial[t] /\ 1 - serial[t] \in {0, 1}
      /\ \A u \in App \ {t} : serial'[u] = serial[u]
      /\ <<t, 1 - serial[t]>> \in Message
  BY <1>1, NextSerial
<1>7. /\ ch' \in ChannelType /\ ch'.msgs = Append(ch.msgs, <<t, 1 - serial[t]>>)
      /\ ch'.stat = ch.stat /\ ch'.reply = ch.reply /\ Len(ch'.msgs) = Len(ch.msgs) + 1
  <2>1. /\ Append(ch.msgs, <<t, 1 - serial[t]>>) \in Seq(Message)
        /\ Len(Append(ch.msgs, <<t, 1 - serial[t]>>)) = Len(ch.msgs) + 1
    BY <1>6, Types, AppendFacts
  <2> QED
    BY <2>1, <1>1, Types DEF ChannelType
<1>8. pool' \in PoolType /\ pool'.free = pool.free - 1 /\ pool'.lost = pool.lost
  BY <1>1, AllocFacts
<1>9. /\ pc'[t] = "sending" /\ wakeup'[t] = "sender_wait_recv"
      /\ \A u \in Thread \ {t} : pc'[u] = pc[u] /\ wakeup'[u] = wakeup[u]
  BY <1>1, Types DEF Goto
<1>10. TypeOK'
  <2>1. wakeup' \in [Thread -> WakeupType]
    BY <1>1, Types DEF WakeupType
  <2>2. "sending" \in Location
    BY Places
  <2> QED
    BY <2>1, <2>2, <1>1, <1>2, <1>6, <1>7, <1>8, InvFacts, Types, TypesNext DEF Goto
<1>11. ~ Closing'
  BY <1>4, <1>9 DEF Closing
<1>12. ThreadInv(t)'
  <2>1. ~ Delivered(t)' /\ pc'[t] \in Sends /\ pc'[t] \notin Receives
    BY <1>2, <1>9, Places DEF Delivered
  <2> QED
    BY <2>1, <1>1, <1>2, <1>3, <1>5, <1>9 DEF ThreadInv
<1>13. ASSUME NEW u \in Thread PROVE ThreadInv(u)'
  <2>1. CASE u = t
    BY <2>1, <1>12
  <2>2. CASE u # t
    <3>1. SameWait(u) /\ SamePlace(u)
      BY <2>2, <1>2, <1>3, <1>9 DEF SameWait, SamePlace
    <3>2. u \in Clients => serial'[u] = serial[u]
      BY <2>2, <1>6, ChannelQueues
    <3> QED
      BY <3>1, <3>2, <2>2, <1>1, <1>2, <1>9, InvFacts, ThreadSame
  <2> QED
    BY <2>1, <2>2
<1>14. RunInv'
  BY <1>1, <1>2, <1>9, <1>11 DEF RunInv, Closing
<1>15. MessagesAccounted'
  BY <1>1, <1>7, <1>8, HeldSame, AccountedCases
<1>16. ch.reply # t /\ ch.reply \in Thread
  BY <1>1, <1>4, <1>5, Types DEF StateInv
<1>17. StateInv'
  BY <1>1, <1>2, <1>3, <1>4, <1>7, <1>9, <1>16 DEF StateInv
<1>18. HandInv'
  <2>1. InHand' = InHand
    BY <1>1, <1>9, ChannelQueues DEF InHand
  <2>2. ch.reply # Idle => serial'[ch.reply] = serial[ch.reply]
    BY <1>6, <1>16 DEF App
  <2> QED
    BY <2>1, <2>2, <1>4, <1>7 DEF HandInv
<1>19. QueueInv'
  <2>1. k.list[senders] \in Seq(Thread) /\ t \notin ToSet(k.list[senders])
    BY <1>5, ListFacts DEF Linked
  <2>2. \A u \in ToSet(k.list[senders]) : serial'[u] = serial[u]
    BY <2>1, <1>6, ListFacts, ChannelQueues DEF Linked
  <2>3. QueueOK(k.list[senders], ch.msgs, ch.reply, serial) /\ ch.msgs \in Seq(Message)
    BY <1>4, Types DEF QueueInv
  <2>4. QueueOK(Append(k.list[senders], t), Append(ch.msgs, <<t, 1 - serial[t]>>), ch.reply, serial')
    <3>1. PICK L : L = k.list[senders]
      OBVIOUS
    <3>2. PICK M : M = ch.msgs
      OBVIOUS
    <3>3. PICK r : r = ch.reply
      OBVIOUS
    <3>4. PICK n : n = 1 - serial[t]
      OBVIOUS
    <3>5. PICK f : f = serial
      OBVIOUS
    <3>6. PICK g : g = serial'
      OBVIOUS
    <3>7. /\ L \in Seq(Thread) /\ M \in Seq(Message) /\ QueueOK(L, M, r, f)
          /\ t \in App /\ t \notin ToSet(L) /\ t # r /\ n \in {0, 1}
          /\ g[t] = n /\ \A u \in ToSet(L) : g[u] = f[u]
      BY <3>1, <3>2, <3>3, <3>4, <3>5, <3>6, <2>1, <2>2, <2>3, <1>1, <1>6, <1>16
    <3>8. QueueOK(Append(L, t), Append(M, <<t, n>>), r, g)
      BY <3>7, QueueAppendsRequest
    <3> QED
      BY <3>1, <3>2, <3>3, <3>4, <3>6, <3>8
  <2> QED
    BY <2>4, <1>2, <1>7 DEF QueueInv
<1> QED
  BY <1>2, <1>10, <1>11, <1>13, <1>14, <1>15, <1>17, <1>18, <1>19, InvNext

LEMMA ReceiveWaitsStep ==
    ASSUME ChannelInv, NEW time, ReceiveWaits(Server, time)
    PROVE  ChannelInv'
<1>1. /\ Server \in Thread /\ Server \in App /\ k.cur = Server /\ pc[Server] = "run"
      /\ MaySuspend(k, Server, "INTERRUPTIBLE") /\ ch.stat = "IDLE" /\ ch.msgs = <<>>
      /\ k' = SuspendOn(SetError(k, Server, "EOK"), receivers, Server, time)
      /\ ch' = [ch EXCEPT !.stat = "WAIT"]
      /\ wakeup' = [wakeup EXCEPT ![Server] = "receiver"] /\ Goto(Server, "receiving")
      /\ pool' = pool /\ open' = open /\ msg_ret' = msg_ret /\ serial' = serial
      /\ serving' = serving
  BY ChannelQueues, ChannelAssumption DEF ReceiveWaits, Calls, At
<1>2. /\ Sound(k') /\ Suspended(k', Server) /\ k'.err[Server] = "EOK" /\ k'.cur = k.cur
      /\ k'.lock = 0 /\ k'.list[receivers] = Append(k.list[receivers], Server)
      /\ \A p \in Queue \ {receivers} : k'.list[p] = k.list[p]
      /\ \A u \in Thread \ {Server} :
            k'.err[u] = k.err[u] /\ (Suspended(k', u) <=> Suspended(k, u))
  BY <1>1, SuspendsFacts
<1>3. /\ \A u : Linked(k', senders, u) <=> Linked(k, senders, u)
      /\ \A u : Linked(k', receivers, u) <=> Linked(k, receivers, u) \/ u = Server
      /\ ~ Linked(k', senders, Server)
  <2>1. /\ receivers \in {receivers, senders} /\ senders \in {receivers, senders} \ {receivers}
    BY ChannelQueues
  <2>2. PICK m : m = k'
    OBVIOUS
  <2>3. /\ m.list[receivers] = Append(k.list[receivers], Server)
        /\ \A p \in Queue \ {receivers} : m.list[p] = k.list[p]
    BY <2>2, <1>2
  <2>4. /\ \A p \in {receivers, senders} \ {receivers} :
              \A u : Linked(m, p, u) <=> Linked(k, p, u)
        /\ \A u : Linked(m, receivers, u) <=> Linked(k, receivers, u) \/ u = Server
        /\ \A p \in {receivers, senders} \ {receivers} : ~ Linked(m, p, Server)
    BY <2>1, <2>3, <1>1, SuspendsLinks
  <2> QED
    BY <2>1, <2>2, <2>4
<1>4. ~ Closing /\ StateInv /\ HandInv /\ QueueInv
  BY <1>1, NotClosing, InvFacts
<1>5. /\ ~ Suspended(k, Server) /\ msg_ret[Server] = NoMsg
  BY <1>1, RunningFacts, Places
<1>6. /\ ch' \in ChannelType /\ ch'.msgs = ch.msgs /\ ch'.stat = "WAIT" /\ ch'.reply = ch.reply
      /\ ch.reply = Idle
  BY <1>1, <1>4, Types DEF ChannelType, StateInv
<1>7. /\ pc'[Server] = "receiving" /\ wakeup'[Server] = "receiver"
      /\ \A u \in Thread \ {Server} : pc'[u] = pc[u] /\ wakeup'[u] = wakeup[u]
  BY <1>1, Types DEF Goto
<1>8. TypeOK'
  <2>1. wakeup' \in [Thread -> WakeupType]
    BY <1>1, Types DEF WakeupType
  <2>2. "receiving" \in Location
    BY Places
  <2> QED
    BY <2>1, <2>2, <1>1, <1>2, <1>6, InvFacts, Types, TypesNext DEF Goto
<1>9. ~ Closing'
  BY <1>4, <1>7 DEF Closing
<1>10. ThreadInv(Server)'
  <2>1. /\ ~ Delivered(Server)' /\ pc'[Server] \in Receives /\ pc'[Server] \notin Sends
        /\ pc'[Server] # "replied"
    BY <1>2, <1>7, Places DEF Delivered
  <2> QED
    BY <2>1, <1>1, <1>2, <1>3, <1>5, <1>7 DEF ThreadInv
<1>11. ASSUME NEW u \in Thread PROVE ThreadInv(u)'
  <2>1. CASE u = Server
    BY <2>1, <1>10
  <2>2. CASE u # Server
    <3>1. SameWait(u) /\ SamePlace(u)
      BY <2>2, <1>2, <1>3, <1>7 DEF SameWait, SamePlace
    <3> QED
      BY <3>1, <2>2, <1>1, <1>2, <1>7, InvFacts, ThreadSame
  <2> QED
    BY <2>1, <2>2
<1>12. RunInv'
  BY <1>1, <1>2, <1>7, <1>9 DEF RunInv, Closing
<1>13. MessagesAccounted'
  BY <1>1, <1>6, HeldSame, AccountedCases
<1>14. StateInv'
  BY <1>1, <1>2, <1>3, <1>4, <1>6, <1>7 DEF StateInv
<1>15. HandInv'
  BY <1>6 DEF HandInv
<1>16. QueueInv'
  BY <1>1, <1>2, <1>4, <1>6, ChannelQueues DEF QueueInv
<1> QED
  BY <1>2, <1>8, <1>9, <1>11, <1>12, <1>13, <1>14, <1>15, <1>16, InvNext

-----------------------------------------------------------------------------
(* Waits that end without an answer *)

\* t is woken with an error.
WokenInVain(t) ==
    /\ Suspended(k, t) /\ Sound(k') /\ Wakes(k, k', t) /\ k'.err[t] # "EOK" /\ CurrentStays
    /\ wakeup' = [wakeup EXCEPT ![t] = "none"] /\ pc' = pc
    /\ open' = open /\ msg_ret' = msg_ret /\ serial' = serial /\ serving' = serving

LEMMA InVainFacts ==
    ASSUME ChannelInv, ~ Closing, NEW t \in Thread, WokenInVain(t)
    PROVE  /\ \A u \in Thread \ {t} : SameWait(u) /\ wakeup'[u] = wakeup[u]
           /\ ~ Suspended(k', t) /\ wakeup'[t] = "none"
           /\ ~ Linked(k', receivers, t) /\ ~ Linked(k', senders, t)
           /\ k'.list[senders] = Without(k.list[senders], t)
           /\ t # Idle /\ InHand' = InHand
<1>1. /\ \A u \in Thread \ {t} : wakeup'[u] = wakeup[u]
      /\ wakeup'[t] = "none"
  BY Types DEF WokenInVain
<1>2. InHand' = InHand
  BY DEF InHand, WokenInVain
<1>3. t # Idle
  BY WaitingFacts DEF WokenInVain
<1> QED
  BY <1>1, <1>2, <1>3, WokenFacts DEF WokenInVain

LEMMA LeavesFrame ==
    ASSUME ChannelInv, ~ Closing, NEW t \in Thread, WokenInVain(t), ch' \in ChannelType,
           pool' \in PoolType, StateInv', HandInv', QueueInv', MessagesAccounted'
    PROVE  ChannelInv'
<1>1. /\ Suspended(k, t) /\ Sound(k') /\ Wakes(k, k', t) /\ k'.err[t] # "EOK" /\ CurrentStays
      /\ wakeup' = [wakeup EXCEPT ![t] = "none"] /\ pc' = pc
      /\ open' = open /\ msg_ret' = msg_ret /\ serial' = serial /\ serving' = serving
  BY DEF WokenInVain
<1>2. /\ \A u \in Thread \ {t} : SameWait(u) /\ k'.err[u] = k.err[u]
      /\ ~ Suspended(k', t) /\ ~ Linked(k', receivers, t) /\ ~ Linked(k', senders, t)
      /\ \A u \in Thread : Suspended(k', u) => Suspended(k, u)
      /\ k'.lock = 0
  BY <1>1, WokenFacts
<1>3. wakeup'[t] = "none" /\ \A u \in Thread \ {t} : wakeup'[u] = wakeup[u]
  BY <1>1, Types
<1>4. TypeOK'
  <2>1. wakeup' \in [Thread -> WakeupType]
    BY <1>1, Types DEF WakeupType
  <2> QED
    BY <2>1, <1>1, InvFacts, Types, TypesNext
<1>5. ~ Closing' /\ \A u \in Thread : SamePlace(u)
  BY <1>1 DEF Closing, SamePlace
<1>6. ThreadInv(t)'
  <2>1. pc[t] \in Sends \cup Receives /\ msg_ret[t] = NoMsg /\ ThreadInv(t)
    BY <1>1, WaitingFacts, InvFacts
  <2>2. pc[t] # "replied"
    BY <2>1, Places
  <2>3. ~ Delivered(t)'
    BY <2>2, <1>1 DEF Delivered
  <2> QED
    BY <2>1, <2>2, <2>3, <1>1, <1>2, <1>3 DEF ThreadInv
<1>7. ASSUME NEW u \in Thread PROVE ThreadInv(u)'
  <2>1. CASE u = t
    BY <2>1, <1>6
  <2>2. CASE u # t
    BY <2>2, <1>1, <1>2, <1>3, <1>5, InvFacts, ThreadSame
  <2> QED
    BY <2>1, <2>2
<1>8. RunInv'
  BY <1>1, <1>2, <1>5, RunNext
<1> QED
  BY <1>1, <1>4, <1>5, <1>7, <1>8, InvNext

\* receiver_timeout and wakeup_receiver
LEMMA ReceiverLeavesStep ==
    ASSUME ChannelInv, ~ Closing, NEW t \in Thread, WokenInVain(t), wakeup[t] = "receiver",
           ReceiverLeaves
    PROVE  ChannelInv'
<1>1. StateInv /\ HandInv /\ QueueInv
  BY InvFacts
<1>2. /\ Suspended(k, t) /\ Linked(k, receivers, t) /\ t = Server
  BY WaitingFacts, ListFacts DEF WokenInVain
<1>3. /\ ch' \in ChannelType /\ ch'.msgs = ch.msgs /\ ch'.stat = "IDLE" /\ ch'.reply = ch.reply
      /\ ch.msgs = <<>> /\ ch.reply = Idle /\ pool' = pool
  BY <1>1, <1>2, Types DEF ChannelType, StateInv, ReceiverLeaves
<1>4. /\ \A u \in Thread \ {t} : SameWait(u) /\ wakeup'[u] = wakeup[u]
      /\ ~ Suspended(k', t) /\ wakeup'[t] = "none"
      /\ ~ Linked(k', receivers, t) /\ ~ Linked(k', senders, t)
      /\ k'.list[senders] = Without(k.list[senders], t)
  BY InVainFacts
<1>5. ~ Suspended(k, Idle)
  BY ChannelQueues, WaitingFacts
<1>6. StateInv'
  <2>1. \A u \in Thread : wakeup'[u] # "sender_wait_reply"
    BY <1>1, <1>3, <1>4, <1>5, InvFacts DEF StateInv, ThreadInv
  <2>2. \A u \in Thread : Suspended(k', u) => Linked(k', senders, u)
    BY <1>1, <1>2, <1>3, <1>4, <1>5, ListFacts DEF StateInv, SameWait
  <2> QED
    BY <2>1, <2>2, <1>2, <1>3, <1>4 DEF StateInv
<1>7. HandInv'
  BY <1>3 DEF HandInv
<1>8. QueueInv'
  <2>1. ~ Linked(k, senders, Server)
    BY ListFacts, ChannelQueues
  <2>2. k'.list[senders] = k.list[senders] /\ serial' = serial
    BY <2>1, <1>2, <1>4 DEF Linked, Without, WokenInVain
  <2> QED
    BY <2>2, <1>1, <1>3 DEF QueueInv
<1>9. MessagesAccounted'
  BY <1>3, HeldSame, AccountedCases DEF WokenInVain
<1> QED
  BY <1>3, <1>6, <1>7, <1>8, <1>9, Types, LeavesFrame

\* sender_timeout and the wake-up functions of a sender: its request is with the
\* server.
LEMMA ReplyCalledOff ==
    ASSUME ChannelInv, ~ Closing, NEW t \in Thread, WokenInVain(t), ch.reply = t,
           ch' = [ch EXCEPT !.stat = "IDLE", !.reply = Idle], pool' = pool
    PROVE  ChannelInv'
<1>1. StateInv /\ HandInv /\ QueueInv /\ Suspended(k, t) /\ t # Idle
  BY InvFacts, InVainFacts DEF WokenInVain
<1>2. /\ ch' \in ChannelType /\ ch'.msgs = ch.msgs /\ ch'.stat = "IDLE" /\ ch'.reply = Idle
  BY Types, ChannelQueues DEF ChannelType
<1>3. /\ \A u \in Thread \ {t} : SameWait(u) /\ wakeup'[u] = wakeup[u]
      /\ ~ Suspended(k', t) /\ wakeup'[t] = "none"
      /\ ~ Linked(k', receivers, t) /\ ~ Linked(k', senders, t)
      /\ k'.list[senders] = Without(k.list[senders], t)
  BY InVainFacts
<1>4. /\ ch.stat = "ACTIVE" /\ ~ Linked(k, receivers, Server) /\ t # Server /\ Server \in Thread
  <2>1. pc[t] \in Sends /\ ch.stat = "ACTIVE"
    BY <1>1 DEF StateInv
  <2>2. t \in Clients /\ ~ Linked(k, receivers, Server)
    BY <2>1, <1>1, WaitingFacts DEF StateInv
  <2> QED
    BY <2>1, <2>2, ChannelQueues
<1>5. StateInv'
  <2>1. \A u \in Thread : wakeup'[u] # "sender_wait_reply"
    BY <1>1, <1>3 DEF StateInv
  <2>2. \A u \in Thread : Suspended(k', u) => Linked(k', receivers, u) \/ Linked(k', senders, u)
    BY <1>1, <1>3 DEF StateInv, SameWait
  <2>3. ~ Linked(k', receivers, Server)
    BY <1>3, <1>4 DEF SameWait
  <2> QED
    BY <2>1, <2>2, <2>3, <1>2 DEF StateInv
<1>6. HandInv'
  BY <1>2 DEF HandInv
<1>7. QueueInv'
  <2>1. k.list[senders] \in Seq(Thread) /\ NoRepeats(k.list[senders])
        /\ Idle \notin ToSet(k.list[senders]) /\ ch.msgs \in Seq(Message)
    BY ListFacts, Types DEF Linked
  <2>2. QueueOK(k.list[senders], ch.msgs, t, serial)
    BY <1>1 DEF QueueInv
  <2>3. QueueOK(Without(k.list[senders], t), ch.msgs, Idle, serial)
    BY <2>1, <2>2, QueueLosesReply
  <2> QED
    BY <2>3, <1>2, <1>3 DEF QueueInv, WokenInVain
<1>8. MessagesAccounted'
  BY <1>2, HeldSame, AccountedCases DEF WokenInVain
<1> QED
  BY <1>2, <1>5, <1>6, <1>7, <1>8, Types, LeavesFrame

\* The request that a sender takes back is its own.
LEMMA RequestOfFacts ==
    ASSUME ChannelInv, NEW t, HasRequest(t)
    PROVE  /\ RequestOf(t) \in 1 .. Len(ch.msgs) /\ need_reply(ch.msgs[RequestOf(t)])
           /\ Sender(ch.msgs[RequestOf(t)]) = t
<1>1. ch.msgs \in Seq(Message) /\ DOMAIN ch.msgs = 1 .. Len(ch.msgs) /\ Len(ch.msgs) \in Nat
  BY Types
<1>2. PICK G : G = {i \in 1 .. Len(ch.msgs) : need_reply(ch.msgs[i]) /\ Sender(ch.msgs[i]) = t}
  OBVIOUS
<1>3. G \subseteq Nat /\ G # {}
  BY <1>1, <1>2 DEF HasRequest
<1>4. PICK i \in G : \A j \in G : i <= j
  BY <1>3, LeastPosition
<1>5. i \in 1 .. Len(ch.msgs) /\ need_reply(ch.msgs[i]) /\ Sender(ch.msgs[i]) = t
  BY <1>2, <1>4
<1>6. ASSUME NEW j \in 1 .. i - 1, need_reply(ch.msgs[j]) PROVE Sender(ch.msgs[j]) # t
  <2>1. j \in 1 .. Len(ch.msgs) /\ ~ (i <= j)
    BY <1>1, <1>5
  <2> QED
    BY <2>1, <1>2, <1>4, <1>6
<1>7. \E n \in DOMAIN ch.msgs :
        /\ need_reply(ch.msgs[n]) /\ Sender(ch.msgs[n]) = t
        /\ \A j \in 1 .. n - 1 : need_reply(ch.msgs[j]) => Sender(ch.msgs[j]) # t
  BY <1>1, <1>5, <1>6
<1> QED
  BY <1>1, <1>7 DEF RequestOf

\* A sender leaves before its request has been received.
LEMMA RequestTakenBack ==
    ASSUME ChannelInv, ~ Closing, NEW t \in Thread, WokenInVain(t), ch.reply # t,
           wakeup[t] # "receiver", SenderLeaves(t)
    PROVE  ChannelInv'
<1>1. StateInv /\ HandInv /\ QueueInv /\ Suspended(k, t) /\ t # Idle
  BY InvFacts, InVainFacts DEF WokenInVain
<1>2. Linked(k, senders, t) /\ t \in Clients /\ t # Server /\ Server \in Thread
  BY <1>1, WaitingFacts, ListFacts, ChannelQueues DEF StateInv
<1>3. HasRequest(t)
  <2>1. DOMAIN ch.msgs = 1 .. Len(ch.msgs)
    BY Types
  <2> QED
    BY <2>1, <1>1, <1>2 DEF QueueInv, QueueOK, Linked, HasRequest
<1>4. PICK n : n = RequestOf(t)
  OBVIOUS
<1>5. n \in 1 .. Len(ch.msgs) /\ need_reply(ch.msgs[n]) /\ Sender(ch.msgs[n]) = t
  BY <1>3, <1>4, RequestOfFacts
<1>6. ch' = [ch EXCEPT !.msgs = RemoveAt(ch.msgs, n)] /\ pool' = Free
  BY <1>3, <1>4 DEF SenderLeaves
<1>7. /\ ch' \in ChannelType /\ ch'.msgs = RemoveAt(ch.msgs, n) /\ ch'.stat = ch.stat
      /\ ch'.reply = ch.reply /\ Len(ch'.msgs) = Len(ch.msgs) - 1 /\ Len(ch.msgs) > 0
      /\ ch.msgs \in Seq(Message)
  <2>1. ch.msgs \in Seq(Message) /\ Len(ch.msgs) \in Nat
    BY Types
  <2>2. RemoveAt(ch.msgs, n) \in Seq(Message) /\ Len(RemoveAt(ch.msgs, n)) = Len(ch.msgs) - 1
    BY <2>1, <1>5, RemoveAtList
  <2>3. Len(ch.msgs) > 0
    BY <2>1, <1>5
  <2> QED
    BY <2>1, <2>2, <2>3, <1>6, Types DEF ChannelType
<1>8. /\ \A u \in Thread \ {t} : SameWait(u) /\ wakeup'[u] = wakeup[u]
      /\ ~ Suspended(k', t) /\ wakeup'[t] = "none"
      /\ ~ Linked(k', receivers, t) /\ ~ Linked(k', senders, t)
      /\ k'.list[senders] = Without(k.list[senders], t) /\ InHand' = InHand
  BY InVainFacts
<1>9. ch.stat # "WAIT"
  <2>1. ch.msgs # <<>>
    BY <1>7
  <2> QED
    BY <2>1, <1>1 DEF StateInv
<1>10. StateInv'
  <2>1. ch.reply \in Thread /\ pc' = pc
    BY Types DEF WokenInVain
  <2>2. ch.reply # Idle => Suspended(k', ch.reply) /\ pc'[ch.reply] \in Sends
    BY <2>1, <1>1, <1>8 DEF StateInv, SameWait
  <2>3. \A u \in Thread : wakeup'[u] = "sender_wait_reply" => ch.reply = u
    BY <1>1, <1>8 DEF StateInv
  <2>4. \A u \in Thread : Suspended(k', u) =>
            Linked(k', receivers, u) \/ Linked(k', senders, u) \/ u = ch.reply
    BY <1>1, <1>8 DEF StateInv, SameWait
  <2>5. ~ Linked(k', receivers, Server)
    BY <1>1, <1>2, <1>8, <1>9 DEF StateInv, SameWait
  <2> QED
    BY <2>2, <2>3, <2>4, <2>5, <1>1, <1>7, <1>9 DEF StateInv
<1>11. HandInv'
  BY <1>1, <1>7, <1>8 DEF HandInv, WokenInVain
<1>12. QueueInv'
  <2>1. k.list[senders] \in Seq(Thread) /\ NoRepeats(k.list[senders])
    BY ListFacts
  <2>2. QueueOK(k.list[senders], ch.msgs, ch.reply, serial)
    BY <1>1 DEF QueueInv
  <2>3. QueueOK(Without(k.list[senders], t), RemoveAt(ch.msgs, n), ch.reply, serial)
    BY <2>1, <2>2, <1>5, <1>7, QueueRemoves
  <2> QED
    BY <2>3, <1>7, <1>8 DEF QueueInv, WokenInVain
<1>13. pool' \in PoolType /\ pool'.free = pool.free + 1 /\ pool'.lost = pool.lost
  <2>1. Len(ch.msgs) + Cardinality(Held) > 0
    BY <1>7, PoolFacts
  <2> QED
    BY <2>1, <1>6, FreeFacts
<1>14. MessagesAccounted'
  BY <1>7, <1>13, HeldSame, AccountedCases DEF WokenInVain
<1> QED
  BY <1>7, <1>10, <1>11, <1>12, <1>13, <1>14, LeavesFrame

LEMMA LeavesStep ==
    ASSUME ChannelInv, ~ Closing, NEW t \in Thread, WokenInVain(t),
           IF wakeup[t] = "receiver" THEN ReceiverLeaves ELSE SenderLeaves(t)
    PROVE  ChannelInv'
<1>1. CASE wakeup[t] = "receiver"
  BY <1>1, ReceiverLeavesStep
<1>2. CASE wakeup[t] # "receiver" /\ ch.reply # t
  BY <1>2, RequestTakenBack
<1>3. CASE wakeup[t] # "receiver" /\ ch.reply = t
  <2>1. ch.stat = "ACTIVE"
    BY <1>3, InvFacts, InVainFacts DEF StateInv
  <2> QED
    BY <2>1, <1>3, ReplyCalledOff DEF SenderLeaves
<1> QED
  BY <1>1, <1>2, <1>3

LEMMA ThreadTimerStep ==
    ASSUME ChannelInv, pc[k.cur] # "closing", NEW t \in App, ThreadTimer(t)
    PROVE  ChannelInv'
<1>1. /\ t \in Thread /\ t \in k.timer /\ k' = rt_thread_timeout(k, t)
      /\ wakeup' = [wakeup EXCEPT ![t] = "none"] /\ pc' = pc
      /\ open' = open /\ msg_ret' = msg_ret /\ serial' = serial /\ serving' = serving
      /\ IF wakeup[t] = "receiver" THEN ReceiverLeaves ELSE SenderLeaves(t)
  BY DEF ThreadTimer, App
<1>2. ~ Closing /\ Sound(k) /\ k.lock = 0
  BY NotClosing, InvFacts
<1>3. Suspended(k, t)
  BY <1>1, <1>2, SoundFacts DEF ThreadOK
<1>4. Sound(k') /\ Wakes(k, k', t) /\ Dispatches(k, k') /\ k'.err[t] = "ETIMEOUT"
  BY <1>1, <1>2, TimeoutFrame, TimeoutSound
<1>5. WokenInVain(t)
  BY <1>1, <1>2, <1>3, <1>4 DEF WokenInVain, CurrentStays, Dispatches
<1> QED
  BY <1>1, <1>2, <1>5, LeavesStep

LEMMA KillStep ==
    ASSUME ChannelInv, NEW t \in App, NEW u \in Process, NEW s \in Sig, Kill(t, u, s)
    PROVE  ChannelInv'
<1>1. /\ t \in Thread /\ u \in Thread /\ s \in Signal /\ k.cur = t /\ pc[t] = "run" /\ pc' = pc
      /\ open' = open /\ msg_ret' = msg_ret /\ serial' = serial /\ serving' = serving
  BY ChannelAssumption DEF Kill, At, App
<1>2. ~ Closing /\ Sound(k) /\ k \in KernelState /\ k.lock = 0
  BY <1>1, NotClosing, InvFacts
<1>3. PICK i : i = [k EXCEPT !.sig[u] = @ \cup {s}]
  OBVIOUS
<1>4. /\ i.list = k.list /\ i.stat = k.stat /\ i.cur = k.cur /\ i.prio = k.prio
      /\ i.err = k.err /\ i.lock = k.lock /\ i.group = k.group /\ i.timer = k.timer
      /\ i \in KernelState
  BY <1>1, <1>2, <1>3 DEF KernelState
<1>5. Sound(i)
  BY <1>2, <1>4, MiscSound
<1>6. CASE SignalWakes(k, u, s)
  <2>1. Suspended(k, u) /\ Suspended(i, u)
    BY <1>4, <1>6 DEF SignalWakes, Suspended, SuspendFlag
  <2>2. PICK w : w = IF wakeup[u] = "receiver" THEN Head(k.list[receivers]) ELSE u
    OBVIOUS
  <2>3. w = u
    <3>1. CASE wakeup[u] = "receiver"
      <4>1. Linked(k, receivers, u) /\ u = Server
        BY <3>1, <2>1, <1>1, WaitingFacts, ListFacts
      <4>2. k.list[receivers] # <<>>
        BY <4>1, ListFacts
      <4> QED
        BY <4>1, <4>2, <3>1, <2>2, HeadReceiver
    <3>2. CASE wakeup[u] # "receiver"
      BY <3>2, <2>2
    <3> QED
      BY <3>1, <3>2
  <2>4. PICK j : j = rt_thread_resume([i EXCEPT !.err[u] = "EINTR"], u)
    OBVIOUS
  <2>5. k' = rt_schedule(j)
    BY <2>2, <2>3, <2>4, <1>3, <1>6 DEF Kill, SetError
  <2>6. wakeup' = [wakeup EXCEPT ![u] = "none"]
    <3>1. wakeup' = [[wakeup EXCEPT ![u] = "none"] EXCEPT ![u] = "none"]
      BY <2>2, <2>3, <1>6 DEF Kill
    <3> QED
      BY <3>1, <1>1, Types
  <2>7. IF wakeup[u] = "receiver" THEN ReceiverLeaves ELSE SenderLeaves(u)
    <3>1. CASE wakeup[u] = "receiver"
      BY <3>1, <1>6 DEF Kill
    <3>2. CASE wakeup[u] = "sender_wait_reply"
      <4>1. ch.reply = u /\ ch.stat = "ACTIVE"
        BY <3>2, <2>1, <1>1, <1>2, InvFacts, WaitingFacts DEF StateInv
      <4>2. ch' = [ch EXCEPT !.stat = "IDLE", !.reply = Idle] /\ pool' = pool
        BY <3>2, <1>6 DEF Kill
      <4> QED
        BY <4>1, <4>2, <3>2 DEF SenderLeaves
    <3>3. CASE wakeup[u] # "receiver" /\ wakeup[u] # "sender_wait_reply"
      BY <3>3, <1>6 DEF Kill
    <3> QED
      BY <3>1, <3>2, <3>3
  <2>8. "EINTR" \in Error
    BY DEF Error
  <2>9. Sound(j) /\ Wakes(i, j, u) /\ j.err[u] = "EINTR"
    BY <2>1, <2>4, <2>8, <1>1, <1>5, WakeSound, WakeFrame
  <2>10. Wakes(k, j, u) /\ j.lock = 0
    BY <2>9, <1>2, <1>4 DEF Wakes, OthersKeep, SameActivity
  <2>11. /\ Sound(k') /\ Calm(j, k') /\ k'.err = j.err /\ k'.prio = j.prio
         /\ k'.stat[k'.cur] = "RUNNING"
    BY <2>5, <2>9, <2>10, ScheduleSound, ScheduleFrame, ScheduleRuns
  <2>12. Wakes(k, k', u) /\ CurrentStays
    BY <2>10, <2>11, <1>1, WakesThenCalm DEF CurrentStays
  <2>13. WokenInVain(u)
    BY <2>1, <2>6, <2>9, <2>11, <2>12, <1>1 DEF WokenInVain
  <2> QED
    BY <2>7, <2>13, <1>1, <1>2, LeavesStep
<1>7. CASE ~ SignalWakes(k, u, s)
  <2>1. /\ k' = i /\ UNCHANGED <<ch, pool, msg_ret, wakeup, serial, serving>>
    BY <1>1, <1>3, <1>7 DEF Kill, lwp_thread_kill
  <2>2. SameWaits /\ CurrentStays /\ open' \subseteq Holder
    BY <2>1, <1>1, <1>2, <1>4, Types DEF SameWaits, CurrentStays, Suspended
  <2> QED
    BY <2>1, <2>2, <1>1, <1>2, <1>4, <1>5, StaysPut, QuietStep
<1> QED
  BY <1>6, <1>7

-----------------------------------------------------------------------------
(* Requests, replies and the server *)

\* Nobody waits to send while the server waits.
LEMMA ServerWaits ==
    ASSUME ChannelInv, ~ Closing, ch.stat = "WAIT"
    PROVE  /\ \A u : ~ Linked(k, senders, u)
           /\ ch.msgs = <<>> /\ ch.reply = Idle
           /\ Linked(k, receivers, Server) /\ Suspended(k, Server) /\ pc[Server] \in Receives
           /\ Head(k.list[receivers]) = Server /\ msg_ret[Server] = NoMsg
           /\ \A u \in Thread : wakeup[u] # "sender_wait_reply"
<1>1. StateInv /\ QueueInv
  BY InvFacts
<1>2. ch.msgs = <<>> /\ ch.reply = Idle /\ Linked(k, receivers, Server)
  BY <1>1 DEF StateInv
<1>3. Suspended(k, Server) /\ Server \in Thread /\ Head(k.list[receivers]) = Server
  BY <1>2, ListFacts, HeadReceiver, ChannelQueues
<1>4. pc[Server] \in Receives /\ msg_ret[Server] = NoMsg
  BY <1>2, <1>3, WaitingFacts, InvFacts DEF ThreadInv
<1>5. ASSUME NEW u, Linked(k, senders, u) PROVE FALSE
  <2>1. u # Idle
    BY <1>5, ListFacts
  <2>2. PICK i \in 1 .. Len(ch.msgs) : TRUE
    BY <2>1, <1>1, <1>2, <1>5 DEF QueueInv, QueueOK, Linked
  <2> QED
    BY <2>2, <1>2
<1>6. \A u \in Thread : wakeup[u] # "sender_wait_reply"
  <2>1. wakeup[Idle] = "none"
    BY ChannelQueues, WaitingFacts, InvFacts DEF ThreadInv
  <2> QED
    BY <2>1, <1>1, <1>2 DEF StateInv
<1> QED
  BY <1>2, <1>3, <1>4, <1>5, <1>6

\* What the kernel does when a request is handed over.
LEMMA HandsOverKernel ==
    ASSUME ChannelInv, ~ Closing, ch.stat = "WAIT", NEW t \in Clients, pc[t] = "run", NEW time,
           MaySuspend(k, t, "INTERRUPTIBLE"),
           NEW n, n = ResumeReceiver(SuspendOn(SetError(k, t, "EOK"), senders, t, time))
    PROVE  /\ Sound(n) /\ n.cur = k.cur /\ n.lock = 0
           /\ Suspended(n, t) /\ n.err[t] = "EOK" /\ Linked(n, senders, t)
           /\ ~ Linked(n, receivers, t)
           /\ ~ Suspended(n, Server) /\ n.err[Server] = "EOK"
           /\ ~ Linked(n, receivers, Server)
           /\ \A u \in Thread \ {t, Server} : n.err[u] = k.err[u]
           /\ \A u \in Thread \ {t, Server} : Suspended(n, u) <=> Suspended(k, u)
           /\ \A u \in Thread \ {t, Server} : Linked(n, receivers, u) <=> Linked(k, receivers, u)
           /\ \A u : Linked(n, senders, u) <=> u = t
<1>1. t \in App /\ t \in Thread /\ t # Server /\ Server \in Thread
  BY ChannelQueues
<1>2. PICK m : m = SuspendOn(SetError(k, t, "EOK"), senders, t, time)
  OBVIOUS
<1>3. /\ Sound(m) /\ Suspended(m, t) /\ m.err[t] = "EOK" /\ m.cur = k.cur /\ m.lock = 0
      /\ m.list[senders] = Append(k.list[senders], t)
      /\ \A p \in Queue \ {senders} : m.list[p] = k.list[p]
      /\ \A u \in Thread \ {t} : m.err[u] = k.err[u] /\ (Suspended(m, u) <=> Suspended(k, u))
  BY <1>1, <1>2, SuspendsFacts
<1>4. /\ \A u : Linked(m, receivers, u) <=> Linked(k, receivers, u)
      /\ \A u : Linked(m, senders, u) <=> Linked(k, senders, u) \/ u = t
      /\ ~ Linked(m, receivers, t)
  BY <1>1, <1>3, SuspendsLinks, ChannelQueues
<1>5. m.list[receivers] = k.list[receivers]
  BY <1>3, ChannelQueues
<1>6. Head(m.list[receivers]) = Server /\ Suspended(m, Server)
  BY <1>1, <1>3, <1>5, ServerWaits
<1>7. n = rt_thread_resume([m EXCEPT !.err[Server] = "EOK"], Server) /\ "EOK" \in Error
  BY <1>2, <1>6 DEF ResumeReceiver, SetError, Error
<1>8. Wakes(m, n, Server) /\ n.err[Server] = "EOK" /\ n.cur = m.cur /\ Sound(n)
  BY <1>1, <1>3, <1>6, <1>7, WakeFrame, WakeSound
<1>9. /\ \A q \in Queue : \A u : Linked(n, q, u) <=> Linked(m, q, u) /\ u # Server
      /\ \A u \in Thread : Suspended(n, u) <=> Suspended(m, u) /\ u # Server
  BY <1>1, <1>3, <1>8, WakesLinks
<1>10. n.lock = 0 /\ \A u \in Thread \ {Server} : n.err[u] = m.err[u]
  BY <1>3, <1>8 DEF Wakes, OthersKeep
<1>11. \A u : ~ Linked(k, senders, u)
  BY ServerWaits
<1> QED
  BY <1>1, <1>3, <1>4, <1>8, <1>9, <1>10, <1>11, ChannelQueues

LEMMA RequestHandsOverStep ==
    ASSUME ChannelInv, NEW t \in Clients, NEW time, RequestHandsOver(t, time)
    PROVE  ChannelInv'
<1>1. /\ t \in Thread /\ t \in App /\ t # Server /\ t # Idle /\ k.cur = t /\ pc[t] = "run"
      /\ MayAlloc /\ MaySuspend(k, t, "INTERRUPTIBLE") /\ ch.stat = "WAIT" /\ Server \in Thread
      /\ k' = ResumeReceiver(SuspendOn(SetError(k, t, "EOK"), senders, t, time))
      /\ ch' = [ch EXCEPT !.reply = t, !.stat = "ACTIVE"]
      /\ pool' = Alloc /\ serial' = [serial EXCEPT ![t] = 1 - @] /\ Goto(t, "sending")
      /\ open' = open /\ serving' = serving
  BY ChannelQueues DEF RequestHandsOver, Calls, At
<1>2. ~ Closing
  BY <1>1, NotClosing
<1>3. /\ \A u : ~ Linked(k, senders, u)
      /\ ch.msgs = <<>> /\ ch.reply = Idle
      /\ Linked(k, receivers, Server) /\ Suspended(k, Server) /\ pc[Server] \in Receives
      /\ Head(k.list[receivers]) = Server /\ msg_ret[Server] = NoMsg
      /\ \A u \in Thread : wakeup[u] # "sender_wait_reply"
  BY <1>1, <1>2, ServerWaits
<1>4. PICK m : m = <<t, 1 - serial[t]>>
  OBVIOUS
<1>5. /\ msg_ret' = [msg_ret EXCEPT ![Server] = m]
      /\ wakeup' = [wakeup EXCEPT ![t] = "sender_wait_reply", ![Server] = "none"]
  BY <1>3, <1>4 DEF RequestHandsOver
<1>6. /\ Sound(k') /\ k'.cur = k.cur /\ k'.lock = 0
      /\ Suspended(k', t) /\ k'.err[t] = "EOK" /\ Linked(k', senders, t)
      /\ ~ Linked(k', receivers, t)
      /\ ~ Suspended(k', Server) /\ k'.err[Server] = "EOK"
      /\ ~ Linked(k', receivers, Server)
      /\ \A u \in Thread \ {t, Server} : k'.err[u] = k.err[u]
      /\ \A u \in Thread \ {t, Server} : Suspended(k', u) <=> Suspended(k, u)
      /\ \A u \in Thread \ {t, Server} : Linked(k', receivers, u) <=> Linked(k, receivers, u)
      /\ \A u : Linked(k', senders, u) <=> u = t
  BY <1>1, <1>2, HandsOverKernel
<1>7. /\ serial' \in [App -> {0, 1}] /\ m = <<t, serial'[t]>> /\ m \in Message
      /\ \A u \in App \ {t} : serial'[u] = serial[u]
  BY <1>1, <1>4, NextSerial
<1>8. /\ ch' \in ChannelType /\ ch'.msgs = <<>> /\ ch'.stat = "ACTIVE" /\ ch'.reply = t
      /\ Len(ch'.msgs) = Len(ch.msgs)
  BY <1>1, <1>3, Types DEF ChannelType
<1>9. pool' \in PoolType /\ pool'.free = pool.free - 1 /\ pool'.lost = pool.lost
  BY <1>1, AllocFacts
<1>10. /\ pc'[t] = "sending" /\ pc'[Server] = pc[Server]
       /\ \A u \in Thread \ {t} : pc'[u] = pc[u]
  BY <1>1, Types DEF Goto
<1>11. /\ wakeup' \in [Thread -> WakeupType]
       /\ wakeup'[t] = "sender_wait_reply" /\ wakeup'[Server] = "none"
       /\ \A u \in Thread \ {t, Server} : wakeup'[u] = wakeup[u]
  BY <1>1, <1>5, Types DEF WakeupType
<1>12. msg_ret'[Server] = m /\ \A u \in Thread \ {Server} : msg_ret'[u] = msg_ret[u]
  BY <1>1, <1>5, Types
<1>13. msg_ret[t] = NoMsg
  BY <1>1, RunningFacts, Places
<1>14. TypeOK'
  <2>1. "sending" \in Location
    BY Places
  <2> QED
    BY <2>1, <1>1, <1>5, <1>6, <1>7, <1>8, <1>9, <1>11, InvFacts, Types, TypesNext DEF Goto
<1>15. ~ Closing'
  BY <1>2, <1>10 DEF Closing
<1>16. ThreadInv(t)'
  <2>1. /\ ~ Delivered(t)' /\ pc'[t] \in Sends /\ pc'[t] \notin Receives
    BY <1>6, <1>10, Places DEF Delivered
  <2> QED
    BY <2>1, <1>1, <1>6, <1>11, <1>12, <1>13 DEF ThreadInv
<1>17. ThreadInv(Server)'
  <2>1. /\ Delivered(Server)' /\ pc'[Server] \in Receives /\ pc'[Server] \notin Sends
        /\ pc'[Server] # "replied"
    BY <1>3, <1>6, <1>10, Places DEF Delivered
  <2>2. msg_ret'[Server] # NoMsg /\ ~ Linked(k', senders, Server)
    BY <1>1, <1>6, <1>7, <1>12, ChannelQueues
  <2> QED
    BY <2>1, <2>2, <1>6, <1>11, ChannelQueues DEF ThreadInv
<1>18. ASSUME NEW u \in Thread PROVE ThreadInv(u)'
  <2>1. CASE u = t \/ u = Server
    BY <2>1, <1>16, <1>17
  <2>2. CASE u # t /\ u # Server
    <3>1. SameWait(u) /\ SamePlace(u)
      BY <2>2, <1>3, <1>6, <1>10 DEF SameWait, SamePlace
    <3>2. u \in Clients => serial'[u] = serial[u]
      BY <2>2, <1>7, ChannelQueues
    <3> QED
      BY <3>1, <3>2, <2>2, <1>6, <1>11, <1>12, InvFacts, ThreadSame
  <2> QED
    BY <2>1, <2>2
<1>19. RunInv'
  BY <1>1, <1>6, <1>10, <1>15 DEF RunInv, Closing
<1>20. MessagesAccounted'
  <2>1. Cardinality(Held') = Cardinality(Held) + 1
    BY <1>1, <1>3, <1>5, <1>7, HeldAdds
  <2> QED
    BY <2>1, <1>8, <1>9, AccountedCases
<1>21. StateInv'
  <2>1. \A u \in Thread : wakeup'[u] = "sender_wait_reply" => t = u
    BY <1>3, <1>11
  <2>2. \A u \in Thread : Suspended(k', u) =>
            Linked(k', receivers, u) \/ Linked(k', senders, u) \/ u = t
    <3>1. StateInv /\ ~ Suspended(k, Idle)
      BY <1>2, InvFacts, WaitingFacts, ChannelQueues
    <3> QED
      BY <3>1, <1>3, <1>6 DEF StateInv
  <2>3. pc'[t] \in Sends
    BY <1>10, Places
  <2> QED
    BY <2>1, <2>2, <2>3, <1>1, <1>6, <1>8 DEF StateInv
<1>22. HandInv'
  <2>1. InHand' = m
    BY <1>3, <1>10, <1>12 DEF InHand
  <2> QED
    BY <2>1, <1>7, <1>8 DEF HandInv
<1>23. QueueInv'
  <2>1. ToSet(k'.list[senders]) = {t}
    <3>1. \A u : u \in ToSet(k'.list[senders]) <=> u = t
      BY <1>6 DEF Linked
    <3> QED
      BY <3>1
  <2>2. QueueOK(k'.list[senders], <<>>, t, serial')
    BY <2>1 DEF QueueOK
  <2> QED
    BY <2>2, <1>8 DEF QueueInv
<1> QED
  BY <1>6, <1>14, <1>15, <1>18, <1>19, <1>20, <1>21, <1>22, <1>23, InvNext

LEMMA ReplyStep ==
    ASSUME ChannelInv, Reply(Server)
    PROVE  ChannelInv'
<1>1. PICK u : u = ch.reply
  OBVIOUS
<1>2. /\ k.cur = Server /\ pc[Server] = "run" /\ Server \in Thread /\ Server # Idle
      /\ ch.stat = "ACTIVE" /\ u # Idle /\ MayAlloc /\ pool' = Alloc
      /\ msg_ret' = [msg_ret EXCEPT ![u] = serving] /\ k' = rt_thread_resume(k, u)
      /\ wakeup' = [wakeup EXCEPT ![u] = "none"]
      /\ ch' = [ch EXCEPT !.stat = "IDLE", !.reply = Idle] /\ serving' = Plain
      /\ Goto(Server, "resched") /\ open' = open /\ serial' = serial
  BY <1>1, ChannelQueues DEF Reply, Calls, At
<1>3. ~ Closing /\ StateInv /\ HandInv /\ QueueInv /\ Sound(k) /\ k.lock = 0
  BY <1>2, NotClosing, InvFacts
<1>4. u \in Thread /\ Suspended(k, u) /\ pc[u] \in Sends
  BY <1>1, <1>2, <1>3, Types DEF StateInv
<1>5. u \in Clients /\ u # Server /\ k.err[u] = "EOK" /\ msg_ret[u] = NoMsg
  BY <1>4, WaitingFacts, ChannelQueues
<1>6. ~ Suspended(k, Server) /\ ~ Linked(k, receivers, Server) /\ ~ Linked(k, senders, Server)
  BY <1>2, RunningFacts, Places
<1>7. Sound(k') /\ Wakes(k, k', u) /\ k'.err = k.err /\ k'.cur = k.cur
  BY <1>2, <1>3, <1>4, ResumeFrame, ResumeSound
<1>8. /\ \A v \in Thread \ {u} : SameWait(v) /\ k'.err[v] = k.err[v]
      /\ ~ Suspended(k', u) /\ ~ Linked(k', receivers, u) /\ ~ Linked(k', senders, u)
      /\ \A v \in Thread : Suspended(k', v) => Suspended(k, v)
      /\ k'.lock = 0 /\ k'.list[senders] = Without(k.list[senders], u)
  BY <1>4, <1>7, WokenFacts
<1>9. serving = <<u, serial[u]>> /\ serving \in Message
  <2>1. pc[Server] \notin Receives
    BY <1>2, Places
  <2> QED
    BY <2>1, <1>1, <1>2, <1>3, Types DEF HandInv, InHand
<1>10. /\ ch' \in ChannelType /\ ch'.msgs = ch.msgs /\ ch'.stat = "IDLE" /\ ch'.reply = Idle
  BY <1>2, Types, ChannelQueues DEF ChannelType
<1>11. pool' \in PoolType /\ pool'.free = pool.free - 1 /\ pool'.lost = pool.lost
  BY <1>2, AllocFacts
<1>12. /\ "resched" \in Location /\ \A v \in Thread : SamePlace(v) /\ pc'[v] # "closing"
  BY <1>2, <1>3, GoesOn, Places
<1>13. /\ wakeup'[u] = "none" /\ msg_ret'[u] = serving
       /\ \A v \in Thread \ {u} : wakeup'[v] = wakeup[v] /\ msg_ret'[v] = msg_ret[v]
       /\ wakeup' \in [Thread -> WakeupType]
  BY <1>2, <1>4, Types DEF WakeupType
<1>14. TypeOK'
  <2>1. Plain \in Message
    BY DEF Message
  <2> QED
    BY <2>1, <1>2, <1>4, <1>7, <1>9, <1>10, <1>11, <1>12, <1>13, InvFacts, Types, TypesNext
       DEF Goto
<1>15. ~ Closing'
  BY <1>12 DEF Closing
<1>16. ThreadInv(u)'
  <2>1. pc'[u] \in Sends /\ pc'[u] \notin Receives /\ k'.err[u] = "EOK"
    BY <1>4, <1>5, <1>7, <1>12, Places DEF SamePlace
  <2>2. Delivered(u)'
    BY <2>1, <1>8 DEF Delivered
  <2>3. msg_ret'[u] = <<u, serial'[u]>> /\ msg_ret'[u] # NoMsg
    BY <1>2, <1>9, <1>13, ChannelQueues
  <2> QED
    BY <2>1, <2>2, <2>3, <1>5, <1>8, <1>13 DEF ThreadInv
<1>17. ASSUME NEW v \in Thread PROVE ThreadInv(v)'
  <2>1. CASE v = u
    BY <2>1, <1>16
  <2>2. CASE v # u
    BY <2>2, <1>2, <1>8, <1>12, <1>13, InvFacts, ThreadSame
  <2> QED
    BY <2>1, <2>2
<1>18. RunInv'
  <2>1. CurrentStays
    BY <1>2, <1>6, <1>7 DEF CurrentStays
  <2> QED
    BY <2>1, <1>8, <1>15, RunNext
<1>19. MessagesAccounted'
  <2>1. Cardinality(Held') = Cardinality(Held) + 1
    BY <1>2, <1>4, <1>5, <1>9, HeldAdds
  <2> QED
    BY <2>1, <1>10, <1>11, AccountedCases
<1>20. StateInv'
  <2>1. \A v \in Thread : wakeup'[v] # "sender_wait_reply"
    BY <1>1, <1>3, <1>13 DEF StateInv
  <2>2. \A v \in Thread : Suspended(k', v) => Linked(k', receivers, v) \/ Linked(k', senders, v)
    BY <1>1, <1>3, <1>8 DEF StateInv, SameWait
  <2>3. ~ Linked(k', receivers, Server)
    BY <1>2, <1>5, <1>6, <1>8 DEF SameWait
  <2> QED
    BY <2>1, <2>2, <2>3, <1>10 DEF StateInv
<1>21. HandInv'
  BY <1>10 DEF HandInv
<1>22. QueueInv'
  <2>1. k.list[senders] \in Seq(Thread) /\ NoRepeats(k.list[senders])
        /\ Idle \notin ToSet(k.list[senders]) /\ ch.msgs \in Seq(Message)
    BY ListFacts, Types DEF Linked
  <2>2. QueueOK(k.list[senders], ch.msgs, u, serial)
    BY <1>1, <1>3 DEF QueueInv
  <2>3. QueueOK(Without(k.list[senders], u), ch.msgs, Idle, serial)
    BY <2>1, <2>2, QueueLosesReply
  <2> QED
    BY <2>3, <1>2, <1>8, <1>10 DEF QueueInv
<1> QED
  BY <1>7, <1>14, <1>15, <1>17, <1>18, <1>19, <1>20, <1>21, <1>22, InvNext

\* The server takes the first message of a channel that is idle.
LEMMA TakesFacts ==
    ASSUME ChannelInv, ReceiveTakes(Server)
    PROVE  /\ k.cur = Server /\ pc[Server] = "run" /\ Server \in Thread /\ ~ Closing
           /\ StateInv /\ QueueInv /\ ch.stat = "IDLE" /\ ch.reply = Idle /\ ch.msgs # <<>>
           /\ pool' \in PoolType /\ pool'.free = pool.free + 1 /\ pool'.lost = pool.lost
           /\ Len(Tail(ch.msgs)) = Len(ch.msgs) - 1 /\ Tail(ch.msgs) \in Seq(Message)
           /\ Head(ch.msgs) \in Message
           /\ pc' = pc /\ open' = open /\ msg_ret' = msg_ret /\ wakeup' = wakeup
           /\ serial' = serial
<1>1. /\ k.cur = Server /\ pc[Server] = "run" /\ Server \in Thread
      /\ ch.stat = "IDLE" /\ ch.msgs # <<>> /\ pool' = Free
      /\ pc' = pc /\ open' = open /\ msg_ret' = msg_ret /\ wakeup' = wakeup
      /\ serial' = serial
  BY ChannelQueues DEF ReceiveTakes, Calls, At
<1>2. ~ Closing /\ StateInv /\ QueueInv
  BY <1>1, NotClosing, InvFacts
<1>3. ch.reply = Idle
  BY <1>1, <1>2 DEF StateInv
<1>4. /\ Len(Tail(ch.msgs)) = Len(ch.msgs) - 1 /\ Tail(ch.msgs) \in Seq(Message)
      /\ Head(ch.msgs) \in Message /\ Len(ch.msgs) \in Nat \ {0}
  BY <1>1, Types, TailFacts
<1>5. pool' \in PoolType /\ pool'.free = pool.free + 1 /\ pool'.lost = pool.lost
  <2>1. Len(ch.msgs) + Cardinality(Held) > 0
    BY <1>4, PoolFacts
  <2> QED
    BY <2>1, <1>1, FreeFacts
<1> QED
  BY <1>1, <1>2, <1>3, <1>4, <1>5

LEMMA TakesPlainStep ==
    ASSUME ChannelInv, ReceiveTakes(Server), ~ need_reply(Head(ch.msgs))
    PROVE  ChannelInv'
<1>1. /\ k.cur = Server /\ pc[Server] = "run" /\ Server \in Thread /\ ~ Closing
      /\ StateInv /\ QueueInv /\ ch.stat = "IDLE" /\ ch.reply = Idle /\ ch.msgs # <<>>
      /\ pool' \in PoolType /\ pool'.free = pool.free + 1 /\ pool'.lost = pool.lost
      /\ Len(Tail(ch.msgs)) = Len(ch.msgs) - 1 /\ Tail(ch.msgs) \in Seq(Message)
      /\ pc' = pc /\ open' = open /\ msg_ret' = msg_ret /\ wakeup' = wakeup
      /\ serial' = serial
  BY TakesFacts
<1>2. ch' = [ch EXCEPT !.msgs = Tail(@)] /\ k' = k /\ serving' = serving
  BY DEF ReceiveTakes
<1>3. /\ ch' \in ChannelType /\ ch'.msgs = Tail(ch.msgs) /\ ch'.stat = ch.stat
      /\ ch'.reply = ch.reply
  BY <1>1, <1>2, Types DEF ChannelType
<1>4. TypeOK'
  BY <1>1, <1>2, <1>3, InvFacts, Types, TypesNext
<1>5. ~ Closing'
  BY <1>1 DEF Closing
<1>6. ASSUME NEW v \in Thread PROVE ThreadInv(v)'
  <2>1. SameWait(v) /\ SamePlace(v)
    BY <1>1, <1>2 DEF SameWait, SamePlace
  <2> QED
    BY <2>1, <1>1, <1>2, InvFacts, ThreadSame
<1>7. RunInv'
  BY <1>1, <1>2, InvFacts DEF RunInv
<1>8. MessagesAccounted'
  BY <1>1, <1>3, HeldSame, AccountedCases
<1>9. StateInv'
  BY <1>1, <1>2, <1>3 DEF StateInv
<1>10. HandInv'
  BY <1>1, <1>3 DEF HandInv
<1>11. QueueInv'
  <2>1. QueueOK(k.list[senders], Tail(ch.msgs), ch.reply, serial)
    BY <1>1, Types, QueueTakesPlain DEF QueueInv
  <2> QED
    BY <2>1, <1>1, <1>2, <1>3 DEF QueueInv
<1> QED
  BY <1>2, <1>4, <1>5, <1>6, <1>7, <1>8, <1>9, <1>10, <1>11, InvFacts, InvNext

\* A suspended thread may be in no list.
LEMMA UnlinkedSound ==
    ASSUME NEW n, Sound(n), NEW t \in Thread, Suspended(n, t), NEW r, r = rt_list_remove(n, t)
    PROVE  Sound(r)
<1>1. /\ SoundBut(r, t) /\ SameBut(n, r, t) /\ r.stat = n.stat
  BY UnlinkSound
<1>2. ThreadOK(n, t)
  BY SoundFacts
<1>3. ThreadOK(r, t)
  BY <1>1, <1>2 DEF ThreadOK, SoundBut, SameBut, Suspended, SuspendFlag
<1> QED
  BY <1>1, <1>3, SoundFacts DEF SoundBut

LEMMA TakesRequestStep ==
    ASSUME ChannelInv, ReceiveTakes(Server), need_reply(Head(ch.msgs))
    PROVE  ChannelInv'
<1>1. /\ k.cur = Server /\ pc[Server] = "run" /\ Server \in Thread /\ ~ Closing
      /\ StateInv /\ QueueInv /\ ch.stat = "IDLE" /\ ch.reply = Idle /\ ch.msgs # <<>>
      /\ pool' \in PoolType /\ pool'.free = pool.free + 1 /\ pool'.lost = pool.lost
      /\ Len(Tail(ch.msgs)) = Len(ch.msgs) - 1 /\ Tail(ch.msgs) \in Seq(Message)
      /\ Head(ch.msgs) \in Message
      /\ pc' = pc /\ open' = open /\ msg_ret' = msg_ret /\ wakeup' = wakeup
      /\ serial' = serial
  BY TakesFacts
<1>2. PICK u : u = Head(k.list[senders])
  OBVIOUS
<1>3. /\ k' = rt_list_remove(k, u) /\ serving' = Head(ch.msgs)
      /\ ch' = [stat |-> "ACTIVE", reply |-> u, msgs |-> Tail(ch.msgs)]
  BY <1>2 DEF ReceiveTakes
<1>4. /\ k.list[senders] \in Seq(Thread) /\ NoRepeats(k.list[senders])
      /\ ch.reply \notin ToSet(k.list[senders]) /\ ch.msgs \in Seq(Message)
  BY <1>1, ListFacts, Types DEF Linked
<1>5. /\ k.list[senders] # <<>> /\ u = Sender(Head(ch.msgs)) /\ Head(ch.msgs)[2] = serial[u]
      /\ QueueOK(Without(k.list[senders], u), Tail(ch.msgs), u, serial)
  BY <1>1, <1>2, <1>4, QueueTakesRequest DEF QueueInv
<1>6. Linked(k, senders, u)
  BY <1>2, <1>4, <1>5, HeadInList DEF Linked
<1>7. /\ u \in Clients /\ Suspended(k, u) /\ u \in Thread /\ u # Idle /\ u # Server
      /\ pc[u] \in Sends /\ ~ Linked(k, receivers, u)
  BY <1>6, ListFacts, ChannelQueues, InvFacts DEF ThreadInv
<1>8. Sound(k) /\ k \in KernelState
  BY InvFacts
<1>9. Sound(k')
  BY <1>3, <1>7, <1>8, UnlinkedSound
<1>10. /\ \A l \in Prio \cup Queue : k'.list[l] = Without(k.list[l], u)
       /\ k'.stat = k.stat /\ k'.err = k.err /\ k'.cur = k.cur /\ k'.lock = k.lock
  BY <1>3, <1>7, <1>8, RemoveFrame
<1>11. /\ k'.list[senders] = Without(k.list[senders], u)
       /\ \A v : Linked(k', senders, v) <=> Linked(k, senders, v) /\ v # u
       /\ \A v : Linked(k', receivers, v) <=> Linked(k, receivers, v)
       /\ \A v \in Thread : Suspended(k', v) <=> Suspended(k, v)
  <2>1. k.list[receivers] \in Seq(Thread) /\ NoRepeats(k.list[receivers])
    BY ListFacts
  <2>2. /\ k'.list[senders] = Without(k.list[senders], u)
        /\ k'.list[receivers] = Without(k.list[receivers], u)
    BY <1>10, ChannelQueues
  <2>3. /\ ToSet(k'.list[senders]) = ToSet(k.list[senders]) \ {u}
        /\ ToSet(k'.list[receivers]) = ToSet(k.list[receivers]) \ {u}
    BY <2>1, <2>2, <1>4, WithoutList
  <2> QED
    BY <2>2, <2>3, <1>7, <1>10 DEF Linked, Suspended
<1>12. /\ ch' \in ChannelType /\ ch'.msgs = Tail(ch.msgs) /\ ch'.stat = "ACTIVE"
       /\ ch'.reply = u
  BY <1>1, <1>3, <1>7 DEF ChannelType
<1>13. TypeOK'
  BY <1>1, <1>3, <1>9, <1>12, InvFacts, Types, TypesNext
<1>14. ~ Closing'
  BY <1>1 DEF Closing
<1>15. ThreadInv(u)'
  <2>1. ThreadInv(u)
    BY <1>7, InvFacts
  <2>2. Delivered(u)' <=> Delivered(u)
    BY <1>1, <1>7, <1>10, <1>11 DEF Delivered
  <2> QED
    BY <2>1, <2>2, <1>1, <1>7, <1>10, <1>11 DEF ThreadInv
<1>16. ASSUME NEW v \in Thread PROVE ThreadInv(v)'
  <2>1. CASE v = u
    BY <2>1, <1>15
  <2>2. CASE v # u
    <3>1. SameWait(v) /\ SamePlace(v)
      BY <2>2, <1>1, <1>11 DEF SameWait, SamePlace
    <3> QED
      BY <3>1, <2>2, <1>1, <1>10, InvFacts, ThreadSame
  <2> QED
    BY <2>1, <2>2
<1>17. RunInv'
  BY <1>1, <1>10, InvFacts DEF RunInv, Suspended
<1>18. MessagesAccounted'
  BY <1>1, <1>12, HeldSame, AccountedCases
<1>19. StateInv'
  <2>1. ~ Linked(k', receivers, Server)
    BY <1>1, <1>11 DEF StateInv
  <2>2. \A v \in Thread : wakeup'[v] # "sender_wait_reply"
    <3>1. wakeup[Idle] = "none"
      BY ChannelQueues, WaitingFacts, InvFacts DEF ThreadInv
    <3> QED
      BY <3>1, <1>1 DEF StateInv
  <2>3. \A v \in Thread : Suspended(k', v) =>
            Linked(k', receivers, v) \/ Linked(k', senders, v) \/ v = u
    <3>1. ~ Suspended(k, Idle)
      BY ChannelQueues, WaitingFacts
    <3> QED
      BY <3>1, <1>1, <1>11 DEF StateInv
  <2>4. Suspended(k', u) /\ pc'[u] \in Sends
    BY <1>1, <1>7, <1>11
  <2> QED
    BY <2>1, <2>2, <2>3, <2>4, <1>7, <1>12 DEF StateInv
<1>20. HandInv'
  <2>1. InHand' = Head(ch.msgs)
    BY <1>1, <1>3, Places DEF InHand
  <2>2. Head(ch.msgs) = <<u, serial[u]>>
    <3>1. Head(ch.msgs) \in Request
      BY <1>1 DEF Message, need_reply
    <3>2. PICK a \in App, b \in {0, 1} : Head(ch.msgs) = <<a, b>>
      BY <3>1 DEF Request
    <3> QED
      BY <3>2, <1>5 DEF Sender
  <2> QED
    BY <2>1, <2>2, <1>1, <1>12 DEF HandInv
<1>21. QueueInv'
  BY <1>1, <1>5, <1>11, <1>12 DEF QueueInv
<1> QED
  BY <1>9, <1>13, <1>14, <1>16, <1>17, <1>18, <1>19, <1>20, <1>21, InvNext

-----------------------------------------------------------------------------
(* The last close *)

LEMMA LastCloseStep ==
    ASSUME ChannelInv, NEW t \in App, Close(t), open' = {}
    PROVE  ChannelInv'
<1>1. /\ t \in Thread /\ k.cur = t /\ pc[t] = "run" /\ Goto(t, "closing") /\ k' = k
      /\ ch.reply # Idle => Linked(k, senders, ch.reply)
      /\ ch' = ch /\ pool' = pool /\ msg_ret' = msg_ret /\ wakeup' = wakeup
      /\ serial' = serial /\ serving' = serving
  BY DEF Close, Calls, At, App
<1>2. ~ Closing /\ StateInv
  BY <1>1, NotClosing, InvFacts
<1>3. pc'[t] = "closing" /\ \A u \in Thread \ {t} : pc'[u] = pc[u]
  BY <1>1, Types DEF Goto
<1>4. TypeOK'
  BY <1>1, InvFacts, Types, TypesNext, Places DEF Goto
<1>5. Closing'
  BY <1>1, <1>3 DEF Closing
<1>6. ASSUME NEW u \in Thread PROVE ThreadInv(u)'
  <2>1. SameWait(u) /\ SamePlace(u)
    BY <1>1, <1>3, Places DEF SameWait, SamePlace
  <2> QED
    BY <2>1, <1>1, InvFacts, ThreadSame
<1>7. RunInv'
  <2>1. ~ Suspended(k, t)
    BY <1>1, RunningFacts, Places
  <2>2. \A u \in Thread \ {t} : pc'[u] # "closing"
    BY <1>2, <1>3 DEF Closing
  <2> QED
    BY <2>1, <2>2, <1>1, InvFacts DEF RunInv
<1>8. CloseInv'
  <2>1. ~ Suspended(k, Idle)
    BY ChannelQueues, WaitingFacts
  <2> QED
    BY <2>1, <1>1, <1>2 DEF StateInv, CloseInv
<1>9. MessagesAccounted'
  BY <1>1, HeldSame, AccountedCases
<1> QED
  BY <1>1, <1>4, <1>5, <1>6, <1>7, <1>8, <1>9, InvFacts, InvNext

\* A round of one of the loops.
LEMMA CloseResumesStep ==
    ASSUME ChannelInv, NEW t \in App, CloseResumes(t)
    PROVE  ChannelInv'
<1>1. PICK q : q = IF k.list[receivers] # <<>> THEN receivers ELSE senders
  OBVIOUS
<1>2. PICK h : h = Head(k.list[q])
  OBVIOUS
<1>3. /\ t \in Thread /\ k.cur = t /\ pc[t] = "closing" /\ k.list[q] # <<>>
      /\ k' = rt_thread_resume([k EXCEPT !.err[h] = "ERROR"], h)
      /\ wakeup' = [wakeup EXCEPT ![h] = "none"] /\ ch' = ch /\ pool' = pool /\ open' = open
      /\ pc' = pc /\ msg_ret' = msg_ret /\ serial' = serial /\ serving' = serving
  BY <1>1, <1>2 DEF CloseResumes, At, App, ResumeAllRound
<1>4. q \in {receivers, senders}
  BY <1>1
<1>5. k.list[q] \in Seq(Thread)
  BY <1>4, ListFacts
<1>6. Linked(k, q, h) /\ h \in Thread
  BY <1>2, <1>3, <1>5, HeadInList DEF Linked
<1>7. Suspended(k, h)
  BY <1>4, <1>6, ListFacts
<1>8. Sound(k) /\ RunInv /\ "ERROR" \in Error
  BY InvFacts DEF Error
<1>9. Sound(k') /\ Wakes(k, k', h) /\ k'.err[h] = "ERROR" /\ k'.cur = k.cur
  BY <1>3, <1>6, <1>7, <1>8, WakeFrame, WakeSound
<1>10. /\ \A u \in Thread \ {h} : SameWait(u) /\ k'.err[u] = k.err[u]
       /\ ~ Suspended(k', h) /\ ~ Linked(k', receivers, h) /\ ~ Linked(k', senders, h)
       /\ \A u \in Thread : Suspended(k', u) => Suspended(k, u)
       /\ k'.lock = 0
  BY <1>6, <1>9, WokenFacts
<1>11. /\ wakeup'[h] = "none" /\ \A u \in Thread \ {h} : wakeup'[u] = wakeup[u]
       /\ wakeup' \in [Thread -> WakeupType]
  BY <1>3, <1>6, Types DEF WakeupType
<1>12. TypeOK'
  BY <1>3, <1>9, <1>11, InvFacts, Types, TypesNext
<1>13. Closing /\ Closing'
  BY <1>3 DEF Closing
<1>14. ThreadInv(h)'
  <2>1. pc[h] \in Sends \cup Receives /\ msg_ret[h] = NoMsg /\ ThreadInv(h)
    BY <1>6, <1>7, WaitingFacts, InvFacts
  <2>2. pc[h] # "replied"
    BY <2>1, Places
  <2>3. ~ Delivered(h)'
    BY <2>2, <1>3, <1>9 DEF Delivered
  <2> QED
    BY <2>1, <2>2, <2>3, <1>3, <1>10, <1>11 DEF ThreadInv
<1>15. ASSUME NEW u \in Thread PROVE ThreadInv(u)'
  <2>1. CASE u = h
    BY <2>1, <1>14
  <2>2. CASE u # h
    <3>1. SamePlace(u)
      BY <1>3 DEF SamePlace
    <3> QED
      BY <3>1, <2>2, <1>3, <1>10, <1>11, InvFacts, ThreadSame
  <2> QED
    BY <2>1, <2>2
<1>16. RunInv'
  <2>1. Suspended(k', k'.cur) => pc'[k'.cur] \in {"sending", "receiving"}
    BY <1>3, <1>8, <1>9, <1>10 DEF RunInv
  <2> QED
    BY <2>1, <1>3, <1>8, <1>9, <1>10 DEF RunInv
<1>17. CloseInv'
  BY <1>10, <1>13, InvFacts DEF CloseInv, SameWait
<1>18. MessagesAccounted'
  BY <1>3, HeldSame, AccountedCases
<1> QED
  BY <1>9, <1>12, <1>13, <1>15, <1>16, <1>17, <1>18, InvNext

LEMMA CloseEndsStep ==
    ASSUME ChannelInv, NEW t \in App, CloseEnds(t)
    PROVE  ChannelInv'
<1>1. /\ t \in Thread /\ k.cur = t /\ pc[t] = "closing" /\ k' = k
      /\ k.list[receivers] = <<>> /\ k.list[senders] = <<>> /\ ch' = Fresh
      /\ pool' = [pool EXCEPT !.lost = @ + Len(ch.msgs)] /\ Goto(t, "run")
      /\ open' = open /\ msg_ret' = msg_ret /\ wakeup' = wakeup /\ serial' = serial
      /\ serving' = serving
  BY DEF CloseEnds, At, App
<1>2. Closing /\ CloseInv /\ RunInv
  BY <1>1, InvFacts DEF Closing
<1>3. pc'[t] = "run" /\ \A u \in Thread \ {t} : pc'[u] = pc[u]
  BY <1>1, Types DEF Goto
<1>4. ~ Closing'
  BY <1>1, <1>2, <1>3 DEF Closing, RunInv
<1>5. /\ ToSet(k.list[receivers]) = {} /\ ToSet(k.list[senders]) = {}
  BY <1>1, ListFacts, EmptyList
<1>6. \A u : ~ Linked(k, receivers, u) /\ ~ Linked(k, senders, u)
  BY <1>5 DEF Linked
<1>7. \A u \in Thread : ~ Suspended(k, u)
  BY <1>2, <1>6 DEF CloseInv
<1>8. /\ ch' \in ChannelType /\ ch'.msgs = <<>> /\ ch'.stat = "IDLE" /\ ch'.reply = Idle
  BY <1>1, ChannelQueues DEF Fresh, ChannelType
<1>9. /\ pool' \in PoolType /\ pool'.free = pool.free /\ pool'.lost = pool.lost + Len(ch.msgs)
  <2>1. pool \in PoolType
    BY Types
  <2>2. pool.lost + Len(ch.msgs) \in 0 .. PoolSize
    BY PoolFacts
  <2> QED
    BY <2>1, <2>2, <1>1 DEF PoolType
<1>10. TypeOK'
  BY <1>1, <1>8, <1>9, InvFacts, Types, TypesNext, Places DEF Goto
<1>11. ASSUME NEW u \in Thread PROVE ThreadInv(u)'
  <2>1. SameWait(u) /\ SamePlace(u)
    BY <1>1, <1>3, Places DEF SameWait, SamePlace
  <2> QED
    BY <2>1, <1>1, InvFacts, ThreadSame
<1>12. RunInv'
  <2>1. k'.lock = 0 /\ k'.cur \in Thread
    BY <1>1, InvFacts
  <2> QED
    BY <2>1, <1>1, <1>4, <1>7 DEF RunInv, Closing
<1>13. MessagesAccounted'
  <2>1. Cardinality(Held') = Cardinality(Held) /\ Len(ch'.msgs) = 0
    BY <1>1, <1>8, HeldSame
  <2>2. pool'.free + pool'.lost + Len(ch'.msgs) + Cardinality(Held') = PoolSize
    BY <2>1, <1>9, PoolFacts
  <2> QED
    BY <2>2, AccountedNext
<1>14. StateInv'
  <2>1. \A u \in Thread : wakeup'[u] = "none"
    BY <1>1, <1>7, InvFacts DEF ThreadInv
  <2> QED
    BY <2>1, <1>1, <1>6, <1>7, <1>8 DEF StateInv
<1>15. HandInv'
  BY <1>8 DEF HandInv
<1>16. QueueInv'
  <2>1. QueueOK(k.list[senders], <<>>, Idle, serial)
    BY <1>5 DEF QueueOK
  <2> QED
    BY <2>1, <1>1, <1>8 DEF QueueInv
<1> QED
  BY <1>1, <1>4, <1>10, <1>11, <1>12, <1>13, <1>14, <1>15, <1>16, InvFacts, InvNext

-----------------------------------------------------------------------------
(* The invariant *)

LEMMA InitHolds ==
    ASSUME Init
    PROVE  ChannelInv
<1>1. PICK main \in App : k = KernelStart(main)
  BY DEF Init
<1>2. /\ ch = Fresh /\ pool = [free |-> PoolSize, lost |-> 0] /\ open = {}
      /\ pc = [t \in Thread |-> "run"] /\ msg_ret = [t \in Thread |-> NoMsg]
      /\ wakeup = [t \in Thread |-> "none"] /\ serial = [t \in App |-> 0] /\ serving = Plain
  BY DEF Init
<1>3. Sound(k) /\ \A q \in Queue : \A u : ~ Linked(k, q, u)
  BY <1>1, KernelStartSound
<1>4. \A u : ~ Linked(k, receivers, u) /\ ~ Linked(k, senders, u)
  BY <1>3, ChannelQueues
<1>5. k.lock = 0 /\ k.cur \in Thread /\ \A u \in Thread : ~ Suspended(k, u)
  BY <1>1 DEF KernelStart, App, Suspended, SuspendFlag
<1>6. ch.stat = "IDLE" /\ ch.reply = Idle /\ ch.msgs = <<>>
  BY <1>2 DEF Fresh
<1>7. TypeOK
  <2>1. ch \in [stat : {"IDLE", "WAIT", "ACTIVE"}, reply : Thread, msgs : Seq(Message)]
    BY <1>2, ChannelQueues DEF Fresh
  <2>2. pool \in [free : 0 .. PoolSize, lost : 0 .. PoolSize]
    BY <1>2, ChannelAssumption
  <2>3. /\ pc \in [Thread -> Location] /\ msg_ret \in [Thread -> Message \cup {NoMsg}]
        /\ wakeup \in [Thread -> {"none", "sender_wait_recv", "sender_wait_reply", "receiver"}]
        /\ serial \in [App -> {0, 1}] /\ serving \in Message /\ open \subseteq Holder
    BY <1>2 DEF Location, Message
  <2> QED
    BY <2>1, <2>2, <2>3, <1>3 DEF TypeOK, Sound
<1>8. \A u \in Thread : pc[u] = "run" /\ msg_ret[u] = NoMsg /\ wakeup[u] = "none"
  BY <1>2
<1>9. \A u \in Thread : ThreadInv(u)
  BY <1>4, <1>5, <1>8, Places DEF ThreadInv, Delivered
<1>10. RunInv /\ ~ Closing
  BY <1>5, <1>8 DEF RunInv, Closing
<1>11. StateInv /\ HandInv
  BY <1>4, <1>5, <1>6, <1>8 DEF StateInv, HandInv
<1>12. QueueInv
  <2>1. ToSet(k.list[senders]) = {}
    BY <1>4 DEF Linked
  <2>2. QueueOK(k.list[senders], <<>>, Idle, serial)
    BY <2>1 DEF QueueOK
  <2> QED
    BY <2>2, <1>6 DEF QueueInv
<1>13. MessagesAccounted
  <2>1. {t \in Thread : msg_ret[t] # NoMsg} = {}
    BY <1>8
  <2>2. Cardinality({t \in Thread : msg_ret[t] # NoMsg}) = 0
    BY <2>1, FS_EmptySet
  <2>3. pool.free = PoolSize /\ pool.lost = 0 /\ Len(ch.msgs) = 0 /\ PoolSize \in Nat
    BY <1>2, <1>6, ChannelAssumption
  <2> QED
    BY <2>2, <2>3 DEF MessagesAccounted
<1> QED
  BY <1>3, <1>7, <1>9, <1>10, <1>11, <1>12, <1>13 DEF ChannelInv, OpenInv, Sound

LEMMA StutterKeeps ==
    ASSUME ChannelInv, UNCHANGED vars
    PROVE  ChannelInv'
  BY DEF ChannelInv, vars, TypeOK, ThreadInv, Delivered, RunInv, Closing, CloseInv, OpenInv,
     StateInv, HandInv, InHand, QueueInv, MessagesAccounted

LEMMA StepKeeps ==
    ASSUME ChannelInv, Next
    PROVE  ChannelInv'
<1>1. CASE \E t \in Clients : Client(t)
  <2>1. PICK t \in Clients : Client(t)
    BY <1>1
  <2>2. CASE \E time \in Time :
            RequestQueues(t, time) \/ RequestHandsOver(t, time) \/ RequestInterrupted(t, time)
    BY <2>2, RequestQueuesStep, RequestHandsOverStep, InterruptedStep
  <2>3. CASE RequestSchedules(t)
    <3>1. /\ t \in Thread /\ k' = rt_schedule(k) /\ open' = open /\ Goto(t, "sent")
          /\ At(t, "sending") /\ UNCHANGED <<ch, pool, msg_ret, wakeup, serial, serving>>
      BY <2>3, ChannelQueues DEF RequestSchedules
    <3> QED
      BY <3>1, SchedulesStep
  <2> QED
    BY <2>1, <2>2, <2>3, SendStep, RequestReturnsStep, FreesReplyStep DEF Client
<1>2. CASE Serves(Server)
  <2>1. CASE \E time \in Time : ReceiveWaits(Server, time)
    BY <2>1, ReceiveWaitsStep
  <2>2. CASE ReceiveSchedules(Server)
    <3>1. /\ Server \in Thread /\ k' = rt_schedule(k) /\ open' = open
          /\ Goto(Server, "received") /\ At(Server, "receiving")
          /\ UNCHANGED <<ch, pool, msg_ret, wakeup, serial, serving>>
      BY <2>2, ChannelQueues DEF ReceiveSchedules
    <3> QED
      BY <3>1, SchedulesStep
  <2> QED
    BY <2>1, <2>2, <1>2, ReplyStep, TakesPlainStep, TakesRequestStep, ReceiveReturnsStep
       DEF Serves
<1>3. CASE \E t \in App : Others(t)
  <2>1. PICK t \in App : Others(t)
    BY <1>3
  <2>2. CASE Close(t)
    BY <2>2, OpenStep, LastCloseStep
  <2>3. CASE Reschedule(t)
    <3>1. /\ t \in Thread /\ k' = rt_schedule(k) /\ open' = open /\ Goto(t, "run")
          /\ At(t, "resched") /\ UNCHANGED <<ch, pool, msg_ret, wakeup, serial, serving>>
      BY <2>3 DEF Reschedule, App
    <3> QED
      BY <3>1, SchedulesStep
  <2>4. CASE \E u \in App : Startup(t, u)
    BY <2>4, StartupStep
  <2>5. CASE \E u \in Process, s \in Sig : Kill(t, u, s)
    BY <2>5, KillStep
  <2> QED
    BY <2>1, <2>2, <2>3, <2>4, <2>5, OpenStep, CloseResumesStep, CloseEndsStep, DeliverStep
       DEF Others
<1>4. CASE Interrupt
  BY <1>4, HandlerSendsStep, TimeSliceStep, ThreadTimerStep DEF Interrupt
<1> QED
  BY <1>1, <1>2, <1>3, <1>4 DEF Next

\* Who waits, what the channel says about it, which message is where: the
\* invariant from which the theorems below follow.
THEOREM ChannelInvariant == Spec => []ChannelInv
<1>1. Init => ChannelInv
  BY InitHolds
<1>2. ChannelInv /\ [Next]_vars => ChannelInv'
  BY StepKeeps, StutterKeeps
<1> QED
  BY <1>1, <1>2, PTL DEF Spec

\* The ready table, the lists of the channel and the thread states agree, whatever
\* ends a wait in lwp_ipc.c, and the variables have their types.
THEOREM ChannelKernel == Spec => []KernelInv
<1>1. ChannelInv => KernelInv
  BY DEF ChannelInv, KernelInv
<1> QED
  BY <1>1, ChannelInvariant, PTL

\* ch->stat and ch->reply tell the truth about who waits, so that the assertions of
\* lwp_ipc.c hold, with any number of clients and messages.
THEOREM ChannelStateMatchesWaiters == Spec => []StateMatchesWaiters
<1>1. ASSUME ChannelInv PROVE StateMatchesWaiters
  <2>1. SUFFICES ASSUME ~ Closing
                 PROVE  /\ ch.stat = "WAIT" <=> k.list[receivers] # <<>>
                        /\ ch.stat = "WAIT" => ch.msgs = <<>> /\ Len(k.list[receivers]) = 1
                        /\ ch.stat = "ACTIVE" <=> ch.reply # Idle
                        /\ ch.reply # Idle => Suspended(k, ch.reply)
                        /\ \A t \in Thread : wakeup[t] = "sender_wait_reply" => ch.reply = t
    BY DEF StateMatchesWaiters
  <2>2. StateInv
    BY <2>1, <1>1, InvFacts
  <2>3. PICK L : L = k.list[receivers]
    OBVIOUS
  <2>4. /\ L \in Seq(Thread) /\ NoRepeats(L) /\ \A u \in ToSet(L) : u = Server
        /\ L = <<>> <=> ~ Linked(k, receivers, Server)
    BY <2>3, <1>1, ListFacts DEF Linked
  <2>5. ASSUME L # <<>> PROVE Len(L) = 1
    <3>1. Len(L) \in Nat \ {0} /\ DOMAIN L = 1 .. Len(L)
      BY <2>4, <2>5
    <3>2. SUFFICES ASSUME Len(L) # 1 PROVE FALSE
      OBVIOUS
    <3>3. 1 \in 1 .. Len(L) /\ 2 \in 1 .. Len(L)
      BY <3>1, <3>2
    <3>4. L[1] = Server /\ L[2] = Server
      BY <3>1, <3>3, <2>4 DEF ToSet
    <3> QED
      BY <3>3, <3>4, <2>4 DEF NoRepeats
  <2> QED
    BY <2>2, <2>3, <2>4, <2>5 DEF StateInv
<1> QED
  BY <1>1, ChannelInvariant, PTL

\* A sender that will return RT_EOK holds the reply to the request it has sent
\* last, and a receiver that has been woken for a message holds one.
THEOREM ChannelReplyIsMine == Spec => []ReplyIsMine
<1>1. ASSUME ChannelInv PROVE ReplyIsMine
  <2>1. SUFFICES ASSUME NEW t \in App
                 PROVE  /\ (/\ pc[t] \in {"sending", "sent"} /\ ~ Suspended(k, t)
                            /\ k.err[t] = "EOK") => msg_ret[t] = <<t, serial[t]>>
                        /\ (/\ pc[t] \in {"receiving", "received"} /\ ~ Suspended(k, t)
                            /\ k.err[t] = "EOK") => msg_ret[t] # NoMsg
    BY DEF ReplyIsMine
  <2>2. ThreadInv(t)
    BY <1>1, InvFacts DEF App
  <2> QED
    BY <2>2 DEF ThreadInv, Delivered, Sends, Receives
<1> QED
  BY <1>1, ChannelInvariant, PTL

\* No timeout, signal or failed call loses a message of the pool or frees one twice.
THEOREM ChannelMessagesAccounted == Spec => []MessagesAccounted
<1>1. ChannelInv => MessagesAccounted
  BY DEF ChannelInv
<1> QED
  BY <1>1, ChannelInvariant, PTL

\* The places of the requests among the messages M, and what QueuedSendersInOrder
\* says of them and the threads W.
Requests(M) == {n \in DOMAIN M : need_reply(M[n])}

InStep(W, M) ==
    \E place \in [DOMAIN W -> Requests(M)] :
        /\ \A i, j \in DOMAIN W : i < j => place[i] < place[j]
        /\ \A n \in Requests(M) : \E i \in DOMAIN W : place[i] = n
        /\ \A i \in DOMAIN W : Sender(M[place[i]]) = W[i]

\* Two queues that agree can be matched place by place.
LEMMA QueuesMatch ==
    ASSUME NEW L \in Seq(Thread), NoRepeats(L), NEW M \in Seq(Message), NEW r, NEW f,
           QueueOK(L, M, r, f)
    PROVE  InStep(Without(L, r), M)
<1> DEFINE W == Without(L, r)
           R == Requests(M)
<1> HIDE DEF W, R
<1>1. W \in Seq(Thread) /\ NoRepeats(W) /\ ToSet(W) = ToSet(L) \ {r}
  BY WithoutList DEF W
<1>2. /\ DOMAIN M = 1 .. Len(M) /\ Len(M) \in Nat
      /\ DOMAIN W = 1 .. Len(W) /\ Len(W) \in Nat
  BY <1>1
<1>3. /\ \A i \in DOMAIN W : W[i] \in ToSet(L) \ {r}
      /\ \A t \in ToSet(L) \ {r} : \E i \in DOMAIN W : W[i] = t
  BY <1>1 DEF ToSet
<1>4. \A n \in R : n \in 1 .. Len(M) /\ need_reply(M[n]) /\ Sender(M[n]) \in ToSet(L) \ {r}
  BY <1>2 DEF QueueOK, R, Requests
<1>5. \A i \in DOMAIN W : \E n \in R : Sender(M[n]) = W[i]
  BY <1>2, <1>3 DEF QueueOK, R, Requests
<1>6. \A m, n \in R : m < n => Before(L, Sender(M[m]), Sender(M[n]))
  BY <1>4 DEF QueueOK
<1>7. \A m, n \in R : m < n => Before(W, Sender(M[m]), Sender(M[n]))
  <2>1. SUFFICES ASSUME NEW m \in R, NEW n \in R, m < n
                 PROVE  Before(W, Sender(M[m]), Sender(M[n]))
    OBVIOUS
  <2>2. Sender(M[m]) # r /\ Sender(M[n]) # r
    BY <1>4
  <2> QED
    BY <2>1, <2>2, <1>6, BeforeWithout DEF W
<1>8. ASSUME NEW m \in R, NEW n \in R, NEW i \in DOMAIN W, NEW j \in DOMAIN W,
             Sender(M[m]) = W[i], Sender(M[n]) = W[j]
      PROVE  m < n => i < j
  <2>1. SUFFICES ASSUME m < n PROVE i < j
    OBVIOUS
  <2>2. PICK p \in 1 .. Len(W), q \in 1 .. Len(W) : p < q /\ W[p] = W[i] /\ W[q] = W[j]
    BY <2>1, <1>7, <1>8 DEF Before
  <2>3. p = i /\ q = j
    BY <2>2, <1>1, <1>2 DEF NoRepeats
  <2> QED
    BY <2>2, <2>3
<1>9. \A n \in R : n \in Nat
  BY <1>4
<1>10. PICK place \in [DOMAIN W -> R] :
          place = [i \in DOMAIN W |-> CHOOSE n \in R : Sender(M[n]) = W[i]]
  BY <1>5
<1>11. \A i \in DOMAIN W : place[i] \in R /\ Sender(M[place[i]]) = W[i]
  BY <1>5, <1>10
<1>12. \A m, n \in R : Sender(M[m]) = Sender(M[n]) => m = n
  <2>1. SUFFICES ASSUME NEW m \in R, NEW n \in R, Sender(M[m]) = Sender(M[n]) PROVE m = n
    OBVIOUS
  <2>2. ~ Before(W, Sender(M[m]), Sender(M[m]))
    BY <1>1, BeforeIsStrict
  <2>3. ~ (m < n) /\ ~ (n < m)
    BY <2>1, <2>2, <1>7
  <2> QED
    BY <2>3, <1>9
<1>13. \A i, j \in DOMAIN W : i < j => place[i] < place[j]
  <2>1. SUFFICES ASSUME NEW i \in DOMAIN W, NEW j \in DOMAIN W, i < j
                 PROVE  place[i] < place[j]
    OBVIOUS
  <2>2. W[i] # W[j]
    BY <2>1, <1>1, <1>2 DEF NoRepeats
  <2>3. place[i] # place[j]
    BY <2>2, <1>11
  <2>4. ~ (place[j] < place[i])
    BY <2>1, <1>2, <1>8, <1>11
  <2>5. place[i] \in Nat /\ place[j] \in Nat
    BY <1>9, <1>11
  <2> QED
    BY <2>3, <2>4, <2>5
<1>14. ASSUME NEW n \in R PROVE \E i \in DOMAIN W : place[i] = n
  <2>1. PICK i \in DOMAIN W : W[i] = Sender(M[n])
    BY <1>3, <1>4
  <2> QED
    BY <2>1, <1>11, <1>12
<1> QED
  BY <1>11, <1>13, <1>14 DEF InStep, W, R

\* Outside a close the requests on wait_msg and the threads on wait_thread, but for
\* the one that waits for the reply, are the same and in the same order: the
\* receiver takes the sender of the message it takes.
THEOREM ChannelSendersInOrder == Spec => []QueuedSendersInOrder
<1>1. ASSUME ChannelInv PROVE QueuedSendersInOrder
  <2>1. SUFFICES ASSUME ~ Closing PROVE QueuedSendersInOrder
    BY DEF QueuedSendersInOrder
  <2>2. /\ QueueOK(k.list[senders], ch.msgs, ch.reply, serial)
        /\ k \in KernelState /\ Sound(k) /\ TypeOK
    BY <1>1, <2>1, InvFacts DEF QueueInv
  <2>3. senders \in Prio \cup Queue
    BY ChannelAssumption
  <2>4. k.list[senders] \in Seq(Thread) /\ NoRepeats(k.list[senders])
    BY <2>2, <2>3, ListTypes, SoundFacts DEF NodesLinkedOnce
  <2>5. ch.msgs \in Seq(Message)
    BY <2>2 DEF TypeOK
  <2>6. InStep(Without(k.list[senders], ch.reply), ch.msgs)
    BY <2>2, <2>4, <2>5, QueuesMatch
  <2> QED
    BY <2>6 DEF QueuedSendersInOrder, InStep, Requests
<1> QED
  BY <1>1, ChannelInvariant, PTL

=============================================================================
