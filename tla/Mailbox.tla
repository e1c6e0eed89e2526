------------------------------- MODULE Mailbox -------------------------------
(***************************************************************************)
(* A mailbox (ipc.c, RT_USING_MAILBOX): a ring of mails with a list of     *)
(* suspended receivers and one of suspended senders, used by threads and   *)
(* by an interrupt handler that sends.  Unlike a semaphore, a thread that  *)
(* is resumed has been given nothing: it tries again, and another thread   *)
(* may have been faster.                                                   *)
(*                                                                         *)
(*   run        in application code                                        *)
(*   blocking   suspended by a send or a receive, about to call            *)
(*              rt_schedule                                                *)
(*   blocked    switched out by that call; will look at thread->error and  *)
(*              then at the mailbox again                                  *)
(*   resched    about to call rt_schedule as the last thing in a call      *)
(*   reset      in the loops of RT_IPC_CMD_RESET, interrupts disabled      *)
(*   detach,    at the loop condition and in the loop body of              *)
(*   detach2    rt_ipc_list_resume_all for the receivers, called by        *)
(*              rt_mb_detach or rt_mb_delete                               *)
(*   detach3,   the same for the senders                                   *)
(*   detach4                                                               *)
(***************************************************************************)
EXTENDS Kernel

CONSTANTS
    receivers,      \* mb->parent.suspend_thread
    senders,        \* mb->suspend_sender_thread
    Mail,           \* the mails
    NoMail,         \* a slot of the pool that holds no mail
    Size,           \* mb->size
    Order,          \* RT_IPC_FLAG_FIFO or RT_IPC_FLAG_PRIO
    Time,           \* the time arguments in use: "zero", "ticks", "forever"
    Flag,           \* the suspend flags in use
    Process,        \* the threads that belong to a process (thread->lwp)
    Sig             \* the signals they may be sent

\* rt_mb_send_wait has a test for entry = RT_MB_ENTRY_MAX, which is not below any
\* size the mailbox can have.
ASSUME MailboxAssumption ==
    /\ receivers \in Queue /\ senders \in Queue /\ receivers # senders
    /\ NoMail \notin Mail
    /\ Size \in Nat \ {0}
    /\ Order \in {"FIFO", "PRIO"}
    /\ Time \subseteq {"zero", "ticks", "forever"}
    /\ Flag \subseteq SuspendFlag
    /\ Process \subseteq App
    /\ Sig \subseteq Signal

VARIABLES
    k,          \* the kernel
    mb,         \* msg_pool, in_offset, out_offset and entry
    alive,      \* the mailbox is an object threads may use
    pc,         \* where each thread is
    call,       \* the blocking call each thread is in: the list it waits in, the
                \* time left, the suspend flag and the mail to send
    done        \* the call that the last step has ended: by which thread and how;
                \* a mail if it received one

vars == <<k, mb, alive, pc, call, done>>

Location == {"run", "blocking", "blocked", "resched", "reset",
             "detach", "detach2", "detach3", "detach4"}
Detaching == {"detach", "detach2", "detach3", "detach4"}

NoCall == [list |-> receivers, time |-> "zero", flag |-> "UNINTERRUPTIBLE", mail |-> NoMail]

\* The idle thread calls no function of a mailbox.
NothingDone == [by |-> Idle, result |-> "none"]

\* rt_mb_init, rt_mb_create and RT_IPC_CMD_RESET
Empty == [pool |-> [i \in 0 .. Size - 1 |-> NoMail], in |-> 0, out |-> 0, entry |-> 0]

TypeOK ==
    /\ k \in KernelState
    /\ mb \in [pool : [0 .. Size - 1 -> Mail \cup {NoMail}],
               in : 0 .. Size - 1, out : 0 .. Size - 1, entry : 0 .. Size]
    /\ alive \in BOOLEAN
    /\ pc \in [Thread -> Location]
    /\ call \in [Thread -> [list : {receivers, senders},
                            time : {"zero", "ticks", "forever"},
                            flag : SuspendFlag, mail : Mail \cup {NoMail}]]
    /\ done \in [by : Thread, result : {"none", "EFULL"} \cup Error \cup Mail]

Init ==
    /\ \E main \in App : k = KernelStart(main)
    /\ mb = Empty
    /\ alive = TRUE
    /\ pc = [t \in Thread |-> "run"]
    /\ call = [t \in Thread |-> NoCall]
    /\ done = NothingDone

Waiters(q) == ToSet(k.list[q])

At(t, l) == k.cur = t /\ pc[t] = l
Goto(t, l) == pc' = [pc EXCEPT ![t] = l]
Ends(t, r) == done' = [by |-> t, result |-> r]
SetError(s, t, e) == [s EXCEPT !.err[t] = e]

\* Application code of t calls a function of the mailbox.
Calls(t) == t \in App /\ At(t, "run") /\ alive

\* t has been resumed by the other side and goes round the loop again.
TriesAgain(t, q) == At(t, "blocked") /\ call[t].list = q /\ k.err[t] = "EOK"

\* "re-calculate timeout tick"
TimeLeft(t) == IF call[t].time = "ticks" THEN {"ticks", "zero"} ELSE {call[t].time}

-----------------------------------------------------------------------------
(* What is common to _rt_mb_send_wait and _rt_mb_recv. *)

\* The loop body: the thread suspends itself ...
Blocks(t, q, time, flag, m) ==
    LET u == rt_ipc_list_suspend(SetError(k, t, "EINTR"), q, t, Order, flag)
    IN /\ time # "zero"
       /\ MaySuspend(k, t, flag)
       /\ k' = IF time = "ticks" THEN StartThreadTimer(u, t) ELSE u
       /\ call' = [call EXCEPT ![t] = [list |-> q, time |-> time, flag |-> flag, mail |-> m]]
       /\ done' = NothingDone
       /\ Goto(t, "blocking")
       /\ UNCHANGED <<mb, alive>>

\* ... or may not, because of a signal.
Interrupted(t, time, flag) ==
    /\ time # "zero"
    /\ ~ MaySuspend(k, t, flag)
    /\ k' = SetError(k, t, "EINTR")
    /\ call' = [call EXCEPT ![t] = NoCall]
    /\ Ends(t, "EINTR")
    /\ Goto(t, "run")
    /\ UNCHANGED <<mb, alive>>

\* Mutant: only a transfer from a mailbox that was empty or full wakes.
WakesOther_AtEdge(t, q) ==
    IF Waiters(q) # {} /\ mb.entry \in {0, Size}
    THEN k' = rt_ipc_list_resume(k, q) /\ Goto(t, "resched")
    ELSE UNCHANGED k /\ Goto(t, "run")

\* After the transfer the first thread of the other list is resumed.
WakesOther(t, q) ==
    IF Waiters(q) # {}
    THEN k' = rt_ipc_list_resume(k, q) /\ Goto(t, "resched")
    ELSE UNCHANGED k /\ Goto(t, "run")

BlockedSchedules(t) ==
    /\ At(t, "blocking")
    /\ k' = rt_schedule(k)
    /\ Goto(t, "blocked")
    /\ UNCHANGED <<mb, alive, call>>
    /\ done' = NothingDone

BlockedFails(t) ==
    /\ At(t, "blocked")
    /\ k.err[t] # "EOK"
    /\ Ends(t, k.err[t])
    /\ call' = [call EXCEPT ![t] = NoCall]
    /\ Goto(t, "run")
    /\ UNCHANGED <<k, mb, alive>>

-----------------------------------------------------------------------------
(* _rt_mb_send_wait *)

NextOffset(i) == IF i + 1 >= Size THEN 0 ELSE i + 1

Put(m) == [mb EXCEPT !.pool[mb.in] = m, !.in = NextOffset(@), !.entry = @ + 1]

\* One pass of t: the mail is stored, or the mailbox is full.
SendStores(t, m) ==
    /\ mb.entry # Size
    /\ mb' = Put(m)
    /\ Ends(t, "EOK")
    /\ call' = [call EXCEPT ![t] = NoCall]
    /\ WakesOther(t, receivers)
    /\ UNCHANGED alive

\* thread->error is only touched inside the loop.
SendFull(t, time) ==
    /\ mb.entry = Size
    /\ time = "zero"
    /\ k' = IF pc[t] = "run" THEN k ELSE SetError(k, t, "EINTR")
    /\ Ends(t, "EFULL")
    /\ call' = [call EXCEPT ![t] = NoCall]
    /\ Goto(t, "run")
    /\ UNCHANGED <<mb, alive>>

SendWaits(t, m, time, flag) ==
    /\ mb.entry = Size
    /\ Blocks(t, senders, time, flag, m) \/ Interrupted(t, time, flag)

SendBegins(t, m, time, flag) ==
    /\ Calls(t)
    /\ SendStores(t, m) \/ SendFull(t, time) \/ SendWaits(t, m, time, flag)

\* Mutant: the mailbox is not looked at again.
SendAgain_Once(t) ==
    /\ TriesAgain(t, senders)
    /\ mb' = Put(call[t].mail)
    /\ Ends(t, "EOK")
    /\ call' = [call EXCEPT ![t] = NoCall]
    /\ WakesOther(t, receivers)
    /\ UNCHANGED alive

SendAgain(t) ==
    /\ TriesAgain(t, senders)
    /\ \E time \in TimeLeft(t) :
            \/ SendStores(t, call[t].mail) \/ SendFull(t, time)
            \/ SendWaits(t, call[t].mail, time, call[t].flag)

-----------------------------------------------------------------------------
(* _rt_mb_recv *)

\* The slot of a mail that has been taken is NoMail here; nothing reads it.
ReceiveTakes(t) ==
    /\ mb.entry # 0
    /\ mb' = [mb EXCEPT !.pool[mb.out] = NoMail, !.out = NextOffset(@), !.entry = @ - 1]
    /\ Ends(t, mb.pool[mb.out])
    /\ call' = [call EXCEPT ![t] = NoCall]
    /\ WakesOther(t, senders)
    /\ UNCHANGED alive

ReceiveEmpty(t, time) ==
    /\ mb.entry = 0
    /\ time = "zero"
    /\ k' = IF pc[t] = "run" THEN k ELSE SetError(k, t, "ETIMEOUT")
    /\ Ends(t, "ETIMEOUT")
    /\ call' = [call EXCEPT ![t] = NoCall]
    /\ Goto(t, "run")
    /\ UNCHANGED <<mb, alive>>

ReceiveWaits(t, time, flag) ==
    /\ mb.entry = 0
    /\ Blocks(t, receivers, time, flag, NoMail) \/ Interrupted(t, time, flag)

ReceiveBegins(t, time, flag) ==
    /\ Calls(t)
    /\ ReceiveTakes(t) \/ ReceiveEmpty(t, time) \/ ReceiveWaits(t, time, flag)

ReceiveAgain(t) ==
    /\ TriesAgain(t, receivers)
    /\ \E time \in TimeLeft(t) :
            ReceiveTakes(t) \/ ReceiveEmpty(t, time) \/ ReceiveWaits(t, time, call[t].flag)

-----------------------------------------------------------------------------
\* The call of rt_schedule that ends a call.
Reschedule(t) ==
    /\ At(t, "resched")
    /\ k' = rt_schedule(k)
    /\ Goto(t, "run")
    /\ UNCHANGED <<mb, alive, call>>
    /\ done' = NothingDone

(* rt_mb_control(mb, RT_IPC_CMD_RESET) *)

ResetBegins(t) ==
    /\ Calls(t)
    /\ Goto(t, "reset")
    /\ UNCHANGED <<k, mb, alive, call>>
    /\ done' = NothingDone

\* First the receivers, then the senders.
ResetResumes(t) ==
    /\ At(t, "reset")
    /\ Waiters(receivers) \cup Waiters(senders) # {}
    /\ k' = ResumeAllRound(k, IF Waiters(receivers) # {} THEN receivers ELSE senders)
    /\ UNCHANGED <<mb, alive, pc, call>>
    /\ done' = NothingDone

ResetEnds(t) ==
    /\ At(t, "reset")
    /\ Waiters(receivers) \cup Waiters(senders) = {}
    /\ mb' = Empty
    /\ Goto(t, "resched")
    /\ UNCHANGED <<k, alive, call>>
    /\ done' = NothingDone

-----------------------------------------------------------------------------
(* rt_mb_detach and rt_mb_delete.  Callers have agreed to stop using the   *)
(* mailbox, and no thread is on its way from a wake-up to its next look at *)
(* the mailbox: it would find the object gone.                             *)

\* The threads resumed from the list q that have not looked at the mailbox again.
Woken(q) ==
    {t \in Thread : /\ pc[t] \in {"blocking", "blocked"} /\ call[t].list = q
                    /\ t \notin Waiters(q) /\ k.err[t] = "EOK"}

DetachBegins(t) ==
    /\ Calls(t)
    /\ Woken(receivers) \cup Woken(senders) = {}
    /\ alive' = FALSE
    /\ Goto(t, "detach")
    /\ UNCHANGED <<k, mb, call>>
    /\ done' = NothingDone

\* Mutant: the senders are left alone.
DetachTests_Receivers(t) ==
    /\ At(t, "detach") /\ Goto(t, IF Waiters(receivers) = {} THEN "run" ELSE "detach2")
    /\ UNCHANGED <<k, mb, alive, call>>
    /\ done' = NothingDone

\* The two loops of rt_ipc_list_resume_all, as in module Semaphore.
DetachTests(t) ==
    /\ \/ At(t, "detach") /\ Goto(t, IF Waiters(receivers) = {} THEN "detach3" ELSE "detach2")
       \/ At(t, "detach3") /\ Goto(t, IF Waiters(senders) = {} THEN "run" ELSE "detach4")
    /\ UNCHANGED <<k, mb, alive, call>>
    /\ done' = NothingDone

DetachResumes(t, q) ==
    /\ At(t, IF q = receivers THEN "detach2" ELSE "detach4")
    /\ k' = IF Waiters(q) # {} THEN ResumeAllRound(k, q) ELSE k
    /\ Goto(t, IF q = receivers THEN "detach" ELSE "detach3")
    /\ UNCHANGED <<mb, alive, call>>
    /\ done' = NothingDone

\* rt_mb_init or rt_mb_create of the object again
Reinit(t) ==
    /\ t \in App /\ At(t, "run")
    /\ ~ alive
    /\ \A u \in Thread : pc[u] \notin Detaching
    /\ alive' = TRUE
    /\ mb' = Empty
    /\ UNCHANGED <<k, pc, call>>
    /\ done' = NothingDone

-----------------------------------------------------------------------------
(* The rest of the system, as in module Semaphore. *)

Startup(t, u) ==
    /\ t \in App /\ At(t, "run")
    /\ k.stat[u] = "INIT"
    /\ k' = rt_thread_startup(k, u)
    /\ Goto(t, "resched")
    /\ UNCHANGED <<mb, alive, call>>
    /\ done' = NothingDone

Kill(t, u, s) ==
    /\ t \in App /\ At(t, "run")
    /\ k.stat[u] # "INIT"
    /\ k' = lwp_thread_kill(k, u, s)
    /\ UNCHANGED <<mb, alive, pc, call>>
    /\ done' = NothingDone

Deliver(t) ==
    /\ t \in App /\ At(t, "run")
    /\ \E s \in k.sig[t] : k' = [k EXCEPT !.sig[t] = @ \ {s}]
    /\ UNCHANGED <<mb, alive, pc, call>>
    /\ done' = NothingDone

ThreadTimer(t) ==
    /\ t \in k.timer
    /\ k' = rt_thread_timeout(k, t)
    /\ UNCHANGED <<mb, alive, pc, call>>
    /\ done' = NothingDone

TimeSlice ==
    /\ k' = TimeSliceEnds(k)
    /\ UNCHANGED <<mb, alive, pc, call>>
    /\ done' = NothingDone

\* rt_mb_send in an interrupt handler, where rt_schedule takes effect when the
\* handler returns.
HandlerSends(m) ==
    /\ alive
    /\ mb.entry # Size
    /\ mb' = Put(m)
    /\ k' = IF Waiters(receivers) # {} THEN rt_schedule(rt_ipc_list_resume(k, receivers)) ELSE k
    /\ UNCHANGED <<alive, pc, call>>
    /\ done' = NothingDone

-----------------------------------------------------------------------------
Transfer(t) ==
    \/ \E m \in Mail, time \in Time, flag \in Flag : SendBegins(t, m, time, flag)
    \/ \E time \in Time, flag \in Flag : ReceiveBegins(t, time, flag)
    \/ SendAgain(t) \/ ReceiveAgain(t)
    \/ BlockedSchedules(t) \/ BlockedFails(t) \/ Reschedule(t)

Control(t) ==
    \/ ResetBegins(t) \/ ResetResumes(t) \/ ResetEnds(t)
    \/ DetachBegins(t) \/ DetachTests(t) \/ Reinit(t)
    \/ DetachResumes(t, receivers) \/ DetachResumes(t, senders)

Others(t) ==
    \/ \E u \in App : Startup(t, u)
    \/ \E u \in Process, s \in Sig : Kill(t, u, s)
    \/ Deliver(t)

Interrupt ==
    /\ pc[k.cur] # "reset"
    /\ \/ \E m \in Mail : HandlerSends(m)
       \/ TimeSlice
       \/ \E t \in App : ThreadTimer(t)

Next == (\E t \in App : Transfer(t) \/ Control(t) \/ Others(t)) \/ Interrupt

Spec == Init /\ [][Next]_vars

-----------------------------------------------------------------------------
(* Properties *)

\* The variables have their types, and the ready table, its bitmap, the two
\* suspend lists and the thread states agree.
KernelInv == TypeOK /\ KernelOK(k)

\* Nobody is forgotten: while receivers wait, every mail in the mailbox has a
\* receiver that has been woken for it, and while senders wait every free slot
\* has a sender, although a woken thread may find that another one was faster
\* (the loops of _rt_mb_recv and _rt_mb_send_wait).
NobodyForgotten ==
    /\ Waiters(receivers) # {} => mb.entry <= Cardinality(Woken(receivers))
    /\ Waiters(senders) # {} => Size - mb.entry <= Cardinality(Woken(senders))

\* A mailbox that has been detached has no waiters (rt_mb_detach).
DetachedIsEmpty ==
    ~ alive /\ (\A u \in Thread : pc[u] \notin Detaching)
        => Waiters(receivers) \cup Waiters(senders) = {}

\* The mails from out_offset on, in the order of the ring.
Contents == [i \in 1 .. mb.entry |-> mb.pool[(mb.out + i - 1) % Size]]

\* Mails arrive once and in the order they were sent, whoever waits, times out or
\* is interrupted; a call that fails has neither sent nor taken a mail.
Abstract == INSTANCE AbstractMailbox
                WITH Caller <- Thread, Nobody <- Idle, Capacity <- Size, queue <- Contents
ImplementsAbstract == Abstract!Spec
=============================================================================
