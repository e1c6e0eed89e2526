-------------------------------- MODULE Event --------------------------------
(***************************************************************************)
(* An event object (ipc.c, RT_USING_EVENT): a set of flags.  A thread      *)
(* waits for all of some flags or for one of them, and may ask that the    *)
(* flags it gets are cleared.  A send sets flags and goes through the      *)
(* waiters in the order of the list.                                       *)
(***************************************************************************)
EXTENDS Calls

CONSTANTS
    event,          \* event->parent.suspend_thread, and the object
    EventFlag,      \* the flags in use
    Option          \* the options in use, of "AND", "OR", "AND_CLEAR", "OR_CLEAR"

ASSUME EventAssumption ==
    /\ event \in Queue /\ Following[event] = event
    /\ Option \subseteq {"AND", "OR", "AND_CLEAR", "OR_CLEAR"}

VARIABLES
    set,            \* event->set
    want            \* thread->event_set and thread->event_info

eventvars == <<set, want>>

NoWant == [set |-> {}, option |-> "OR"]

EventTypeOK ==
    /\ set \subseteq EventFlag
    /\ want \in [Thread -> [set : SUBSET EventFlag,
                            option : {"AND", "OR", "AND_CLEAR", "OR_CLEAR"}]]

EventInit == set = {} /\ want = [t \in Thread |-> NoWant]

IsAnd(o) == o \in {"AND", "AND_CLEAR"}
Clears(o) == o \in {"AND_CLEAR", "OR_CLEAR"}

\* The test of rt_event_send and _rt_event_recv.
Satisfied(w, flags) ==
    IF IsAnd(w.option) THEN w.set \subseteq flags ELSE w.set \cap flags # {}

-----------------------------------------------------------------------------
(* rt_event_send *)

\* Mutant: the flags that a waiter asks to clear stay in event->set.
Visit_NotCleared(w, t) ==
    LET got == IF IsAnd(w.want[t].option) THEN w.want[t].set ELSE w.want[t].set \cap w.set
    IN IF Satisfied(w.want[t], w.set)
       THEN [w EXCEPT !.k = SetError(rt_thread_resume(w.k, t), t, "EOK"),
                      !.want[t].set = got]
       ELSE w

\* One round of the walk: a waiter that is satisfied is resumed and its flags are
\* cleared if it wants that, before the next waiter is looked at.
Visit(w, t) ==
    LET got == IF IsAnd(w.want[t].option) THEN w.want[t].set ELSE w.want[t].set \cap w.set
    IN IF Satisfied(w.want[t], w.set)
       THEN [k |-> SetError(rt_thread_resume(w.k, t), t, "EOK"),
             set |-> IF Clears(w.want[t].option) THEN w.set \ got ELSE w.set,
             want |-> [w.want EXCEPT ![t].set = got]]
       ELSE w

\* What there is after each round of the walk along the list as the send finds it
Rounds(flags) ==
    LET after[n \in 0 .. Len(k.list[event])] ==
            IF n = 0 THEN [k |-> k, set |-> set \cup flags, want |-> want]
            ELSE Visit(after[n - 1], k.list[event][n])
    IN after

\* Mutant: only the first waiter is looked at.
Walk_First(flags) ==
    LET start == [k |-> k, set |-> set \cup flags, want |-> want]
    IN IF IsEmpty(event) THEN start ELSE Visit(start, Head(k.list[event]))

Walk(flags) == Rounds(flags)[Len(k.list[event])]

EventSend(t, flags) ==
    LET w == Walk(flags)
    IN /\ Uses(t, event) /\ flags # {}
       /\ k' = w.k /\ set' = w.set /\ want' = w.want
       /\ Goto(t, IF w.k = k THEN "run" ELSE "resched")
       /\ UNCHANGED <<at, alive>>

\* In an interrupt handler rt_schedule takes effect when the handler returns.
HandlerSendsEvent(flags) ==
    LET w == Walk(flags)
    IN /\ event \in alive /\ flags # {} /\ Interruptible
       /\ k' = (IF w.k = k THEN k ELSE rt_schedule(w.k))
       /\ set' = w.set /\ want' = w.want
       /\ UNCHANGED <<pc, at, alive>>

-----------------------------------------------------------------------------
(* _rt_event_recv.  What a thread has received is want[t].set until the    *)
(* call ends; nothing reads it afterwards.                                 *)

RecvSatisfied(t, w) ==
    /\ Uses(t, event)
    /\ Satisfied(w, set)
    /\ k' = SetError(k, t, "EOK")
    /\ set' = IF Clears(w.option) THEN set \ w.set ELSE set
    /\ UNCHANGED <<pc, at, alive, want>>

RecvNoWait(t, w, time) ==
    /\ Uses(t, event)
    /\ ~ Satisfied(w, set) /\ time = "zero"
    /\ k' = SetError(k, t, "ETIMEOUT")
    /\ UNCHANGED <<pc, at, alive, eventvars>>

RecvBlocks(t, w, time, flag) ==
    /\ Uses(t, event)
    /\ ~ Satisfied(w, set)
    /\ \/ SuspendsOn(t, event, time, flag) /\ want' = [want EXCEPT ![t] = w]
       \/ MayNotSuspend(t, time, flag) /\ UNCHANGED want
    /\ UNCHANGED set

\* The flags have been given to t, or its wait was broken.
RecvReturns(t) ==
    /\ At(t, "blocked") /\ at[t] = event
    /\ LeavesList(t, "run")
    /\ want' = [want EXCEPT ![t] = NoWant]
    /\ UNCHANGED <<k, alive, set>>

-----------------------------------------------------------------------------
EventResetEnds(t) ==
    /\ ResetEnds(t, event)
    /\ set' = {}
    /\ UNCHANGED want

EventReinit(t) ==
    /\ Reinit(t, event)
    /\ set' = {}
    /\ UNCHANGED want

EventStep(t) ==
    \/ \E flags \in SUBSET EventFlag : EventSend(t, flags)
    \/ \E s \in (SUBSET EventFlag) \ {{}}, o \in Option :
           LET w == [set |-> s, option |-> o]
           IN \/ RecvSatisfied(t, w)
              \/ \E time \in Time : RecvNoWait(t, w, time)
              \/ \E time \in Time, flag \in Flag : RecvBlocks(t, w, time, flag)
    \/ RecvReturns(t)
    \/ EventResetEnds(t) \/ EventReinit(t)
    \/ (ResetBegins(t, event) \/ DetachBegins(t, event)) /\ UNCHANGED eventvars

-----------------------------------------------------------------------------
(* Properties *)

\* No thread waits for flags that are set: whatever the options of the waiters
\* and the order in which rt_event_send visits and clears, nobody stays behind
\* who could go on.
NoWaiterSatisfied == \A t \in Waiters(event) : ~ Satisfied(want[t], set)

\* The threads that a step resumes with flags they have asked to clear
Cleared(t) ==
    t \in Waiters(event) /\ t \notin Waiters(event)' /\ k'.err[t] = "EOK"
        /\ Clears(want[t].option)

\* A flag that is to be cleared is given once: two threads that one rt_event_send
\* resumes do not both get it, it is not left in event->set, and a thread gets
\* no flag that it has not asked for.
FlagGivenOnce ==
    [][\A t \in Thread : Cleared(t) =>
           /\ want'[t].set \subseteq want[t].set
           /\ want'[t].set \cap set' = {}
           /\ \A u \in Thread \ {t} : Cleared(u) => want'[t].set \cap want'[u].set = {}
      ]_<<k, set, want>>
=============================================================================
