----------------------------- MODULE TimerProofs -----------------------------
(***************************************************************************)
(* The properties of the hard timers, for every set of timers, every size  *)
(* of rt_tick_t and all times up to half of its range, and of the soft     *)
(* timers, for every set of threads and timers.                            *)
(***************************************************************************)
EXTENDS HardTimer, SoftTimer, KernelProofs

-----------------------------------------------------------------------------
(* Hard timers *)

\* How soon a linked timer may be due: outside the clock interrupt, not now.
Soonest == IF stage = "thread" THEN 1 ELSE 0

\* No linked timer has been passed over.
NoneLate == \A t \in ToSet(hard.list) : Ticks(hard.timeout[t], hard.tick) >= Soonest

\* The inductive invariant.
HardInv ==
    /\ TimersOK(hard)
    /\ stage \in {"thread", "check", "callback"}
    /\ created \subseteq Timer
    /\ DeletedUnlinked
    /\ NoneLate

\* No linked timer is late, so none is due too far back for the comparisons.
LEMMA NoneLateInRange ==
    ASSUME HardInv
    PROVE  \A t \in ToSet(hard.list) :
                /\ Ticks(hard.timeout[t], hard.tick) \in Int
                /\ Ticks(hard.timeout[t], hard.tick) >= 0
                /\ Ticks(hard.timeout[t], hard.tick) > 1 - Half
                /\ \A i \in InitTick : i - Ticks(hard.timeout[t], hard.tick) <= Half
<1> SUFFICES ASSUME NEW t \in ToSet(hard.list)
             PROVE  /\ Ticks(hard.timeout[t], hard.tick) \in Int
                    /\ Ticks(hard.timeout[t], hard.tick) >= 0
                    /\ Ticks(hard.timeout[t], hard.tick) > 1 - Half
                    /\ \A i \in InitTick : i - Ticks(hard.timeout[t], hard.tick) <= Half
  OBVIOUS
<1>1. PICK a \in Int : a = Ticks(hard.timeout[t], hard.tick)
  BY StateFacts DEF HardInv, TimersOK
<1>2. a >= 0
  BY <1>1 DEF HardInv, NoneLate, Soonest
<1>3. a > 1 - Half
  BY <1>2, HalfFacts
<1>4. ASSUME NEW i \in InitTick PROVE i - a <= Half
  <2>1. i \in Nat /\ i <= Half - 1 /\ Half \in Nat
    BY HalfFacts
  <2> QED
    BY <2>1, <1>2
<1> QED
  BY <1>1, <1>2, <1>3, <1>4

\* A call that unlinks timers, or none, keeps the invariant.
LEMMA HardUnlinkKeeps ==
    ASSUME HardInv, TimersOK(hard'), stage' \in {stage, "callback"}, created' \subseteq Timer,
           ToSet(hard'.list) \subseteq ToSet(hard.list),
           ToSet(hard'.list) \cup hard'.temp \subseteq created',
           \A u \in ToSet(hard'.list) :
                Ticks(hard'.timeout[u], hard'.tick) = Ticks(hard.timeout[u], hard.tick)
    PROVE  HardInv'
<1>1. \A u \in ToSet(hard'.list) : Ticks(hard'.timeout[u], hard'.tick) >= Soonest'
  <2> TAKE u \in ToSet(hard'.list)
  <2>1. /\ Ticks(hard.timeout[u], hard.tick) >= Soonest
        /\ Ticks(hard.timeout[u], hard.tick) >= 0
    BY NoneLateInRange DEF HardInv, NoneLate
  <2> QED
    BY <2>1 DEF Soonest
<1> QED
  BY <1>1 DEF HardInv, NoneLate, DeletedUnlinked

\* rt_timer_start
LEMMA HardStartKeeps ==
    ASSUME HardInv, NEW t \in Timer, HardStart(t)
    PROVE  HardInv' /\ NoOvertaking(hard, hard')
<1>1. /\ TimersOK(hard') /\ hard'.tick = hard.tick /\ hard'.temp = hard.temp \ {t}
      /\ ToSet(hard'.list) = ToSet(hard.list) \cup {t}
      /\ Ticks(hard'.timeout[t], hard'.tick) = hard.init[t]
      /\ \A u \in ToSet(hard.list) \ {t} :
            Ticks(hard'.timeout[u], hard'.tick) = Ticks(hard.timeout[u], hard.tick)
      /\ NoOvertaking(hard, hard')
  <2>1. TimersOK(hard) /\ hard' = rt_timer_start(hard, t)
    BY DEF HardInv, HardStart
  <2>2. Started(hard, hard', t)
    BY <2>1, TimerStartSound
  <2> QED
    BY <2>2 DEF Started
<1>2. t \in created /\ stage' = stage /\ created' = created
  BY DEF HardStart
<1>3. hard.init[t] \in InitTick
  BY StateFacts DEF HardInv, TimersOK
<1>4. hard.init[t] >= Soonest
  <2>1. \A i \in InitTick : i >= Soonest
    BY HalfFacts DEF Soonest
  <2> QED
    BY <2>1, <1>3
<1>5. \A u \in ToSet(hard'.list) : Ticks(hard'.timeout[u], hard'.tick) >= Soonest'
  BY <1>1, <1>2, <1>4 DEF HardInv, NoneLate, Soonest
<1>6. ToSet(hard'.list) \cup hard'.temp \subseteq created'
  BY <1>1, <1>2 DEF HardInv, DeletedUnlinked
<1> QED
  BY <1>1, <1>2, <1>5, <1>6 DEF HardInv, NoneLate, DeletedUnlinked

\* rt_timer_stop
LEMMA HardStopKeeps ==
    ASSUME HardInv, NEW t \in Timer, HardStop(t)
    PROVE  HardInv' /\ NoOvertaking(hard, hard')
<1>1. /\ TimersOK(hard') /\ NoOvertaking(hard, hard')
      /\ ToSet(hard'.list) = ToSet(hard.list) \ {t} /\ hard'.temp \subseteq hard.temp
      /\ \A u \in ToSet(hard'.list) : Ticks(hard'.timeout[u], hard'.tick) = Ticks(hard.timeout[u], hard.tick)
  BY TimerStopSound DEF HardInv, HardStop
<1>2. stage' = stage /\ created' = created
  BY DEF HardStop
<1> QED
  BY <1>1, <1>2, HardUnlinkKeeps DEF HardInv, DeletedUnlinked

\* rt_timer_detach and rt_timer_delete
LEMMA HardDetachKeeps ==
    ASSUME HardInv, NEW t \in Timer, HardDetach(t)
    PROVE  HardInv' /\ NoOvertaking(hard, hard')
<1>1. /\ TimersOK(hard') /\ NoOvertaking(hard, hard')
      /\ ToSet(hard'.list) = ToSet(hard.list) \ {t} /\ hard'.temp = hard.temp \ {t}
      /\ \A u \in ToSet(hard'.list) : Ticks(hard'.timeout[u], hard'.tick) = Ticks(hard.timeout[u], hard.tick)
  BY TimerDetachSound DEF HardInv, HardDetach
<1>2. stage' = stage /\ created' = created \ {t}
  BY DEF HardDetach
<1> QED
  BY <1>1, <1>2, HardUnlinkKeeps DEF HardInv, DeletedUnlinked

\* rt_timer_control
LEMMA HardControlKeeps ==
    ASSUME HardInv, NEW t \in Timer, HardSetKind(t) \/ \E time \in InitTick : HardSetTime(t, time)
    PROVE  HardInv' /\ NoOvertaking(hard, hard')
<1>1. hard.init[t] \in InitTick
  BY StateFacts DEF HardInv, TimersOK
<1>2. \E time \in InitTick :
        hard' \in {TimerSetTime(hard, t, time), TimerSetOneshot(hard, t), TimerSetPeriodic(hard, t)}
  BY <1>1 DEF HardSetKind, HardSetTime
<1>3. /\ TimersOK(hard') /\ NoOvertaking(hard, hard') /\ hard'.list = hard.list /\ hard'.temp = hard.temp
      /\ \A u \in ToSet(hard'.list) : Ticks(hard'.timeout[u], hard'.tick) = Ticks(hard.timeout[u], hard.tick)
  BY <1>2, TimerControlSound DEF HardInv
<1>4. stage' = stage /\ created' = created
  BY DEF HardSetKind, HardSetTime
<1> QED
  BY <1>3, <1>4, HardUnlinkKeeps DEF HardInv, DeletedUnlinked

\* rt_timer_init and rt_timer_create
LEMMA HardCreateKeeps ==
    ASSUME HardInv, NEW t \in Timer, NEW time \in InitTick, NEW isPeriodic \in BOOLEAN,
           HardCreate(t, time, isPeriodic)
    PROVE  HardInv' /\ NoOvertaking(hard, hard')
<1>1. t \notin ToSet(hard.list) /\ t \notin hard.temp
  BY DEF HardCreate, HardInv, DeletedUnlinked
<1>2. /\ TimersOK(hard') /\ NoOvertaking(hard, hard') /\ hard'.list = hard.list /\ hard'.temp = hard.temp
      /\ \A u \in ToSet(hard'.list) : Ticks(hard'.timeout[u], hard'.tick) = Ticks(hard.timeout[u], hard.tick)
  BY <1>1, TimerInitSound DEF HardInv, HardCreate
<1>3. stage' = stage /\ created' = created \cup {t}
  BY DEF HardCreate
<1> QED
  BY <1>2, <1>3, HardUnlinkKeeps DEF HardInv, DeletedUnlinked

\* rt_tick_increase
LEMMA HardTickKeeps ==
    ASSUME HardInv, HardTick
    PROVE  HardInv' /\ NoOvertaking(hard, hard')
<1>1. stage = "thread" /\ stage' = "check" /\ created' = created
  BY DEF HardTick
<1>2. /\ TimersOK(hard') /\ NoOvertaking(hard, hard')
      /\ hard'.list = hard.list /\ hard'.temp = hard.temp
      /\ \A u \in ToSet(hard'.list) :
            Ticks(hard'.timeout[u], hard'.tick) = Ticks(hard.timeout[u], hard.tick) - 1
  BY NoneLateInRange, TimerTickSound DEF HardInv, HardTick
<1>3. ASSUME NEW u \in ToSet(hard'.list) PROVE Ticks(hard'.timeout[u], hard'.tick) >= Soonest'
  <2>1. /\ Ticks(hard.timeout[u], hard.tick) \in Int
        /\ Ticks(hard.timeout[u], hard.tick) >= 1
        /\ Ticks(hard'.timeout[u], hard'.tick) = Ticks(hard.timeout[u], hard.tick) - 1
    BY <1>1, <1>2, NoneLateInRange DEF HardInv, NoneLate, Soonest
  <2>2. Soonest' = 0
    BY <1>1 DEF Soonest
  <2> QED
    BY <2>1, <2>2
<1> QED
  BY <1>1, <1>2, <1>3 DEF HardInv, NoneLate, DeletedUnlinked

\* rt_timer_check finds a timer that is due
LEMMA HardExpiresKeeps ==
    ASSUME HardInv, HardExpires
    PROVE  HardInv' /\ NoOvertaking(hard, hard')
<1>1. hard.list # <<>> /\ stage' = "callback" /\ created' = created /\ hard' = TakeExpired(hard)
  BY DEF HardExpires, HeadExpired
<1>2. /\ TimersOK(hard') /\ OnlyUnlinks(hard, hard') /\ NoOvertaking(hard, hard')
      /\ Head(hard.list) \in ToSet(hard.list) /\ hard'.temp = {Head(hard.list)}
      /\ \A u \in ToSet(hard'.list) : Ticks(hard'.timeout[u], hard'.tick) = Ticks(hard.timeout[u], hard.tick)
  BY <1>1, TimerTakeSound DEF HardInv
<1>3. ToSet(hard'.list) \subseteq ToSet(hard.list)
  BY <1>2 DEF OnlyUnlinks
<1> QED
  BY <1>1, <1>2, <1>3, HardUnlinkKeeps DEF HardInv, DeletedUnlinked

\* a timeout function returns
LEMMA HardReturnsKeeps ==
    ASSUME HardInv, HardReturns
    PROVE  HardInv' /\ NoOvertaking(hard, hard')
<1>1. stage' = "check" /\ created' = created /\ hard' = AfterTimeout(hard)
  BY DEF HardReturns
<1>2. /\ TimersOK(hard') /\ NoOvertaking(hard, hard') /\ hard'.tick = hard.tick /\ hard'.temp = {}
      /\ ToSet(hard'.list) \subseteq ToSet(hard.list) \cup hard.temp
      /\ \A u \in ToSet(hard'.list) :
            \/ u \in ToSet(hard.list)
               /\ Ticks(hard'.timeout[u], hard'.tick) = Ticks(hard.timeout[u], hard.tick)
            \/ Ticks(hard'.timeout[u], hard'.tick) = hard.init[u]
  BY <1>1, TimerAfterSound DEF HardInv
<1>3. ASSUME NEW u \in ToSet(hard'.list) PROVE Ticks(hard'.timeout[u], hard'.tick) >= Soonest'
  <2>1. Soonest' = 0
    BY <1>1 DEF Soonest
  <2>2. u \in Timer
    BY <1>2, StateFacts DEF TimersOK
  <2>3. hard.init[u] >= 0
    <3>1. hard.init[u] \in InitTick
      BY <2>2, StateFacts DEF HardInv, TimersOK
    <3> QED
      BY <3>1, HalfFacts
  <2> QED
    <3>1. CASE u \in ToSet(hard.list)
               /\ Ticks(hard'.timeout[u], hard'.tick) = Ticks(hard.timeout[u], hard.tick)
      BY <3>1, <2>1, NoneLateInRange
    <3>2. CASE Ticks(hard'.timeout[u], hard'.tick) = hard.init[u]
      BY <3>2, <2>1, <2>3
    <3> QED
      BY <3>1, <3>2, <1>2
<1> QED
  BY <1>1, <1>2, <1>3 DEF HardInv, NoneLate, DeletedUnlinked

\* rt_timer_check finds no timer that is due: then none is.
LEMMA HardEndsKeeps ==
    ASSUME HardInv, HardEnds
    PROVE  HardInv' /\ NoOvertaking(hard, hard')
<1>1. ~ HeadExpired(hard) /\ hard' = hard /\ created' = created /\ stage' = "thread"
  BY DEF HardEnds
<1>2. hard \in TimerListState /\ LinkedOnce(hard)
  BY DEF HardInv, TimersOK
<1>3. NoOvertaking(hard, hard)
  BY <1>2, SameListSound DEF HardInv
<1>4. \A t \in ToSet(hard.list) : Ticks(hard.timeout[t], hard.tick) >= 1
  <2>1. CASE hard.list = <<>>
    BY <2>1 DEF ToSet
  <2>2. CASE hard.list # <<>>
    <3>1. PICK h : h = Head(hard.list)
      OBVIOUS
    <3>2. h \in ToSet(hard.list)
      BY <3>1, <2>2, <1>2, StateFacts, HeadInList
    <3>3. Ticks(hard.timeout[h], hard.tick) \in Int /\ Ticks(hard.timeout[h], hard.tick) >= 0
      BY <3>2, NoneLateInRange
    <3>4. - Half < Ticks(hard.timeout[h], hard.tick)
      BY <3>3, HalfFacts
    <3>5. /\ HeadExpired(hard) <=> Ticks(hard.timeout[h], hard.tick) <= 0
          /\ \A t \in ToSet(hard.list) : Ticks(hard.timeout[h], hard.tick) <= Ticks(hard.timeout[t], hard.tick)
      BY <3>1, <3>4, <2>2, HeadTest DEF HardInv
    <3> QED
      BY <3>3, <3>5, <1>1, NoneLateInRange
  <2> QED
    BY <2>1, <2>2
<1> QED
  BY <1>1, <1>3, <1>4 DEF HardInv, NoneLate, DeletedUnlinked, Soonest

\* Every step keeps the invariant, and no timer overtakes another.
LEMMA HardStepKeeps ==
    ASSUME HardInv, [HardNext]_hardvars
    PROVE  HardInv' /\ NoOvertaking(hard, hard')
<1>1. ASSUME NEW t \in Timer, HardCalls(t) PROVE HardInv' /\ NoOvertaking(hard, hard')
  <2>1. CASE HardStart(t)
    BY <2>1, HardStartKeeps
  <2>2. CASE HardStop(t)
    BY <2>2, HardStopKeeps
  <2>3. CASE HardDetach(t)
    BY <2>3, HardDetachKeeps
  <2>4. CASE HardSetKind(t) \/ \E time \in InitTick : HardSetTime(t, time)
    BY <2>4, HardControlKeeps
  <2>5. CASE \E time \in InitTick, isPeriodic \in BOOLEAN : HardCreate(t, time, isPeriodic)
    BY <2>5, HardCreateKeeps
  <2> QED
    BY <2>1, <2>2, <2>3, <2>4, <2>5, <1>1 DEF HardCalls
<1>2. CASE HardTick
  BY <1>2, HardTickKeeps
<1>3. CASE HardCheck
  BY <1>3, HardExpiresKeeps, HardReturnsKeeps, HardEndsKeeps DEF HardCheck
<1>4. CASE UNCHANGED hardvars
  <2>1. hard' = hard /\ stage' = stage /\ created' = created
    BY <1>4 DEF hardvars
  <2>2. NoOvertaking(hard, hard)
    BY SameListSound DEF HardInv, TimersOK
  <2> QED
    BY <2>1, <2>2 DEF HardInv, NoneLate, DeletedUnlinked, Soonest
<1> QED
  BY <1>1, <1>2, <1>3, <1>4 DEF HardNext

\* The invariant holds when the system starts.
LEMMA HardInitHolds ==
    ASSUME HardInit
    PROVE  HardInv
<1>1. TimersOK(hard) /\ hard.list = <<>> /\ hard.temp = {}
  BY TimerStartupSound DEF HardInit
<1>2. ToSet(hard.list) = {}
  BY <1>1 DEF ToSet
<1> QED
  BY <1>1, <1>2 DEF HardInit, HardInv, NoneLate, DeletedUnlinked

-----------------------------------------------------------------------------
(* Theorems *)

\* The inductive invariant is one.
THEOREM TimerInvariant == HardSpec => []HardInv
<1>1. HardInit => HardInv
  BY HardInitHolds
<1>2. HardInv /\ [HardNext]_hardvars => HardInv'
  BY HardStepKeeps
<1> QED
  BY <1>1, <1>2, PTL DEF HardSpec

\* Whatever a timeout function does to its own timer, RT_TIMER_FLAG_ACTIVATED tells
\* rt_timer_stop the truth about the timers in the list, and each is linked once.
THEOREM TimerFlags == HardSpec => []FlagInv
<1>1. HardInv => FlagInv
  BY TimersFacts DEF HardInv, FlagInv, HardTypeOK, TimersOK
<1> QED
  BY <1>1, TimerInvariant, PTL

\* The list is ordered by time across the wrap-around of rt_tick, whatever the
\* width of rt_tick_t.
THEOREM TimerSorted == HardSpec => []SortedInv
<1>1. HardInv => SortedInv
  BY TimersFacts DEF HardInv, SortedInv
<1> QED
  BY <1>1, TimerInvariant, PTL

\* No timer is passed over: when rt_timer_check ends nothing is due, although it
\* looks at the first timers only.
THEOREM TimerFiresOnTime == HardSpec => []FiresOnTime
<1>1. HardInv => FiresOnTime
  BY DEF HardInv, NoneLate, FiresOnTime, Soonest, Remaining, Ticks
<1> QED
  BY <1>1, TimerInvariant, PTL

\* A timer that has been detached or deleted is in neither list.
THEOREM TimerDeletedUnlinked == HardSpec => []DeletedUnlinked
<1>1. HardInv => DeletedUnlinked
  BY DEF HardInv
<1> QED
  BY <1>1, TimerInvariant, PTL

\* "the timer inserted early get called early": no step puts a timer in front of
\* another that was linked before and is due at the same tick.
THEOREM TimerEarlyFirst == HardSpec => EarlyFirst
<1>1. HardInv /\ [HardNext]_hardvars =>
        [\A i, j \in 1 .. Len(hard'.list) :
            i < j /\ hard'.timeout[hard'.list[i]] = hard'.timeout[hard'.list[j]]
                => \/ hard'.list[i] \in ToSet(hard.list)
                   \/ hard'.list[j] \notin ToSet(hard.list)]_hardvars
  BY HardStepKeeps DEF NoOvertaking
<1> QED
  BY <1>1, TimerInvariant, PTL DEF HardSpec, EarlyFirst

-----------------------------------------------------------------------------
(* Soft timers *)

\* The locations of a thread that has suspended itself and not gone on yet.
Waiting == {"pause", "paused", "nap", "napped"}

\* The locations of a thread in application code, of the timer thread in a timeout
\* function.
InCode == {"run", "started", "tested", "resume", "resume2", "resume3", "resched", "nap", "napped"}

-----------------------------------------------------------------------------
(* The inductive invariant. *)

\* Only a thread that has suspended itself is suspended.
WaitersWait == \A t \in Thread : Suspended(k, t) => pc[t] \in Waiting

\* The current thread runs, unless it has suspended itself and is about to call
\* rt_schedule.
CurrentRuns == k.stat[k.cur] = "RUNNING" \/ pc[k.cur] \in {"pause", "nap"}

KernelPart ==
    /\ Sound(k)
    /\ k.lock = 0
    /\ \A t \in Thread : k.sig[t] = {}
    /\ k.prio = InitPrio
    /\ WaitersWait
    /\ CurrentRuns

TimerPart ==
    /\ TimersOK(w)
    /\ exists \subseteq Timer
    /\ ToSet(w.list) \cup w.temp \subseteq exists

\* soft_timer_status is SOFT_TIMER_BUSY exactly while the timer thread is in a
\* timeout function.
PlacePart ==
    /\ pc \in [Thread -> Location]
    /\ status \in {"IDLE", "BUSY"}
    /\ next \in Tick /\ now \in Tick /\ due \in Tick
    /\ \A t \in Thread \ {TimerThread} : pc[t] \in InCode
    /\ status = "BUSY" <=> pc[TimerThread] \in InCode

SoftInv == KernelPart /\ TimerPart /\ PlacePart

\* A thread has a timer to see to from rt_timer_start until it has stopped the
\* thread_timer of the timer thread or found that there is no need to.  A timeout
\* function finds soft_timer_status busy and gets no further than that.
StartPart ==
    /\ starting \in [Thread -> SUBSET Timer]
    /\ \A t \in Thread : starting[t] # {} => pc[t] \in {"started", "tested", "resume", "resume2"}
    /\ pc[TimerThread] \notin {"tested", "resume", "resume2", "resume3"}

\* The timer thread has been started, and when it is ready it runs at once, or the
\* thread that has resumed it is about to call rt_schedule.
PromptPart ==
    /\ k.stat[TimerThread] \notin {"INIT", "CLOSE"}
    /\ k.stat[TimerThread] = "READY" => pc[TimerThread] \in Waiting /\ pc[k.cur] = "resched"

\* One thread at most is between the test and the insert of rt_thread_resume, and
\* once it has stopped the thread_timer nothing else wakes the timer thread.
ResumePart ==
    /\ \A t, u \in App : pc[t] \in {"resume2", "resume3"} /\ pc[u] \in {"resume2", "resume3"}
                            => t = u
    /\ \A t \in App : pc[t] = "resume3" => Suspended(k, TimerThread) /\ TimerThread \notin k.timer

RunInv == SoftInv /\ StartPart /\ PromptPart /\ ResumePart

\* The inductive invariant: all this holds until two resumes overlap, and what is
\* said of the list of timers holds for good.
UntilCrossed == crossed \in BOOLEAN /\ TimerPart /\ (~ crossed => RunInv)

\* The timer thread is the most urgent thread (the default of RT_TIMER_THREAD_PRIO).
Urgent == \A t \in Thread \ {TimerThread} : InitPrio[TimerThread] < InitPrio[t]

-----------------------------------------------------------------------------
(* Where the threads are. *)

\* A thread that goes on, and the others.
LEMMA Moves ==
    ASSUME PlacePart, NEW t \in Thread, NEW l \in Location, Goto(t, l)
    PROVE  /\ pc' \in [Thread -> Location]
           /\ pc'[t] = l
           /\ \A u \in Thread \ {t} : pc'[u] = pc[u]
  BY DEF PlacePart, Goto

\* The timer thread is one of the application threads.
LEMMA TimerThreadIsApp == TimerThread \in App /\ TimerThread \in Thread /\ TimerThread # Idle
  BY SoftTimerAssumption DEF App

\* The timer thread goes on within its loop, or within a timeout function.
LEMMA TimerThreadMoves ==
    ASSUME PlacePart, NEW l \in Location, Goto(TimerThread, l),
           status' = status, l \in InCode <=> pc[TimerThread] \in InCode,
           next' \in Tick, now' \in Tick, due' \in Tick
    PROVE  PlacePart'
<1>1. /\ pc' \in [Thread -> Location] /\ pc'[TimerThread] = l
      /\ \A u \in Thread \ {TimerThread} : pc'[u] = pc[u]
  BY Moves, TimerThreadIsApp
<1> QED
  BY <1>1 DEF PlacePart

\* A thread goes on in application code.
LEMMA CodeMoves ==
    ASSUME PlacePart, NEW t \in Thread, NEW l \in InCode, Goto(t, l), pc[t] \in InCode,
           status' = status, next' = next, now' = now, due' \in Tick
    PROVE  PlacePart'
<1>1. l \in Location
  BY DEF InCode, Location
<1>2. /\ pc' \in [Thread -> Location] /\ pc'[t] = l
      /\ \A u \in Thread \ {t} : pc'[u] = pc[u]
  BY <1>1, Moves
<1>3. \A u \in Thread \ {TimerThread} : pc'[u] \in InCode
  BY <1>2 DEF PlacePart
<1>4. pc'[TimerThread] \in InCode <=> pc[TimerThread] \in InCode
  BY <1>2, TimerThreadIsApp
<1> QED
  BY <1>2, <1>3, <1>4 DEF PlacePart

-----------------------------------------------------------------------------
(* The list of timers. *)

\* rt_soft_timer_check takes the first timer off the list.
LEMMA TimerTakes ==
    ASSUME TimerPart, CheckExpires
    PROVE  TimerPart' /\ OnlyUnlinks(w, w')
<1>1. w' = TakeExpired(w) /\ w.list # <<>> /\ exists' = exists /\ TimersOK(w)
  BY DEF CheckExpires, HeadExpired, TimerPart
<1>2. /\ TimersOK(w') /\ OnlyUnlinks(w, w')
      /\ Head(w.list) \in ToSet(w.list) /\ w'.temp = {Head(w.list)}
  BY <1>1, TimerTakeSound
<1> QED
  BY <1>1, <1>2 DEF TimerPart, OnlyUnlinks

\* A timeout function returns.
LEMMA TimerReturns ==
    ASSUME TimerPart, CallbackReturns
    PROVE  TimerPart'
<1>1. w' = AfterTimeout(w) /\ exists' = exists
  BY DEF CallbackReturns
<1>2. TimersOK(w') /\ w'.temp = {} /\ ToSet(w'.list) \subseteq ToSet(w.list) \cup w.temp
  BY <1>1, TimerAfterSound DEF TimerPart
<1> QED
  BY <1>1, <1>2 DEF TimerPart

\* rt_timer_start links the timer.
LEMMA TimerStarts ==
    ASSUME TimerPart, NEW t \in App, NEW x \in Timer, Start(t, x)
    PROVE  TimerPart' /\ Started(w, w', x)
<1>1. TimersOK(w) /\ x \in exists /\ w' = rt_timer_start(w, x) /\ exists' = exists
  BY DEF Start, Uses, TimerPart
<1>2. Started(w, w', x)
  BY <1>1, TimerStartSound
<1>3. TimersOK(w') /\ w'.temp = w.temp \ {x} /\ ToSet(w'.list) = ToSet(w.list) \cup {x}
  BY <1>2 DEF Started
<1> QED
  BY <1>1, <1>2, <1>3 DEF TimerPart

\* rt_timer_stop, rt_timer_control, rt_timer_detach and rt_timer_delete,
\* rt_timer_init and rt_timer_create
LEMMA ListCalls ==
    ASSUME TimerPart, NEW t \in App, NEW x \in Timer,
           Stop(t, x) \/ Control(t, x) \/ Detach(t, x) \/ Create(t, x)
    PROVE  /\ TimerPart' /\ OnlyUnlinks(w, w')
           /\ UNCHANGED <<k, status, pc, starting, next, now, due, crossed>>
<1>0. UNCHANGED <<k, status, pc, starting, next, now, due, crossed>>
  BY DEF Stop, Control, Detach, Create
<1>1. TimersOK(w) /\ exists \subseteq Timer /\ ToSet(w.list) \cup w.temp \subseteq exists
  BY DEF TimerPart
<1>2. CASE Stop(t, x)
  <2>1. w' = rt_timer_stop(w, x) /\ exists' = exists
    BY <1>2 DEF Stop
  <2>2. TimersOK(w') /\ OnlyUnlinks(w, w') /\ w'.temp \subseteq w.temp
    BY <2>1, <1>1, TimerStopSound
  <2>3. TimerPart'
    BY <2>1, <2>2, <1>1 DEF TimerPart, OnlyUnlinks
  <2> QED
    BY <2>2, <2>3, <1>0
<1>3. CASE Control(t, x)
  <2>1. exists' = exists /\ w.init[x] \in InitTick
    BY <1>1, <1>3, StateFacts DEF Control, TimersOK
  <2>2. \E time \in InitTick :
          w' \in {TimerSetTime(w, x, time), TimerSetOneshot(w, x), TimerSetPeriodic(w, x)}
    BY <2>1, <1>3 DEF Control
  <2>3. TimersOK(w') /\ OnlyUnlinks(w, w') /\ w'.temp = w.temp
    BY <2>2, <1>1, TimerControlSound
  <2>4. TimerPart'
    BY <2>1, <2>3, <1>1 DEF TimerPart, OnlyUnlinks
  <2> QED
    BY <2>3, <2>4, <1>0
<1>4. CASE Detach(t, x)
  <2>1. w' = TimerDetach(w, x) /\ exists' = exists \ {x}
    BY <1>4 DEF Detach
  <2>2. /\ TimersOK(w') /\ OnlyUnlinks(w, w') /\ ToSet(w'.list) = ToSet(w.list) \ {x}
        /\ w'.temp = w.temp \ {x}
    BY <2>1, <1>1, TimerDetachSound
  <2>3. TimerPart'
    BY <2>1, <2>2, <1>1 DEF TimerPart
  <2> QED
    BY <2>2, <2>3, <1>0
<1>5. CASE Create(t, x)
  <2>1. /\ x \notin exists /\ exists' = exists \cup {x}
        /\ \E time \in InitTick, isPeriodic \in BOOLEAN : w' = TimerInit(w, x, time, isPeriodic)
    BY <1>5 DEF Create
  <2>2. x \notin ToSet(w.list) /\ x \notin w.temp
    BY <2>1, <1>1
  <2>3. TimersOK(w') /\ OnlyUnlinks(w, w') /\ w'.temp = w.temp
    BY <2>1, <2>2, <1>1, TimerInitSound
  <2>4. TimerPart'
    BY <2>1, <2>3, <1>1 DEF TimerPart, OnlyUnlinks
  <2> QED
    BY <2>3, <2>4, <1>0
<1> QED
  BY <1>2, <1>3, <1>4, <1>5

\* What NotTooLate says, in the form that the lemmas about the tick need.
LEMMA NotTooLateFacts ==
    ASSUME TimerPart, NotTooLate
    PROVE  \A x \in ToSet(w.list) :
                /\ Ticks(w.timeout[x], w.tick) > 1 - Half
                /\ \A i \in InitTick : i - Ticks(w.timeout[x], w.tick) <= Half
<1> SUFFICES ASSUME NEW x \in ToSet(w.list)
             PROVE  /\ Ticks(w.timeout[x], w.tick) > 1 - Half
                    /\ \A i \in InitTick : i - Ticks(w.timeout[x], w.tick) <= Half
  OBVIOUS
<1>1. w \in TimerListState /\ x \in Timer
  BY StateFacts DEF TimerPart, TimersOK
<1>2. PICK a \in Int : a = Ticks(w.timeout[x], w.tick)
  BY <1>1, StateFacts
<1>3. Remaining(w, x) = a
  BY <1>2 DEF Remaining, Ticks
<1>4. \A i \in InitTick : i - a < Half
  BY <1>3 DEF NotTooLate, Half
<1>5. PICK i \in InitTick : i = w.init[x]
  BY <1>1, StateFacts
<1>6. a > 1 - Half
  <2>1. i \in Nat /\ 1 <= i /\ Half \in Nat /\ i - a < Half
    BY <1>4, HalfFacts
  <2> QED
    BY <2>1
<1>7. ASSUME NEW j \in InitTick PROVE j - a <= Half
  <2>1. j \in Nat /\ Half \in Nat /\ j - a < Half
    BY <1>4, HalfFacts
  <2> QED
    BY <2>1
<1> QED
  BY <1>2, <1>6, <1>7

\* The tick goes on.
LEMMA TimerTicks ==
    ASSUME TimerPart, ClockTick
    PROVE  /\ TimerPart' /\ w'.list = w.list /\ w'.timeout = w.timeout
           /\ w'.tick = (w.tick + 1) % TickSize
<1>1. /\ NotTooLate /\ w' = [w EXCEPT !.tick = (@ + 1) % TickSize] /\ exists' = exists
  BY DEF ClockTick
<1>2. TimersOK(w)
  BY DEF TimerPart
<1>3. TimersOK(w') /\ w'.list = w.list /\ w'.temp = w.temp /\ w'.timeout = w.timeout
  BY <1>1, <1>2, NotTooLateFacts, TimerTickSound
<1>4. w'.tick = (w.tick + 1) % TickSize
  BY <1>1, <1>2 DEF TimersOK, TimerListState
<1> QED
  BY <1>1, <1>3, <1>4 DEF TimerPart

\* The steps of the threads, with rt_thread_resume and the calls on a timer apart.
LEMMA CallsCases ==
    ASSUME NEW t \in App, Calls(t)
    PROVE  \/ \E x \in Timer : \/ Start(t, x)
                               \/ Stop(t, x) \/ Control(t, x) \/ Detach(t, x) \/ Create(t, x)
           \/ StartTestsStatus(t) \/ StartTestsThread(t)
           \/ ResumeTests(t) \/ ResumeUnlinks(t) \/ ResumeInserts(t)
           \/ Reschedule(t) \/ Nap(t) \/ NapSchedules(t) \/ NapEnds(t)
           \/ \E u \in App : Startup(t, u)
  BY DEF Calls

\* No step spoils the list of timers.
LEMMA TimerKept ==
    ASSUME TimerPart, [Next]_vars
    PROVE  TimerPart'
<1>1. CASE w' = w /\ exists' = exists
  BY <1>1 DEF TimerPart
<1>2. CASE TimerThreadStep
  <2>1. (w' = w /\ exists' = exists) \/ CheckExpires \/ CallbackReturns
    BY <1>2 DEF TimerThreadStep, ReadNext, SuspendSelf, ReadTick, Sleep, Pause, PauseEnds,
                CheckEnds
  <2> QED
    BY <2>1, <1>1, TimerTakes, TimerReturns
<1>3. ASSUME NEW t \in App, Calls(t) PROVE TimerPart'
  <2>1. \/ \E x \in Timer : \/ Start(t, x)
                            \/ Stop(t, x) \/ Control(t, x) \/ Detach(t, x) \/ Create(t, x)
        \/ w' = w /\ exists' = exists
    BY <1>3, CallsCases
       DEF StartTestsStatus, StartTestsThread, ResumeTests, ResumeUnlinks, ResumeInserts,
           Reschedule, Nap, NapSchedules, NapEnds, Startup
  <2> QED
    BY <2>1, <1>1, TimerStarts, ListCalls
<1>4. CASE Interrupt
  BY <1>4, <1>1, TimerTicks DEF Interrupt, TimeSlice, ThreadTimer
<1>5. CASE UNCHANGED vars
  BY <1>5, <1>1 DEF vars
<1> QED
  BY <1>2, <1>3, <1>4, <1>5 DEF Next

-----------------------------------------------------------------------------
(* The kernel. *)

\* The current thread runs unless it has suspended itself.
LEMMA Running ==
    ASSUME SoftInv, NEW t \in Thread, NEW l, At(t, l), l \notin {"pause", "nap"}
    PROVE  k.cur = t /\ k.stat[t] = "RUNNING" /\ ~ Suspended(k, t)
<1>1. k.cur = t /\ k.stat[t] = "RUNNING"
  BY DEF SoftInv, KernelPart, CurrentRuns, At
<1> QED
  BY <1>1 DEF Suspended, SuspendFlag

\* A step of the current thread that does not touch the kernel.
LEMMA KernelSame ==
    ASSUME SoftInv, NEW t \in Thread, NEW l \in Location, At(t, pc[t]), pc[t] \notin Waiting,
           Goto(t, l), k' = k
    PROVE  KernelPart'
<1>1. pc'[t] = l /\ \A u \in Thread \ {t} : pc'[u] = pc[u]
  BY Moves DEF SoftInv
<1>2. pc[t] \notin {"pause", "nap"} /\ k.cur = t
  BY DEF Waiting, At
<1>3. k.stat[t] = "RUNNING" /\ ~ Suspended(k, t)
  BY <1>2, Running
<1>4. \A u \in Thread : Suspended(k', u) => pc'[u] \in Waiting
  BY <1>1, <1>3 DEF SoftInv, KernelPart, WaitersWait
<1> QED
  BY <1>1, <1>2, <1>3, <1>4 DEF SoftInv, KernelPart, WaitersWait, CurrentRuns

\* The current thread suspends itself.
LEMMA KernelSuspends ==
    ASSUME SoftInv, NEW t \in Thread, k.cur = t, NEW l \in {"pause", "nap"}, Goto(t, l),
           Sound(k'), k'.lock = k.lock, k'.sig = k.sig, k'.prio = k.prio, k'.cur = k.cur,
           \A u \in Thread \ {t} : k'.stat[u] = k.stat[u]
    PROVE  KernelPart'
<1>1. l \in Location /\ l \in Waiting
  BY DEF Location, Waiting
<1>2. pc'[t] = l /\ \A u \in Thread \ {t} : pc'[u] = pc[u]
  BY <1>1, Moves DEF SoftInv
<1>3. \A u \in Thread : Suspended(k', u) => pc'[u] \in Waiting
  BY <1>1, <1>2 DEF SoftInv, KernelPart, WaitersWait, Suspended
<1> QED
  BY <1>2, <1>3 DEF SoftInv, KernelPart, WaitersWait, CurrentRuns

\* A change after which a thread runs, and no other thread than before waits.
LEMMA KernelRuns ==
    ASSUME SoftInv, Sound(k'), k'.lock = k.lock, k'.sig = k.sig, k'.prio = k.prio,
           k'.stat[k'.cur] = "RUNNING",
           \A u \in Thread : Suspended(k', u) => pc'[u] \in Waiting
    PROVE  KernelPart'
  BY DEF SoftInv, KernelPart, WaitersWait, CurrentRuns

\* rt_schedule, called by the current thread, which goes on later.
LEMMA KernelSchedules ==
    ASSUME SoftInv, NEW t \in Thread, k.cur = t, NEW l \in Location, Goto(t, l),
           l \in Waiting \/ ~ Suspended(k, t), k' = rt_schedule(k)
    PROVE  KernelPart'
<1>1. pc'[t] = l /\ \A u \in Thread \ {t} : pc'[u] = pc[u]
  BY Moves DEF SoftInv
<1>2. Sound(k) /\ k.lock = 0 /\ WaitersWait
  BY DEF SoftInv, KernelPart
<1>3. /\ Sound(k') /\ Calm(k, k') /\ k'.prio = k.prio /\ k'.sig = k.sig
      /\ k'.stat[k'.cur] = "RUNNING"
  BY <1>2, ScheduleSound, ScheduleFrame, ScheduleRuns
<1>4. \A u \in Thread : Suspended(k', u) <=> Suspended(k, u)
  BY <1>3, CalmLinks
<1>5. \A u \in Thread : Suspended(k', u) => pc'[u] \in Waiting
  BY <1>1, <1>2, <1>4 DEF WaitersWait
<1> QED
  BY <1>3, <1>5, KernelRuns DEF Calm

\* rt_thread_sleep returns: thread->error is cleared.
LEMMA KernelClears ==
    ASSUME SoftInv, NEW t \in Thread, k.cur = t, k.stat[t] = "RUNNING",
           NEW l \in Location, Goto(t, l), k' = ClearTimeout(k, t)
    PROVE  KernelPart' /\ k'.stat = k.stat /\ k'.cur = k.cur /\ k'.timer = k.timer
<1>1. pc'[t] = l /\ \A u \in Thread \ {t} : pc'[u] = pc[u]
  BY Moves DEF SoftInv
<1>2. Sound(k) /\ k \in KernelState /\ WaitersWait
  BY DEF SoftInv, KernelPart, Sound
<1>3. PICK e : e = IF k.err[t] = "ETIMEOUT" THEN "EOK" ELSE k.err[t]
  OBVIOUS
<1>4. e \in Error
  BY <1>2, <1>3 DEF KernelState, Error
<1>5. k' = [k EXCEPT !.err[t] = e]
  BY <1>2, <1>3 DEF ClearTimeout, KernelState
<1>6. /\ Sound(k') /\ k'.stat = k.stat /\ k'.cur = k.cur /\ k'.prio = k.prio
      /\ k'.sig = k.sig /\ k'.lock = k.lock /\ k'.timer = k.timer
  BY <1>2, <1>4, <1>5, SetErrorFrame
<1>7. ~ Suspended(k, t)
  BY DEF Suspended, SuspendFlag
<1>8. \A u \in Thread : Suspended(k', u) => pc'[u] \in Waiting
  BY <1>1, <1>2, <1>6, <1>7 DEF WaitersWait, Suspended
<1> QED
  BY <1>6, <1>8, KernelRuns

\* A thread other than the current one, or the current one in its pause, is made
\* ready; the current thread does not change.
LEMMA KernelWakes ==
    ASSUME SoftInv, NEW t \in Thread, Sound(k'), Wakes(k, k', t), k'.sig = k.sig,
           k'.prio = k.prio, k'.cur = k.cur,
           NEW c \in Thread, c = k.cur, NEW l \in Location, Goto(c, l), pc[c] \notin Waiting
    PROVE  KernelPart'
<1>1. pc'[c] = l /\ \A u \in Thread \ {c} : pc'[u] = pc[u]
  BY Moves DEF SoftInv
<1>2. Sound(k) /\ WaitersWait /\ CurrentRuns
  BY DEF SoftInv, KernelPart
<1>3. \A u \in Thread : Suspended(k', u) => Suspended(k, u)
  BY <1>2, WakesLinks
<1>4. k.stat[c] = "RUNNING" /\ ~ Suspended(k, c)
  BY <1>2 DEF CurrentRuns, WaitersWait, Waiting, Suspended, SuspendFlag
<1>5. \A u \in Thread : Suspended(k', u) => pc'[u] \in Waiting
  BY <1>1, <1>2, <1>3, <1>4 DEF WaitersWait
<1>6. k'.stat[c] \in Active
  BY <1>4 DEF Wakes, OthersKeep, SameActivity, Active
<1>7. k'.stat[k'.cur] = "RUNNING"
  <2>1. ThreadOK(k', c)
    BY SoundFacts
  <2> QED
    BY <2>1, <1>6 DEF ThreadOK, Active
<1> QED
  BY <1>5, <1>7, KernelRuns DEF Wakes

\* A thread_timer expires.
LEMMA KernelTimeout ==
    ASSUME SoftInv, NEW t \in Thread, t \in k.timer, k' = rt_thread_timeout(k, t), pc' = pc
    PROVE  KernelPart'
<1>1. Sound(k) /\ WaitersWait /\ k.lock = 0
  BY DEF SoftInv, KernelPart
<1>2. Sound(k') /\ Wakes(k, k', t) /\ k'.prio = k.prio
  BY <1>1, TimeoutSound, TimeoutFrame
<1>3. k'.sig = k.sig /\ k'.stat[k'.cur] = "RUNNING"
  BY <1>1, TimeoutTimers
<1>4. \A u \in Thread : Suspended(k', u) => pc'[u] \in Waiting
  BY <1>1, <1>2, WakesLinks DEF WaitersWait
<1> QED
  BY <1>2, <1>3, <1>4, KernelRuns DEF Wakes

\* The time slice of the current thread ends.
LEMMA KernelTimeSlice ==
    ASSUME SoftInv, TimeSlice
    PROVE  KernelPart' /\ Calm(k, k')
<1>1. Sound(k) /\ WaitersWait /\ CurrentRuns /\ k.lock = 0 /\ pc' = pc /\ k' = TimeSliceEnds(k)
  BY DEF SoftInv, KernelPart, TimeSlice
<1>2. /\ Sound(k') /\ Calm(k, k') /\ Dispatches(k, k') /\ k'.prio = k.prio /\ k'.sig = k.sig
  BY <1>1, TimeSliceSound, TimeSliceFrame
<1>3. \A u \in Thread : Suspended(k', u) <=> Suspended(k, u)
  BY <1>2, CalmLinks
<1>4. \A u \in Thread : Suspended(k', u) => pc'[u] \in Waiting
  BY <1>1, <1>3 DEF WaitersWait
<1>5. CASE k'.stat[k'.cur] = "RUNNING"
  BY <1>2, <1>4, <1>5, KernelRuns DEF Calm
<1>6. CASE k'.cur = k.cur
  <2>1. CASE k.stat[k.cur] = "RUNNING"
    <3>1. k'.cur \in Thread /\ k'.stat[k'.cur] \in Active
      BY <2>1, <1>1, <1>2, <1>6 DEF Calm, SameActivity, Active, Sound, KernelState
    <3>2. ThreadOK(k', k'.cur)
      BY <3>1, <1>2, SoundFacts
    <3> QED
      BY <3>1, <3>2, <1>5 DEF ThreadOK, Active
  <2>2. CASE pc[k.cur] \in {"pause", "nap"}
    <3>1. CurrentRuns' /\ WaitersWait'
      BY <2>2, <1>1, <1>4, <1>6 DEF CurrentRuns, WaitersWait
    <3> QED
      BY <3>1, <1>1, <1>2 DEF SoftInv, KernelPart, Calm
  <2> QED
    BY <2>1, <2>2, <1>1 DEF CurrentRuns
<1> QED
  BY <1>1, <1>2, <1>5, <1>6 DEF Dispatches

-----------------------------------------------------------------------------
(* The steps of the timer thread. *)

\* rt_timer_list_next_timeout
LEMMA ReadNextKeeps ==
    ASSUME SoftInv, ReadNext
    PROVE  SoftInv'
<1>1. /\ At(TimerThread, "next") /\ Goto(TimerThread, "test") /\ k' = k /\ w' = w
      /\ status' = status /\ now' = now /\ due' = due /\ exists' = exists
  BY DEF ReadNext
<1>2. pc[TimerThread] = "next" /\ "test" \in Location /\ "next" \notin Waiting
  BY <1>1 DEF At, Location, Waiting
<1>3. next' \in Tick
  <2>1. w \in TimerListState
    BY DEF SoftInv, TimerPart, TimersOK
  <2>2. RT_TICK_MAX \in Tick
    BY HalfFacts DEF RT_TICK_MAX
  <2>3. w.list # <<>> => w.timeout[Head(w.list)] \in Tick
    BY <2>1, StateFacts, HeadInList
  <2> QED
    BY <2>2, <2>3 DEF ReadNext
<1>4. KernelPart'
  BY <1>1, <1>2, KernelSame, TimerThreadIsApp DEF At
<1>5. PlacePart'
  BY <1>1, <1>2, <1>3, TimerThreadMoves DEF SoftInv, PlacePart, InCode
<1> QED
  BY <1>1, <1>4, <1>5 DEF SoftInv, TimerPart

\* "no software timer exist, suspend self."
LEMMA SuspendSelfKeeps ==
    ASSUME SoftInv, SuspendSelf
    PROVE  SoftInv' /\ Suspended(k', TimerThread)
<1>1. /\ At(TimerThread, "test") /\ Goto(TimerThread, "pause")
      /\ k' = rt_thread_suspend_with_flag(k, TimerThread, "UNINTERRUPTIBLE") /\ w' = w
      /\ status' = status /\ next' = next /\ now' = now /\ due' = due /\ exists' = exists
  BY DEF SuspendSelf
<1>2. pc[TimerThread] = "test" /\ "pause" \in Location
  BY <1>1 DEF At, Location
<1>3. k.cur = TimerThread /\ k.stat[TimerThread] = "RUNNING" /\ Sound(k)
  BY <1>1, Running, TimerThreadIsApp DEF SoftInv, KernelPart
<1>4. "UNINTERRUPTIBLE" \in SuspendFlag
  BY DEF SuspendFlag
<1>5. Sound(k') /\ Suspended(k', TimerThread) /\ k'.cur = k.cur /\ k'.prio = k.prio
  BY <1>1, <1>3, <1>4, TimerThreadIsApp, SuspendSound
<1>6. /\ \A u \in Thread \ {TimerThread} : k'.stat[u] = k.stat[u]
      /\ k'.sig = k.sig /\ k'.lock = k.lock
  BY <1>1, <1>3, <1>4, TimerThreadIsApp, SuspendFrame DEF Active
<1>7. KernelPart'
  BY <1>1, <1>3, <1>5, <1>6, KernelSuspends, TimerThreadIsApp
<1>8. PlacePart'
  BY <1>1, <1>2, TimerThreadMoves DEF SoftInv, PlacePart, InCode
<1> QED
  BY <1>1, <1>5, <1>7, <1>8 DEF SoftInv, TimerPart

\* rt_tick_get and the comparison with the first timeout
LEMMA ReadTickKeeps ==
    ASSUME SoftInv, ReadTick
    PROVE  SoftInv'
<1>1. /\ At(TimerThread, "test") /\ k' = k /\ w' = w
      /\ status' = status /\ due' = due /\ exists' = exists
  BY DEF ReadTick
<1>2. pc[TimerThread] = "test" /\ "test" \notin Waiting
  BY <1>1 DEF At, Waiting
<1>3. PICK l \in {"sleep", "check"} : Goto(TimerThread, l)
  BY DEF ReadTick
<1>4. l \in Location /\ l \notin InCode
  BY DEF Location, InCode
<1>5. next' \in Tick /\ now' \in Tick
  <2>1. w.tick \in Tick /\ next \in Tick /\ now \in Tick
    BY StateFacts DEF SoftInv, TimerPart, TimersOK, PlacePart
  <2>2. next - w.tick \in Int
    BY <2>1, HalfFacts
  <2>3. Minus(next, w.tick) \in Tick
    BY <2>2, Reduced DEF Minus
  <2>4. 0 \in Tick
    BY HalfFacts
  <2> QED
    BY <2>1, <2>3, <2>4 DEF ReadTick
<1>6. KernelPart'
  BY <1>1, <1>2, <1>3, <1>4, KernelSame, TimerThreadIsApp DEF At
<1>7. PlacePart'
  BY <1>1, <1>2, <1>3, <1>4, <1>5, TimerThreadMoves DEF SoftInv, PlacePart, InCode
<1> QED
  BY <1>1, <1>6, <1>7 DEF SoftInv, TimerPart

\* rt_thread_delay
LEMMA SleepKeeps ==
    ASSUME SoftInv, Sleep
    PROVE  SoftInv' /\ TimerThread \in k'.timer
<1>1. /\ At(TimerThread, "sleep") /\ Goto(TimerThread, "pause")
      /\ k' = rt_thread_sleep(k, TimerThread) /\ w' = w
      /\ status' = status /\ next' = next /\ now' = now /\ exists' = exists
      /\ due' = (w.tick + next) % TickSize
  BY DEF Sleep
<1>2. pc[TimerThread] = "sleep" /\ "pause" \in Location
  BY <1>1 DEF At, Location
<1>3. /\ k.cur = TimerThread /\ k.stat[TimerThread] = "RUNNING" /\ Sound(k)
      /\ k.sig[TimerThread] = {}
  BY <1>1, Running, TimerThreadIsApp DEF SoftInv, KernelPart
<1>4. /\ Sound(k') /\ k'.cur = k.cur /\ k'.prio = k.prio /\ k'.sig = k.sig /\ k'.lock = k.lock
      /\ \A u \in Thread \ {TimerThread} : k'.stat[u] = k.stat[u]
      /\ k'.timer = k.timer \cup {TimerThread}
  BY <1>1, <1>3, TimerThreadIsApp, SleepSound
<1>5. KernelPart'
  BY <1>1, <1>3, <1>4, KernelSuspends, TimerThreadIsApp
<1>6. due' \in Tick
  <2>1. w.tick + next \in Int
    BY StateFacts, HalfFacts DEF SoftInv, TimerPart, TimersOK, PlacePart
  <2> QED
    BY <2>1, <1>1, Reduced
<1>7. PlacePart'
  BY <1>1, <1>2, <1>6, TimerThreadMoves DEF SoftInv, PlacePart, InCode
<1> QED
  BY <1>1, <1>4, <1>5, <1>7 DEF SoftInv, TimerPart

\* The rt_schedule of rt_thread_sleep, or after "suspend self."
LEMMA PauseKeeps ==
    ASSUME SoftInv, Pause
    PROVE  SoftInv'
<1>1. /\ At(TimerThread, "pause") /\ Goto(TimerThread, "paused") /\ k' = rt_schedule(k) /\ w' = w
      /\ status' = status /\ next' = next /\ now' = now /\ due' = due /\ exists' = exists
  BY DEF Pause
<1>2. /\ pc[TimerThread] = "pause" /\ k.cur = TimerThread
      /\ "paused" \in Location /\ "paused" \in Waiting
  BY <1>1 DEF At, Location, Waiting
<1>3. KernelPart'
  BY <1>1, <1>2, KernelSchedules, TimerThreadIsApp
<1>4. PlacePart'
  BY <1>1, <1>2, TimerThreadMoves DEF SoftInv, PlacePart, InCode
<1> QED
  BY <1>1, <1>3, <1>4 DEF SoftInv, TimerPart

\* The timer thread goes on with rt_soft_timer_check.
LEMMA PauseEndsKeeps ==
    ASSUME SoftInv, PauseEnds
    PROVE  SoftInv'
<1>1. /\ At(TimerThread, "paused") /\ Goto(TimerThread, "check")
      /\ k' = ClearTimeout(k, TimerThread) /\ w' = w
      /\ status' = status /\ next' = 0 /\ now' = 0 /\ due' = due /\ exists' = exists
  BY DEF PauseEnds
<1>2. pc[TimerThread] = "paused" /\ "check" \in Location
  BY <1>1 DEF At, Location
<1>3. k.cur = TimerThread /\ k.stat[TimerThread] = "RUNNING"
  BY <1>1, Running, TimerThreadIsApp
<1>4. KernelPart'
  BY <1>1, <1>2, <1>3, KernelClears, TimerThreadIsApp
<1>5. 0 \in Tick
  BY HalfFacts
<1>6. PlacePart'
  BY <1>1, <1>2, <1>5, TimerThreadMoves DEF SoftInv, PlacePart, InCode
<1> QED
  BY <1>1, <1>4, <1>6 DEF SoftInv, TimerPart

\* rt_soft_timer_check finds a timer that is due.
LEMMA CheckExpiresKeeps ==
    ASSUME SoftInv, CheckExpires
    PROVE  SoftInv'
<1>1. /\ At(TimerThread, "check") /\ Goto(TimerThread, "run") /\ k' = k
      /\ HeadExpired(w) /\ w' = TakeExpired(w)
      /\ status' = "BUSY" /\ next' = next /\ now' = now /\ due' = due /\ exists' = exists
  BY DEF CheckExpires
<1>2. /\ pc[TimerThread] = "check" /\ "run" \in Location /\ "run" \in InCode
      /\ "check" \notin Waiting
  BY <1>1 DEF At, Location, InCode, Waiting
<1>3. KernelPart'
  BY <1>1, <1>2, KernelSame, TimerThreadIsApp DEF At
<1>4. /\ pc' \in [Thread -> Location] /\ pc'[TimerThread] = "run"
      /\ \A u \in Thread \ {TimerThread} : pc'[u] = pc[u]
  BY <1>1, <1>2, Moves, TimerThreadIsApp DEF SoftInv
<1>5. PlacePart'
  BY <1>1, <1>2, <1>4 DEF SoftInv, PlacePart
<1>6. TimerPart'
  BY TimerTakes DEF SoftInv
<1> QED
  BY <1>3, <1>5, <1>6 DEF SoftInv

\* A timeout function returns.
LEMMA CallbackReturnsKeeps ==
    ASSUME SoftInv, CallbackReturns
    PROVE  SoftInv'
<1>1. /\ At(TimerThread, "run") /\ Goto(TimerThread, "check") /\ k' = k
      /\ w' = AfterTimeout(w)
      /\ status' = "IDLE" /\ next' = next /\ now' = now /\ due' = due /\ exists' = exists
  BY DEF CallbackReturns
<1>2. /\ pc[TimerThread] = "run" /\ "check" \in Location /\ "check" \notin InCode
      /\ "run" \notin Waiting
  BY <1>1 DEF At, Location, InCode, Waiting
<1>3. KernelPart'
  BY <1>1, <1>2, KernelSame, TimerThreadIsApp DEF At
<1>4. /\ pc' \in [Thread -> Location] /\ pc'[TimerThread] = "check"
      /\ \A u \in Thread \ {TimerThread} : pc'[u] = pc[u]
  BY <1>1, <1>2, Moves, TimerThreadIsApp DEF SoftInv
<1>5. PlacePart'
  BY <1>1, <1>2, <1>4 DEF SoftInv, PlacePart
<1>6. TimerPart'
  BY TimerReturns DEF SoftInv
<1> QED
  BY <1>3, <1>5, <1>6 DEF SoftInv

\* rt_soft_timer_check finds no timer that is due.
LEMMA CheckEndsKeeps ==
    ASSUME SoftInv, CheckEnds
    PROVE  SoftInv'
<1>1. /\ At(TimerThread, "check") /\ Goto(TimerThread, "next") /\ k' = k /\ w' = w
      /\ status' = status /\ next' = next /\ now' = now /\ due' = due /\ exists' = exists
  BY DEF CheckEnds
<1>2. pc[TimerThread] = "check" /\ "next" \in Location /\ "check" \notin Waiting
  BY <1>1 DEF At, Location, Waiting
<1>3. KernelPart'
  BY <1>1, <1>2, KernelSame, TimerThreadIsApp DEF At
<1>4. PlacePart'
  BY <1>1, <1>2, TimerThreadMoves DEF SoftInv, PlacePart, InCode
<1> QED
  BY <1>1, <1>3, <1>4 DEF SoftInv, TimerPart

-----------------------------------------------------------------------------
(* The steps of the threads that use timers. *)

\* rt_timer_start links the timer.
LEMMA StartKeeps ==
    ASSUME SoftInv, NEW t \in App, NEW x \in Timer, Start(t, x)
    PROVE  SoftInv'
<1>1. /\ At(t, "run") /\ x \in exists /\ w' = rt_timer_start(w, x) /\ GotoWith(t, "started", {x})
      /\ k' = k /\ status' = status /\ next' = next /\ now' = now /\ due' = due
      /\ exists' = exists
  BY DEF Start, Uses
<1>2. /\ pc[t] = "run" /\ t \in Thread /\ "started" \in Location /\ "run" \notin Waiting
      /\ "run" \in InCode /\ "started" \in InCode
  BY <1>1 DEF At, App, Location, Waiting, InCode
<1>3. KernelPart'
  BY <1>1, <1>2, KernelSame DEF At, GotoWith
<1>4. PlacePart'
  BY <1>1, <1>2, CodeMoves DEF SoftInv, PlacePart, GotoWith
<1>5. TimerPart'
  BY TimerStarts DEF SoftInv
<1> QED
  BY <1>3, <1>4, <1>5 DEF SoftInv

\* rt_timer_start reads soft_timer_status and the state of the timer thread, and
\* rt_thread_resume reads it again.
LEMMA TestsKeep ==
    ASSUME SoftInv, NEW t \in App, StartTestsStatus(t) \/ StartTestsThread(t) \/ ResumeTests(t)
    PROVE  SoftInv'
<1>1. /\ w' = w /\ k' = k /\ status' = status /\ next' = next /\ now' = now /\ due' = due
      /\ exists' = exists
  BY DEF StartTestsStatus, StartTestsThread, ResumeTests
<1>2. PICK l \in {"tested", "resume", "resume2", "resched", "run"} : Goto(t, l)
  BY DEF StartTestsStatus, StartTestsThread, ResumeTests, GotoWith
<1>3. /\ k.cur = t /\ pc[t] \in {"started", "tested", "resume"}
  BY DEF StartTestsStatus, StartTestsThread, ResumeTests, At
<1>4. t \in Thread /\ l \in Location /\ pc[t] \notin Waiting /\ pc[t] \in InCode /\ l \in InCode
  BY <1>3 DEF App, Location, Waiting, InCode
<1>5. KernelPart'
  BY <1>1, <1>2, <1>3, <1>4, KernelSame DEF At
<1>6. PlacePart'
  BY <1>1, <1>2, <1>4, CodeMoves DEF SoftInv, PlacePart
<1> QED
  BY <1>1, <1>5, <1>6 DEF SoftInv, TimerPart

\* A thread in application code that is not the timer thread has it suspended, or
\* running nowhere.
LEMMA TimerThreadSuspended ==
    ASSUME SoftInv, PromptPart, NEW t \in Thread \ {TimerThread}, k.cur = t, pc[t] # "resched"
    PROVE  Suspended(k, TimerThread)
<1>1. k.stat[TimerThread] \in Stat /\ ThreadOK(k, TimerThread)
  BY TimerThreadIsApp, SoundFacts DEF SoftInv, KernelPart, KernelState
<1>2. k.stat[TimerThread] # "RUNNING" /\ k.stat[TimerThread] # "READY"
  BY <1>1, TimerThreadIsApp DEF ThreadOK, PromptPart
<1> QED
  BY <1>1, <1>2 DEF PromptPart, Stat, Suspended

\* No list has a suspended thread.
LEMMA SuspendedUnlinked ==
    ASSUME SoftInv, Suspended(k, TimerThread)
    PROVE  \A l \in Prio \cup Queue : ~ Linked(k, l, TimerThread)
  BY TimerThreadIsApp, SoundFacts, SoftTimerAssumption
     DEF SoftInv, KernelPart, ThreadOK, Suspended, SuspendFlag

\* rt_thread_resume unlinks the timer thread and stops its thread_timer.
LEMMA ResumeUnlinksKeeps ==
    ASSUME SoftInv, StartPart, PromptPart, NEW t \in App, ResumeUnlinks(t)
    PROVE  /\ SoftInv' /\ t \in Thread \ {TimerThread} /\ k.cur = t /\ k'.cur = k.cur
           /\ k'.stat = k.stat /\ k'.timer = k.timer \ {TimerThread}
           /\ Suspended(k', TimerThread)
<1>1. /\ At(t, "resume2") /\ Goto(t, "resume3") /\ w' = w
      /\ k' = [rt_list_remove(k, TimerThread) EXCEPT !.timer = @ \ {TimerThread}]
      /\ status' = status /\ next' = next /\ now' = now /\ due' = due /\ exists' = exists
  BY DEF ResumeUnlinks, GotoWith
<1>2. /\ pc[t] = "resume2" /\ k.cur = t /\ t \in Thread /\ "resume3" \in Location
      /\ "resume2" \notin Waiting /\ "resume2" \in InCode /\ "resume3" \in InCode
      /\ "resume2" \notin {"pause", "nap"}
  BY <1>1 DEF At, App, Location, Waiting, InCode
<1>3. t \in Thread \ {TimerThread}
  BY <1>2 DEF StartPart
<1>4. Sound(k) /\ Suspended(k, TimerThread) /\ TimerThread \in Thread
  BY <1>2, <1>3, TimerThreadSuspended, TimerThreadIsApp DEF SoftInv, KernelPart
<1>5. PICK i : i = rt_list_remove(k, TimerThread)
  OBVIOUS
<1>6. /\ SoundBut(i, TimerThread) /\ SameBut(k, i, TimerThread) /\ i.stat = k.stat
      /\ i \in KernelState
  BY <1>4, <1>5, UnlinkSound DEF SoundBut
<1>7. /\ k' \in KernelState /\ k'.list = i.list /\ k'.group = i.group /\ k'.stat = i.stat
      /\ k'.cur = i.cur /\ k'.prio = i.prio /\ k'.lock = i.lock /\ k'.sig = i.sig
      /\ k'.timer = i.timer \ {TimerThread}
  BY <1>1, <1>5, <1>6 DEF KernelState
<1>8. SoundBut(k', TimerThread)
  BY <1>4, <1>6, <1>7, MiscSound
<1>9. /\ k'.stat = k.stat /\ k'.cur = k.cur /\ k'.prio = k.prio /\ k'.lock = k.lock
      /\ k'.sig = k.sig /\ k'.timer = k.timer \ {TimerThread}
  BY <1>6, <1>7 DEF SameBut
<1>10. ThreadOK(k', TimerThread)
  BY <1>4, <1>8, <1>9, TimerThreadIsApp DEF ThreadOK, SoundBut, Suspended, SuspendFlag
<1>11. Sound(k')
  BY <1>8, <1>10, SoundFacts DEF SoundBut
<1>12. k.stat[t] = "RUNNING" /\ ~ Suspended(k, t)
  BY <1>1, <1>2, Running
<1>13. pc'[t] = "resume3" /\ \A u \in Thread \ {t} : pc'[u] = pc[u]
  BY <1>1, <1>2, Moves DEF SoftInv
<1>14. \A u \in Thread : Suspended(k', u) => pc'[u] \in Waiting
  BY <1>9, <1>12, <1>13 DEF SoftInv, KernelPart, WaitersWait, Suspended
<1>15. KernelPart'
  BY <1>2, <1>9, <1>11, <1>12, <1>14, KernelRuns
<1>16. PlacePart'
  BY <1>1, <1>2, CodeMoves DEF SoftInv, PlacePart
<1>17. Suspended(k', TimerThread)
  BY <1>4, <1>9 DEF Suspended
<1> QED
  BY <1>1, <1>2, <1>3, <1>9, <1>15, <1>16, <1>17 DEF SoftInv, TimerPart

\* rt_thread_resume makes the timer thread ready.
LEMMA ResumeInsertsKeeps ==
    ASSUME SoftInv, StartPart, ResumePart, NEW t \in App, ResumeInserts(t)
    PROVE  /\ SoftInv' /\ t \in Thread \ {TimerThread} /\ k.cur = t /\ k'.cur = k.cur
           /\ Suspended(k, TimerThread) /\ k'.stat[TimerThread] \in Active
<1>1. /\ At(t, "resume3") /\ Goto(t, "resched") /\ w' = w
      /\ k' = rt_schedule_insert_thread(k, TimerThread)
      /\ status' = status /\ next' = next /\ now' = now /\ due' = due /\ exists' = exists
  BY DEF ResumeInserts
<1>2. /\ pc[t] = "resume3" /\ k.cur = t /\ t \in Thread /\ "resched" \in Location
      /\ "resume3" \notin Waiting /\ "resume3" \in InCode /\ "resched" \in InCode
  BY <1>1 DEF At, App, Location, Waiting, InCode
<1>3. t \in Thread \ {TimerThread} /\ TimerThread \in Thread
  BY <1>2, TimerThreadIsApp DEF StartPart
<1>4. /\ Suspended(k, TimerThread) /\ TimerThread \notin k.timer
      /\ Sound(k) /\ k \in KernelState
  BY <1>2 DEF ResumePart, SoftInv, KernelPart, Sound
<1>5. SoundBut(k, TimerThread)
  BY <1>4, SuspendedUnlinked, SoundFacts DEF SoundBut
<1>6. Sound(k')
  BY <1>1, <1>3, <1>4, <1>5, InsertSound
<1>7. k'.prio = k.prio /\ k'.sig = k.sig /\ k'.cur = k.cur
  BY <1>1, <1>3, <1>4, InsertFrame
<1>8. Wakes(k, k', TimerThread)
  <2>1. \A q \in Queue : k.list[q] = Without(k.list[q], TimerThread)
    BY SoftTimerAssumption
  <2> QED
    BY <2>1, <1>1, <1>3, <1>4, InsertWakes
<1>9. KernelPart'
  BY <1>1, <1>2, <1>3, <1>6, <1>7, <1>8, KernelWakes
<1>10. PlacePart'
  BY <1>1, <1>2, CodeMoves DEF SoftInv, PlacePart
<1> QED
  BY <1>1, <1>2, <1>3, <1>4, <1>7, <1>8, <1>9, <1>10 DEF SoftInv, TimerPart, Wakes

\* The rt_schedule of rt_timer_start, or of rt_thread_startup.
LEMMA RescheduleKeeps ==
    ASSUME SoftInv, NEW t \in App, Reschedule(t)
    PROVE  SoftInv'
<1>1. /\ At(t, "resched") /\ Goto(t, "run") /\ k' = rt_schedule(k) /\ w' = w
      /\ status' = status /\ next' = next /\ now' = now /\ due' = due /\ exists' = exists
  BY DEF Reschedule
<1>2. /\ pc[t] = "resched" /\ k.cur = t /\ t \in Thread /\ "run" \in Location
      /\ "resched" \in InCode /\ "run" \in InCode
  BY <1>1 DEF At, App, Location, InCode
<1>3. ~ Suspended(k, t)
  BY <1>1, <1>2, Running
<1>4. KernelPart'
  BY <1>1, <1>2, <1>3, KernelSchedules
<1>5. PlacePart'
  BY <1>1, <1>2, CodeMoves DEF SoftInv, PlacePart
<1> QED
  BY <1>1, <1>4, <1>5 DEF SoftInv, TimerPart

\* rt_timer_stop, rt_timer_control, rt_timer_detach and rt_timer_delete,
\* rt_timer_init and rt_timer_create
LEMMA ListCallsKeep ==
    ASSUME SoftInv, NEW t \in App, NEW x \in Timer,
           Stop(t, x) \/ Control(t, x) \/ Detach(t, x) \/ Create(t, x)
    PROVE  SoftInv'
<1>1. TimerPart' /\ UNCHANGED <<k, status, pc, next, now, due>>
  BY ListCalls DEF SoftInv
<1> QED
  BY <1>1 DEF SoftInv, KernelPart, WaitersWait, CurrentRuns, PlacePart

\* rt_thread_sleep
LEMMA NapKeeps ==
    ASSUME SoftInv, NEW t \in App, Nap(t)
    PROVE  SoftInv' /\ k'.timer = k.timer \cup {t}
           /\ \A u \in Thread \ {t} : k'.stat[u] = k.stat[u]
<1>1. /\ At(t, "run") /\ Goto(t, "nap") /\ k' = rt_thread_sleep(k, t) /\ w' = w
      /\ status' = status /\ next' = next /\ now' = now /\ exists' = exists
      /\ due' = IF t = TimerThread THEN (w.tick + 1) % TickSize ELSE due
  BY DEF Nap
<1>2. /\ pc[t] = "run" /\ k.cur = t /\ t \in Thread /\ "nap" \in {"pause", "nap"}
      /\ "run" \in InCode /\ "nap" \in InCode
  BY <1>1 DEF At, App, InCode
<1>3. k.stat[t] = "RUNNING" /\ Sound(k) /\ k.sig[t] = {}
  BY <1>1, <1>2, Running DEF SoftInv, KernelPart
<1>4. /\ Sound(k') /\ k'.cur = k.cur /\ k'.prio = k.prio /\ k'.sig = k.sig /\ k'.lock = k.lock
      /\ \A u \in Thread \ {t} : k'.stat[u] = k.stat[u]
      /\ k'.timer = k.timer \cup {t}
  BY <1>1, <1>3, SleepSound
<1>5. KernelPart'
  BY <1>1, <1>2, <1>4, KernelSuspends
<1>6. due' \in Tick
  <2>0. w.tick \in Tick
    BY StateFacts DEF SoftInv, TimerPart, TimersOK
  <2>1. w.tick + 1 \in Int
    BY <2>0, HalfFacts
  <2>2. (w.tick + 1) % TickSize \in Tick
    BY <2>1, Reduced
  <2> QED
    BY <2>2, <1>1 DEF SoftInv, PlacePart
<1>7. PlacePart'
  BY <1>1, <1>2, <1>6, CodeMoves DEF SoftInv
<1> QED
  BY <1>1, <1>4, <1>5, <1>7 DEF SoftInv, TimerPart

\* The rt_schedule of rt_thread_sleep
LEMMA NapSchedulesKeeps ==
    ASSUME SoftInv, NEW t \in App, NapSchedules(t)
    PROVE  SoftInv'
<1>1. /\ At(t, "nap") /\ Goto(t, "napped") /\ k' = rt_schedule(k) /\ w' = w
      /\ status' = status /\ next' = next /\ now' = now /\ due' = due /\ exists' = exists
  BY DEF NapSchedules
<1>2. /\ pc[t] = "nap" /\ k.cur = t /\ t \in Thread /\ "napped" \in Location
      /\ "napped" \in Waiting /\ "nap" \in InCode /\ "napped" \in InCode
  BY <1>1 DEF At, App, Location, InCode, Waiting
<1>3. KernelPart'
  BY <1>1, <1>2, KernelSchedules
<1>4. PlacePart'
  BY <1>1, <1>2, CodeMoves DEF SoftInv, PlacePart
<1> QED
  BY <1>1, <1>3, <1>4 DEF SoftInv, TimerPart

\* rt_thread_sleep returns.
LEMMA NapEndsKeeps ==
    ASSUME SoftInv, NEW t \in App, NapEnds(t)
    PROVE  SoftInv'
<1>1. /\ At(t, "napped") /\ Goto(t, "run") /\ k' = ClearTimeout(k, t) /\ w' = w
      /\ status' = status /\ next' = next /\ now' = now /\ due' = due /\ exists' = exists
  BY DEF NapEnds
<1>2. /\ pc[t] = "napped" /\ t \in Thread /\ "run" \in Location
      /\ "napped" \in InCode /\ "run" \in InCode
  BY <1>1 DEF At, App, Location, InCode
<1>3. k.cur = t /\ k.stat[t] = "RUNNING"
  BY <1>1, <1>2, Running
<1>4. KernelPart'
  BY <1>1, <1>2, <1>3, KernelClears
<1>5. PlacePart'
  BY <1>1, <1>2, CodeMoves DEF SoftInv, PlacePart
<1> QED
  BY <1>1, <1>4, <1>5 DEF SoftInv, TimerPart

\* rt_thread_startup
LEMMA StartupKeeps ==
    ASSUME SoftInv, NEW t \in App, NEW u \in App, Startup(t, u)
    PROVE  SoftInv'
<1>1. /\ At(t, "run") /\ k.stat[u] = "INIT" /\ k' = rt_thread_startup(k, u)
      /\ Goto(t, "resched") /\ w' = w
      /\ status' = status /\ next' = next /\ now' = now /\ due' = due /\ exists' = exists
  BY DEF Startup
<1>2. /\ pc[t] = "run" /\ k.cur = t /\ t \in Thread /\ u \in Thread /\ "resched" \in Location
      /\ "run" \in InCode /\ "resched" \in InCode /\ "run" \notin Waiting
  BY <1>1 DEF At, App, Location, InCode, Waiting
<1>3. Sound(k) /\ k.prio = InitPrio
  BY DEF SoftInv, KernelPart
<1>4. /\ Sound(k') /\ Wakes(k, k', u) /\ k'.cur = k.cur
      /\ k'.prio = [k.prio EXCEPT ![u] = InitPrio[u]] /\ k'.sig = k.sig
  BY <1>1, <1>3, StartupSound, StartupFrame, StartupTimers
<1>5. k'.prio = k.prio
  BY <1>2, <1>3, <1>4, KernelAssumption
<1>6. KernelPart'
  BY <1>1, <1>2, <1>4, <1>5, KernelWakes
<1>7. PlacePart'
  BY <1>1, <1>2, CodeMoves DEF SoftInv, PlacePart
<1> QED
  BY <1>1, <1>6, <1>7 DEF SoftInv, TimerPart

-----------------------------------------------------------------------------
(* Interrupts. *)

\* A step that moves no thread and no timer.
LEMMA KernelOnly ==
    ASSUME SoftInv, UNCHANGED <<w, status, pc, next, now, due, exists>>, KernelPart'
    PROVE  SoftInv'
  BY DEF SoftInv, TimerPart, PlacePart

\* rt_tick_increase
LEMMA ClockTickKeeps ==
    ASSUME SoftInv, ClockTick
    PROVE  SoftInv'
<1>1. /\ UNCHANGED <<status, pc, next, now, due>>
      /\ k' = IF TimerThread \in k.timer /\ Ahead(Minus(w'.tick, due))
              THEN rt_thread_timeout(k, TimerThread) ELSE k
  BY DEF ClockTick
<1>2. TimerPart'
  BY TimerTicks DEF SoftInv
<1>3. KernelPart'
  <2>1. CASE k' = k
    BY <2>1, <1>1 DEF SoftInv, KernelPart, WaitersWait, CurrentRuns
  <2>2. CASE TimerThread \in k.timer /\ k' = rt_thread_timeout(k, TimerThread)
    BY <2>2, <1>1, TimerThreadIsApp, KernelTimeout
  <2> QED
    BY <2>1, <2>2, <1>1
<1>4. PlacePart'
  BY <1>1 DEF SoftInv, PlacePart
<1> QED
  BY <1>2, <1>3, <1>4 DEF SoftInv

\* The thread_timer of another thread expires, or the time slice ends.
LEMMA InterruptKeeps ==
    ASSUME SoftInv, Interrupt
    PROVE  SoftInv'
<1>1. CASE ClockTick
  BY <1>1, ClockTickKeeps
<1>2. CASE TimeSlice
  <2>1. KernelPart'
    BY <1>2, KernelTimeSlice
  <2> QED
    BY <2>1, <1>2, KernelOnly DEF TimeSlice
<1>3. ASSUME NEW t \in App, ThreadTimer(t) PROVE SoftInv'
  <2>1. t \in Thread /\ t \in k.timer /\ k' = rt_thread_timeout(k, t) /\ pc' = pc
    BY <1>3 DEF ThreadTimer, App
  <2>2. KernelPart'
    BY <2>1, KernelTimeout
  <2> QED
    BY <2>2, <1>3, KernelOnly DEF ThreadTimer
<1> QED
  BY <1>1, <1>2, <1>3 DEF Interrupt

\* A call of a thread moves that thread only, and not out of its code.
LEMMA CallsMove ==
    ASSUME SoftInv, NEW t \in App, Calls(t)
    PROVE  /\ t \in Thread /\ k.cur = t /\ next' = next /\ now' = now
           /\ pc'[t] \in InCode
           /\ \A u \in Thread \ {t} : pc'[u] = pc[u]
<1>1. t \in Thread /\ pc \in [Thread -> Location]
  BY DEF App, SoftInv, PlacePart
<1>2. k.cur = t /\ next' = next /\ now' = now
  BY CallsCases
     DEF Start, Stop, Control, Detach, Create, StartTestsStatus, StartTestsThread, ResumeTests,
         ResumeUnlinks, ResumeInserts, Reschedule, Nap, NapSchedules, NapEnds, Startup, Uses, At
<1>3. (pc' = pc /\ pc[t] = "run") \/ \E l \in InCode : Goto(t, l)
  BY CallsCases
     DEF Start, Stop, Control, Detach, Create, StartTestsStatus, StartTestsThread, ResumeTests,
         ResumeUnlinks, ResumeInserts, Reschedule, Nap, NapSchedules, NapEnds, Startup, Uses, At,
         InCode, GotoWith
<1> QED
  BY <1>1, <1>2, <1>3 DEF Goto, InCode

-----------------------------------------------------------------------------
(* Who wakes the timer thread. *)

\* The timer thread is left as it is.
Undisturbed ==
    /\ Suspended(k', TimerThread) <=> Suspended(k, TimerThread)
    /\ TimerThread \in k'.timer <=> TimerThread \in k.timer

\* rt_schedule suspends and wakes nobody.
LEMMA ScheduleUndisturbed ==
    ASSUME SoftInv, k' = rt_schedule(k) \/ k' = TimeSliceEnds(k)
    PROVE  Undisturbed
<1>1. Sound(k) /\ TimerThread \in Thread
  BY TimerThreadIsApp DEF SoftInv, KernelPart
<1>2. Calm(k, k') /\ k'.timer = k.timer
  BY <1>1, ScheduleFrame, TimeSliceFrame
<1> QED
  BY <1>1, <1>2, CalmLinks DEF Undisturbed

\* A call of another thread wakes the timer thread in rt_thread_resume only.
LEMMA CallsUndisturbed ==
    ASSUME SoftInv, PromptPart, NEW t \in App, t # TimerThread, Calls(t),
           ~ ResumeUnlinks(t), ~ ResumeInserts(t)
    PROVE  Undisturbed
<1>0. /\ t \in Thread /\ TimerThread \in Thread /\ Sound(k) /\ k \in KernelState
  BY TimerThreadIsApp DEF App, SoftInv, KernelPart, Sound
<1>1. CASE k' = k
  BY <1>1 DEF Undisturbed
<1>2. CASE Reschedule(t) \/ NapSchedules(t)
  BY <1>2, ScheduleUndisturbed DEF Reschedule, NapSchedules
<1>3. CASE Nap(t)
  <2>1. k'.timer = k.timer \cup {t} /\ k'.stat[TimerThread] = k.stat[TimerThread]
    BY <1>0, <1>3, NapKeeps
  <2> QED
    BY <2>1 DEF Undisturbed, Suspended
<1>4. CASE NapEnds(t)
  <2>1. At(t, "napped") /\ Goto(t, "run") /\ k' = ClearTimeout(k, t) /\ k.cur = t
    BY <1>4 DEF NapEnds, At
  <2>2. k.stat[t] = "RUNNING"
    BY <2>1, <1>0, Running
  <2>3. k'.stat = k.stat /\ k'.timer = k.timer
    BY <2>1, <2>2, <1>0, KernelClears DEF Location
  <2> QED
    BY <2>3 DEF Undisturbed, Suspended
<1>5. ASSUME NEW u \in App, Startup(t, u) PROVE Undisturbed
  <2>1. k.stat[u] = "INIT" /\ k' = rt_thread_startup(k, u)
    BY <1>5 DEF Startup
  <2>2. u # TimerThread /\ u \in Thread
    BY <2>1 DEF PromptPart, App
  <2>3. Wakes(k, k', u) /\ k'.timer = k.timer \ {u}
    BY <2>1, <1>0, StartupFrame, StartupTimers
  <2>4. Suspended(k', TimerThread) <=> Suspended(k, TimerThread)
    BY <2>2, <2>3, <1>0, WakesLinks
  <2> QED
    BY <2>2, <2>3, <2>4 DEF Undisturbed
<1>6. \/ k' = k
      \/ Reschedule(t) \/ Nap(t) \/ NapSchedules(t) \/ NapEnds(t)
      \/ \E u \in App : Startup(t, u)
  BY CallsCases DEF Start, Stop, Control, Detach, Create, StartTestsStatus, StartTestsThread,
                    ResumeTests
<1> QED
  BY <1>1, <1>2, <1>3, <1>4, <1>5, <1>6

\* An interrupt wakes the timer thread when its thread_timer expires only.
LEMMA InterruptUndisturbed ==
    ASSUME SoftInv, Interrupt
    PROVE  Undisturbed \/ (TimerThread \in k.timer /\ ~ Suspended(k', TimerThread))
<1>0. TimerThread \in Thread /\ Sound(k)
  BY TimerThreadIsApp DEF SoftInv, KernelPart
<1>1. ASSUME NEW t \in Thread, t \in k.timer, k' = rt_thread_timeout(k, t)
      PROVE  Undisturbed \/ (TimerThread \in k.timer /\ ~ Suspended(k', TimerThread))
  <2>1. k'.timer = k.timer \ {t} /\ Wakes(k, k', t)
    BY <1>1, <1>0, TimeoutTimers, TimeoutFrame
  <2>2. Suspended(k', TimerThread) <=> Suspended(k, TimerThread) /\ TimerThread # t
    BY <2>1, <1>0, WakesLinks
  <2> QED
    BY <2>1, <2>2, <1>1 DEF Undisturbed
<1>2. CASE ClockTick
  <2>1. k' = k \/ (TimerThread \in k.timer /\ k' = rt_thread_timeout(k, TimerThread))
    BY <1>2 DEF ClockTick
  <2> QED
    BY <2>1, <1>0, <1>1 DEF Undisturbed
<1>3. CASE TimeSlice
  BY <1>3, ScheduleUndisturbed DEF TimeSlice
<1>4. ASSUME NEW t \in App, ThreadTimer(t)
      PROVE  Undisturbed \/ (TimerThread \in k.timer /\ ~ Suspended(k', TimerThread))
  BY <1>4, <1>1 DEF ThreadTimer, App
<1> QED
  BY <1>2, <1>3, <1>4 DEF Interrupt

\* An interrupt moves no thread.
LEMMA InterruptStays ==
    ASSUME Interrupt
    PROVE  UNCHANGED <<pc, starting, status, next, now, due, exists, crossed>>
  BY DEF Interrupt, ClockTick, TimeSlice, ThreadTimer

\* A step of the timer thread's own loop.
LEMMA LoopMoves ==
    ASSUME SoftInv, TimerThreadStep
    PROVE  /\ k.cur = TimerThread /\ UNCHANGED <<starting, crossed, exists>>
           /\ pc[TimerThread] \in {"next", "test", "sleep", "pause", "paused", "check", "run"}
           /\ pc'[TimerThread] \in {"next", "test", "sleep", "pause", "paused", "check", "run"}
           /\ \A u \in Thread \ {TimerThread} : pc'[u] = pc[u]
           /\ pc[TimerThread] = "pause" => k' = rt_schedule(k)
<1>1. pc \in [Thread -> Location] /\ TimerThread \in Thread
  BY TimerThreadIsApp DEF SoftInv, PlacePart
<1>2. /\ k.cur = TimerThread /\ UNCHANGED <<starting, crossed, exists>>
      /\ pc[TimerThread] \in {"next", "test", "sleep", "pause", "paused", "check", "run"}
      /\ pc[TimerThread] = "pause" => k' = rt_schedule(k)
  BY DEF TimerThreadStep, ReadNext, SuspendSelf, ReadTick, Sleep, Pause, PauseEnds,
         CheckExpires, CallbackReturns, CheckEnds, At
<1>3. PICK l \in {"next", "test", "sleep", "pause", "paused", "check", "run"} :
        Goto(TimerThread, l)
  BY DEF TimerThreadStep, ReadNext, SuspendSelf, ReadTick, Sleep, Pause, PauseEnds,
         CheckExpires, CallbackReturns, CheckEnds
<1> QED
  BY <1>1, <1>2, <1>3 DEF Goto

\* What a thread has to see to.
LEMMA StartKept ==
    ASSUME SoftInv, StartPart, Next
    PROVE  StartPart'
<1>0. pc \in [Thread -> Location] /\ TimerThread \in Thread
  BY TimerThreadIsApp DEF SoftInv, PlacePart
<1>1. CASE TimerThreadStep
  <2>1. starting[TimerThread] = {} /\ starting' = starting
    BY <1>0, <1>1, LoopMoves DEF StartPart
  <2> QED
    BY <2>1, <1>0, <1>1, LoopMoves DEF StartPart
<1>2. CASE Interrupt
  BY <1>2, InterruptStays DEF StartPart
<1>3. ASSUME NEW t \in App, Calls(t) PROVE StartPart'
  <2>0. t \in Thread
    BY DEF App
  <2>1. ASSUME NEW l \in Location, NEW X \in SUBSET Timer, GotoWith(t, l, X),
               X # {} => l \in {"started", "tested", "resume", "resume2"},
               t = TimerThread => l \notin {"tested", "resume", "resume2", "resume3"}
        PROVE  StartPart'
    BY <2>0, <2>1, <1>0 DEF StartPart, GotoWith, Goto
  <2>2. ASSUME NEW l \in Location, Goto(t, l), starting' = starting,
               starting[t] = {} \/ l \in {"started", "tested", "resume", "resume2"},
               t = TimerThread => l \notin {"tested", "resume", "resume2", "resume3"}
        PROVE  StartPart'
    BY <2>0, <2>2, <1>0 DEF StartPart, Goto
  <2>3. ASSUME NEW x \in Timer, Start(t, x) PROVE StartPart'
    BY <2>1, <2>3 DEF Start, Location
  <2>4. ASSUME NEW x \in Timer, Stop(t, x) \/ Control(t, x) \/ Detach(t, x) \/ Create(t, x)
        PROVE  StartPart'
    BY <2>4 DEF Stop, Control, Detach, Create, StartPart
  <2>5. CASE StartTestsStatus(t)
    <3>1. pc[t] = "started"
      BY <2>5 DEF StartTestsStatus, At
    <3>2. t = TimerThread => status = "BUSY"
      BY <3>1 DEF SoftInv, PlacePart, InCode
    <3>3. CASE status = "IDLE"
      BY <3>2, <3>3, <2>2, <2>5 DEF StartTestsStatus, Location
    <3>4. CASE status # "IDLE"
      BY <3>4, <2>1, <2>5 DEF StartTestsStatus, Location
    <3> QED
      BY <3>3, <3>4
  <2>6. CASE StartTestsThread(t)
    <3>1. t # TimerThread
      BY <2>6 DEF StartTestsThread, At, StartPart
    <3>2. CASE Suspended(k, TimerThread)
      BY <3>1, <3>2, <2>2, <2>6 DEF StartTestsThread, Location
    <3>3. CASE ~ Suspended(k, TimerThread)
      BY <3>3, <2>1, <2>6 DEF StartTestsThread, Location
    <3> QED
      BY <3>2, <3>3
  <2>7. CASE ResumeTests(t)
    <3>1. t # TimerThread
      BY <2>7 DEF ResumeTests, At, StartPart
    <3>2. CASE Suspended(k, TimerThread)
      BY <3>1, <3>2, <2>2, <2>7 DEF ResumeTests, Location
    <3>3. CASE ~ Suspended(k, TimerThread)
      BY <3>3, <2>1, <2>7 DEF ResumeTests, Location
    <3> QED
      BY <3>2, <3>3
  <2>8. CASE ResumeUnlinks(t)
    <3>1. t # TimerThread /\ GotoWith(t, "resume3", {})
      BY <2>8 DEF ResumeUnlinks, At, StartPart
    <3> QED
      BY <3>1, <2>1 DEF Location
  <2>9. CASE \/ ResumeInserts(t) \/ Reschedule(t) \/ Nap(t) \/ NapSchedules(t) \/ NapEnds(t)
             \/ \E u \in App : Startup(t, u)
    <3>1. PICK l \in {"resched", "run", "nap", "napped"} : Goto(t, l) /\ starting' = starting
      BY <2>9 DEF ResumeInserts, Reschedule, Nap, NapSchedules, NapEnds, Startup
    <3>2. pc[t] \in {"resume3", "resched", "run", "nap", "napped"}
      BY <2>9 DEF ResumeInserts, Reschedule, Nap, NapSchedules, NapEnds, Startup, At
    <3>3. starting[t] = {} /\ l \in Location
      BY <3>2, <2>0 DEF StartPart, Location
    <3> QED
      BY <3>1, <3>3, <2>2
  <2> QED
    BY <1>3, <2>3, <2>4, <2>5, <2>6, <2>7, <2>8, <2>9, CallsCases
<1> QED
  BY <1>1, <1>2, <1>3 DEF Next

-----------------------------------------------------------------------------
(* The timer thread runs at once. *)

\* While the timer thread is not waiting it is the current thread.
LEMMA TimerThreadRuns ==
    ASSUME SoftInv, PromptPart, pc[TimerThread] \notin Waiting
    PROVE  k.cur = TimerThread /\ k.stat[TimerThread] = "RUNNING"
<1>1. k.stat[TimerThread] \in Stat /\ ThreadOK(k, TimerThread)
  BY TimerThreadIsApp, SoundFacts DEF SoftInv, KernelPart, KernelState
<1>2. ~ Suspended(k, TimerThread)
  BY TimerThreadIsApp DEF SoftInv, KernelPart, WaitersWait
<1>3. k.stat[TimerThread] = "RUNNING"
  BY <1>1, <1>2 DEF PromptPart, Stat, Suspended
<1> QED
  BY <1>1, <1>3 DEF ThreadOK

\* A step of a thread that has not just resumed another one.
LEMMA PromptSame ==
    ASSUME PromptPart, NEW t, NEW l, At(t, l), l # "resched",
           k'.stat[TimerThread] = k.stat[TimerThread] \/ Suspended(k', TimerThread)
    PROVE  PromptPart'
<1>1. k.stat[TimerThread] # "READY"
  BY DEF PromptPart, At
<1> QED
  BY <1>1 DEF PromptPart, Suspended, SuspendFlag

\* rt_schedule gives the processor to the timer thread.
LEMMA PromptSchedules ==
    ASSUME Urgent, NEW i, Sound(i), i.lock = 0, i.prio = InitPrio,
           i.stat[TimerThread] \notin {"INIT", "CLOSE"}, k' = rt_schedule(i)
    PROVE  PromptPart'
<1>1. \A u \in Thread \ {TimerThread} : i.prio[TimerThread] < i.prio[u]
  BY DEF Urgent
<1>2. k'.stat[TimerThread] # "READY"
  BY <1>1, TimerThreadIsApp, ScheduleUrgent
<1>3. SameActivity(i, k', TimerThread)
  BY TimerThreadIsApp, ScheduleFrame DEF Calm
<1> QED
  BY <1>2, <1>3 DEF PromptPart, SameActivity, Active

\* The timer thread runs as soon as it is ready and rt_schedule is called.
LEMMA PromptKept ==
    ASSUME Urgent, SoftInv, StartPart, PromptPart, ResumePart, Next
    PROVE  PromptPart'
<1>0. /\ Sound(k) /\ k.lock = 0 /\ k.prio = InitPrio
      /\ k.stat[TimerThread] \notin {"INIT", "CLOSE"}
  BY DEF SoftInv, KernelPart, PromptPart
<1>1. CASE TimerThreadStep
  <2>1. CASE ReadNext \/ ReadTick \/ CheckExpires \/ CallbackReturns \/ CheckEnds
    <3>1. k' = k
      BY <2>1 DEF ReadNext, ReadTick, CheckExpires, CallbackReturns, CheckEnds
    <3>2. PICK l \in {"next", "test", "check", "run"} : At(TimerThread, l)
      BY <2>1 DEF ReadNext, ReadTick, CheckExpires, CallbackReturns, CheckEnds
    <3> QED
      BY <3>1, <3>2, PromptSame
  <2>2. CASE SuspendSelf
    <3>1. Suspended(k', TimerThread) /\ At(TimerThread, "test")
      BY <2>2, SuspendSelfKeeps DEF SuspendSelf
    <3> QED
      BY <3>1, PromptSame
  <2>3. CASE Sleep
    <3>1. At(TimerThread, "sleep") /\ k' = rt_thread_sleep(k, TimerThread)
      BY <2>3 DEF Sleep
    <3>2. k.stat[TimerThread] = "RUNNING" /\ k.sig[TimerThread] = {}
      BY <3>1, TimerThreadIsApp, Running DEF SoftInv, KernelPart
    <3>3. Suspended(k', TimerThread)
      BY <3>1, <3>2, <1>0, TimerThreadIsApp, SleepSound
    <3> QED
      BY <3>1, <3>3, PromptSame
  <2>4. CASE Pause
    BY <2>4, <1>0, PromptSchedules DEF Pause
  <2>5. CASE PauseEnds
    <3>1. /\ At(TimerThread, "paused") /\ Goto(TimerThread, "check")
          /\ k' = ClearTimeout(k, TimerThread)
      BY <2>5 DEF PauseEnds
    <3>2. k.cur = TimerThread /\ k.stat[TimerThread] = "RUNNING"
      BY <3>1, Running, TimerThreadIsApp
    <3>3. k'.stat = k.stat
      BY <3>1, <3>2, KernelClears, TimerThreadIsApp DEF Location
    <3> QED
      BY <3>1, <3>3, PromptSame
  <2> QED
    BY <1>1, <2>1, <2>2, <2>3, <2>4, <2>5 DEF TimerThreadStep
<1>2. ASSUME NEW t \in App, Calls(t) PROVE PromptPart'
  <2>0. t \in Thread
    BY DEF App
  <2>1. CASE \/ StartTestsStatus(t) \/ StartTestsThread(t) \/ ResumeTests(t)
             \/ \E x \in Timer : Start(t, x) \/ Stop(t, x) \/ Control(t, x)
                                 \/ Detach(t, x) \/ Create(t, x)
    <3>1. k' = k
      BY <2>1 DEF StartTestsStatus, StartTestsThread, ResumeTests, Start, Stop, Control, Detach,
                  Create
    <3>2. PICK l \in {"run", "started", "tested", "resume"} : At(t, l)
      BY <2>1 DEF StartTestsStatus, StartTestsThread, ResumeTests, Start, Stop, Control, Detach,
                  Create, Uses
    <3> QED
      BY <3>1, <3>2, PromptSame
  <2>2. CASE ResumeUnlinks(t)
    <3>1. At(t, "resume2") /\ k'.stat = k.stat
      BY <2>2, ResumeUnlinksKeeps DEF ResumeUnlinks
    <3> QED
      BY <3>1, PromptSame
  <2>7. CASE ResumeInserts(t)
    <3>1. /\ t # TimerThread /\ k.cur = t /\ k'.cur = t /\ Suspended(k, TimerThread)
          /\ k'.stat[TimerThread] \in Active /\ Goto(t, "resched")
      BY <2>7, ResumeInsertsKeeps DEF ResumeInserts
    <3>2. pc[TimerThread] \in Waiting
      BY <3>1, TimerThreadIsApp DEF SoftInv, KernelPart, WaitersWait
    <3>3. pc'[t] = "resched" /\ pc'[TimerThread] = pc[TimerThread]
      BY <3>1, <2>0, TimerThreadIsApp DEF Goto, SoftInv, PlacePart
    <3> QED
      BY <3>1, <3>2, <3>3 DEF PromptPart, Active
  <2>3. CASE Reschedule(t) \/ NapSchedules(t)
    BY <2>3, <1>0, PromptSchedules DEF Reschedule, NapSchedules
  <2>4. CASE Nap(t)
    <3>1. At(t, "run") /\ k' = rt_thread_sleep(k, t)
      BY <2>4 DEF Nap
    <3>2. k.stat[t] = "RUNNING" /\ k.sig[t] = {}
      BY <3>1, <2>0, Running DEF SoftInv, KernelPart
    <3>3. Suspended(k', t) /\ \A u \in Thread \ {t} : k'.stat[u] = k.stat[u]
      BY <3>1, <3>2, <1>0, SleepSound
    <3> QED
      BY <3>1, <3>3, TimerThreadIsApp, PromptSame
  <2>5. CASE NapEnds(t)
    <3>1. At(t, "napped") /\ Goto(t, "run") /\ k' = ClearTimeout(k, t)
      BY <2>5 DEF NapEnds
    <3>2. k.cur = t /\ k.stat[t] = "RUNNING"
      BY <3>1, <2>0, Running
    <3>3. k'.stat = k.stat
      BY <3>1, <3>2, <2>0, KernelClears DEF Location
    <3> QED
      BY <3>1, <3>3, PromptSame
  <2>6. ASSUME NEW u \in App, Startup(t, u) PROVE PromptPart'
    <3>1. /\ At(t, "run") /\ k.cur = t /\ t # TimerThread
          /\ k.stat[u] = "INIT" /\ k' = rt_thread_startup(k, u)
      BY <2>6 DEF Startup, At
    <3>2. u # TimerThread /\ SameActivity(k, k', TimerThread)
      BY <3>1, <1>0, TimerThreadIsApp, StartupFrame DEF Wakes, OthersKeep
    <3>3. k.stat[TimerThread] # "READY"
      BY <3>1 DEF PromptPart, At
    <3>4. k.stat[TimerThread] # "RUNNING"
      BY <3>1, <1>0, TimerThreadIsApp, SoundFacts DEF ThreadOK
    <3>5. k'.stat[TimerThread] = k.stat[TimerThread]
      BY <3>2, <3>3, <3>4 DEF SameActivity, Active
    <3> QED
      BY <3>1, <3>5, PromptSame
  <2> QED
    BY <1>2, <2>1, <2>2, <2>3, <2>4, <2>5, <2>6, <2>7, CallsCases
<1>3. ASSUME NEW t \in Thread, t \in k.timer, k' = rt_thread_timeout(k, t) PROVE PromptPart'
  <2>1. PICK i : /\ Sound(i) /\ k' = rt_schedule(i) /\ Wakes(k, i, t)
                 /\ i.cur = k.cur /\ i.prio = k.prio
    BY <1>0, <1>3, TimeoutTimers
  <2>2. i.lock = 0 /\ i.prio = InitPrio
    BY <2>1, <1>0 DEF Wakes
  <2>3. i.stat[TimerThread] \notin {"INIT", "CLOSE"}
    BY <2>1, <1>0, TimerThreadIsApp DEF Wakes, OthersKeep, SameActivity, Active
  <2> QED
    BY <2>1, <2>2, <2>3, PromptSchedules
<1>4. CASE Interrupt
  <2>1. CASE ClockTick
    <3>1. /\ pc' = pc
          /\ k' = k \/ (TimerThread \in k.timer /\ k' = rt_thread_timeout(k, TimerThread))
      BY <2>1 DEF ClockTick
    <3>2. CASE k' = k
      BY <3>1, <3>2 DEF PromptPart
    <3> QED
      BY <3>1, <3>2, <1>3, TimerThreadIsApp
  <2>2. CASE TimeSlice
    <3>1. PICK i : i = [k EXCEPT !.yield = @ \cup {k.cur}]
      OBVIOUS
    <3>2. /\ i \in KernelState /\ i.list = k.list /\ i.group = k.group /\ i.stat = k.stat
          /\ i.cur = k.cur /\ i.prio = k.prio /\ i.timer = k.timer /\ i.lock = k.lock
      BY <3>1, <1>0, SoundFacts DEF KernelState
    <3>3. Sound(i)
      BY <3>2, <1>0, MiscSound DEF Sound
    <3>4. k' = rt_schedule(i)
      BY <3>1, <2>2 DEF TimeSlice, TimeSliceEnds
    <3> QED
      BY <3>2, <3>3, <3>4, <1>0, PromptSchedules
  <2>3. ASSUME NEW t \in App, ThreadTimer(t) PROVE PromptPart'
    BY <2>3, <1>3 DEF ThreadTimer, App
  <2> QED
    BY <1>4, <2>1, <2>2, <2>3 DEF Interrupt
<1> QED
  BY <1>1, <1>2, <1>4 DEF Next

-----------------------------------------------------------------------------
(* One resume at a time. *)

\* A step that makes no thread resume, and does not disturb the timer thread if it is
\* suspended without a timeout.
LEMMA ResumeSame ==
    ASSUME ResumePart,
           \A t \in App : pc'[t] \in {"resume2", "resume3"} => pc'[t] = pc[t],
           Suspended(k, TimerThread) /\ TimerThread \notin k.timer
                => Suspended(k', TimerThread) /\ TimerThread \notin k'.timer
    PROVE  ResumePart'
  BY DEF ResumePart

\* A step of the timer thread while it is not suspended.
LEMMA ResumeRunning ==
    ASSUME SoftInv, ResumePart, ~ Suspended(k, TimerThread),
           pc'[TimerThread] \notin {"resume2", "resume3"},
           \A u \in Thread \ {TimerThread} : pc'[u] = pc[u]
    PROVE  ResumePart'
<1>1. \A t \in App : pc'[t] \in {"resume2", "resume3"} => pc'[t] = pc[t]
  BY DEF App
<1> QED
  BY <1>1 DEF ResumePart

\* Until two resumes overlap one thread at most resumes the timer thread.
LEMMA ResumeKept ==
    ASSUME SoftInv, StartPart, PromptPart, ResumePart, StartPart', Next, ~ crossed'
    PROVE  ResumePart'
<1>0. TimerThread \in Thread /\ App \subseteq Thread /\ pc \in [Thread -> Location]
  BY TimerThreadIsApp DEF App, SoftInv, PlacePart
<1>1. ASSUME k.cur = TimerThread,
             \A u \in Thread \ {TimerThread} : pc'[u] = pc[u],
             pc[TimerThread] \in {"pause", "nap"} => k' = rt_schedule(k)
      PROVE  ResumePart'
  <2>1. pc'[TimerThread] \notin {"resume2", "resume3"}
    BY DEF StartPart
  <2>2. CASE pc[TimerThread] \in {"pause", "nap"}
    <3>1. \A t \in App : pc'[t] \in {"resume2", "resume3"} => pc'[t] = pc[t]
      BY <2>1, <1>0, <1>1
    <3> QED
      BY <3>1, <2>2, <1>1, ScheduleUndisturbed, ResumeSame DEF Undisturbed
  <2>3. CASE pc[TimerThread] \notin {"pause", "nap"}
    <3>1. ~ Suspended(k, TimerThread)
      BY <2>3, <1>0, <1>1, Running DEF At
    <3> QED
      BY <3>1, <2>1, <1>1, ResumeRunning
  <2> QED
    BY <2>2, <2>3
<1>2. CASE TimerThreadStep
  <2>1. pc[TimerThread] \in {"pause", "nap"} => k' = rt_schedule(k)
    BY <1>2, LoopMoves
  <2> QED
    BY <2>1, <1>1, <1>2, LoopMoves
<1>3. CASE Interrupt
  <2>1. pc' = pc
    BY <1>3, InterruptStays
  <2> QED
    BY <2>1, <1>3, InterruptUndisturbed, ResumeSame DEF Undisturbed
<1>4. ASSUME NEW t \in App, Calls(t) PROVE ResumePart'
  <2>0. t \in Thread /\ k.cur = t /\ \A u \in Thread \ {t} : pc'[u] = pc[u]
    BY <1>4, CallsMove
  <2>1. CASE t = TimerThread
    <3>1. pc[t] \in {"pause", "nap"} => k' = rt_schedule(k)
      BY <1>4, CallsCases
         DEF Start, Stop, Control, Detach, Create, StartTestsStatus, StartTestsThread,
             ResumeTests, ResumeUnlinks, ResumeInserts, Reschedule, Nap, NapSchedules, NapEnds,
             Startup, Uses, At
    <3> QED
      BY <3>1, <2>0, <2>1, <1>1
  <2>2. CASE t # TimerThread /\ ResumeTests(t)
    <3>1. k' = k /\ At(t, "resume")
      BY <2>2 DEF ResumeTests
    <3>2. CASE Suspended(k, TimerThread)
      <4>1. pc'[t] = "resume2"
        BY <3>2, <2>0, <2>2, <1>0 DEF ResumeTests, Goto
      <4>2. ~ Resuming
        BY <3>2, <2>2 DEF ResumeTests
      <4>3. \A u \in App \ {t} : pc'[u] \notin {"resume2", "resume3"}
        BY <4>2, <2>0, <1>0 DEF Resuming
      <4> QED
        BY <4>1, <4>3 DEF ResumePart
    <3>3. CASE ~ Suspended(k, TimerThread)
      <4>1. pc'[t] = "resched"
        BY <3>3, <2>0, <2>2, <1>0 DEF ResumeTests, GotoWith, Goto
      <4>2. \A u \in App : pc'[u] \in {"resume2", "resume3"} => pc'[u] = pc[u]
        BY <4>1, <2>0, <1>0
      <4> QED
        BY <4>2, <3>1, ResumeSame
    <3> QED
      BY <3>2, <3>3
  <2>3. CASE ResumeUnlinks(t) \/ ResumeInserts(t)
    <3>1. pc[t] \in {"resume2", "resume3"}
      BY <2>3 DEF ResumeUnlinks, ResumeInserts, At
    <3>2. \A u \in App \ {t} : pc'[u] \notin {"resume2", "resume3"}
      BY <3>1, <2>0, <1>0 DEF ResumePart
    <3>3. CASE ResumeUnlinks(t)
      <4>1. Suspended(k', TimerThread) /\ TimerThread \notin k'.timer
        BY <3>3, ResumeUnlinksKeeps
      <4> QED
        BY <4>1, <3>2 DEF ResumePart
    <3>4. CASE ResumeInserts(t)
      <4>1. pc'[t] = "resched"
        BY <3>4, <2>0, <1>0 DEF ResumeInserts, Goto
      <4> QED
        BY <4>1, <3>2 DEF ResumePart
    <3> QED
      BY <2>3, <3>3, <3>4
  <2>4. CASE t # TimerThread /\ ~ ResumeTests(t) /\ ~ ResumeUnlinks(t) /\ ~ ResumeInserts(t)
    <3>1. \/ pc' = pc
          \/ \E l \in {"started", "tested", "resume", "resched", "run", "nap", "napped"} : Goto(t, l)
      BY <1>4, <2>4, CallsCases
         DEF Start, Stop, Control, Detach, Create, StartTestsStatus, StartTestsThread,
             Reschedule, Nap, NapSchedules, NapEnds, Startup, GotoWith
    <3>2. \A u \in App : pc'[u] \in {"resume2", "resume3"} => pc'[u] = pc[u]
      BY <3>1, <2>0, <1>0 DEF Goto
    <3> QED
      BY <3>2, <1>4, <2>4, CallsUndisturbed, ResumeSame DEF Undisturbed
  <2> QED
    BY <2>1, <2>2, <2>3, <2>4
<1> QED
  BY <1>2, <1>3, <1>4 DEF Next

-----------------------------------------------------------------------------
(* The theorems. *)

\* The timer thread is started and the first rt_schedule has been called.
LEMMA InitKernel ==
    ASSUME Init
    PROVE  KernelPart /\ k.stat[TimerThread] \in Active /\ k.timer = {}
<1>1. PICK main \in App \ {TimerThread} :
        k = rt_schedule(rt_thread_startup(KernelStart(main), TimerThread))
  BY DEF Init
<1>2. PICK i : i = KernelStart(main)
  OBVIOUS
<1>3. PICK j : j = rt_thread_startup(i, TimerThread)
  OBVIOUS
<1>4. /\ main \in Thread /\ main # TimerThread
      /\ \A t \in Thread : pc[t] = IF t = TimerThread THEN "next" ELSE "run"
  BY <1>1 DEF App, Init
<1>5. /\ i.lock = 0 /\ i.prio = InitPrio /\ i.stat[TimerThread] = "INIT" /\ i.timer = {}
      /\ \A t \in Thread : i.sig[t] = {}
      /\ \A t \in Thread : ~ Suspended(i, t)
  BY <1>2, <1>4, TimerThreadIsApp DEF KernelStart, Suspended, SuspendFlag
<1>6. Sound(i)
  BY <1>1, <1>2, KernelStartSound
<1>7. /\ Sound(j) /\ Wakes(i, j, TimerThread) /\ j.timer = {} /\ j.sig = i.sig
      /\ j.prio = [i.prio EXCEPT ![TimerThread] = InitPrio[TimerThread]]
  BY <1>3, <1>5, <1>6, TimerThreadIsApp, StartupSound, StartupFrame, StartupTimers
<1>8. j.prio = InitPrio /\ j.lock = 0 /\ j.stat[TimerThread] \in Active
  BY <1>5, <1>7, TimerThreadIsApp, KernelAssumption DEF Wakes
<1>9. \A t \in Thread : ~ Suspended(j, t)
  BY <1>5, <1>6, <1>7, TimerThreadIsApp, WakesLinks
<1>10. k = rt_schedule(j)
  BY <1>1, <1>2, <1>3
<1>11. /\ Sound(k) /\ Calm(j, k) /\ k.prio = j.prio /\ k.timer = j.timer /\ k.sig = j.sig
       /\ k.stat[k.cur] = "RUNNING"
  BY <1>7, <1>8, <1>10, ScheduleSound, ScheduleFrame, ScheduleRuns
<1>12. \A t \in Thread : ~ Suspended(k, t)
  BY <1>7, <1>9, <1>11, CalmLinks
<1>13. k.lock = 0 /\ k.stat[TimerThread] \in Active
  BY <1>8, <1>11, TimerThreadIsApp DEF Calm, SameActivity
<1> QED
  BY <1>5, <1>7, <1>8, <1>11, <1>12, <1>13 DEF KernelPart, WaitersWait, CurrentRuns

\* The initial states satisfy the invariant.
LEMMA InitHolds == Init => SoftInv
<1> SUFFICES ASSUME Init PROVE SoftInv
  OBVIOUS
<1>1. KernelPart
  BY InitKernel
<1>2. TimersOK(w) /\ w.list = <<>> /\ w.temp = {}
  BY TimerStartupSound DEF Init
<1>3. TimerPart
  <2>1. ToSet(w.list) = {}
    BY <1>2 DEF ToSet
  <2> QED
    BY <2>1, <1>2 DEF TimerPart, Init
<1>4. 0 \in Tick
  BY HalfFacts
<1>5. PlacePart
  <2>1. pc = [t \in Thread |-> IF t = TimerThread THEN "next" ELSE "run"] /\ status = "IDLE"
    BY DEF Init
  <2> QED
    BY <2>1, <1>4, TimerThreadIsApp DEF Init, PlacePart, InCode, Location
<1> QED
  BY <1>1, <1>3, <1>5 DEF SoftInv

\* At the start the timer thread is running.
LEMMA InitRuns ==
    ASSUME Urgent, Init
    PROVE  RunInv
<1>1. SoftInv
  BY InitHolds
<1>2. /\ \A t \in Thread : pc[t] = IF t = TimerThread THEN "next" ELSE "run"
      /\ starting = [t \in Thread |-> {}]
  BY DEF Init
<1>3. k.stat[TimerThread] \notin {"INIT", "CLOSE"}
  BY InitKernel DEF Active
<1>4. k.stat[TimerThread] # "READY"
  <2>1. PICK main \in App \ {TimerThread} :
          k = rt_schedule(rt_thread_startup(KernelStart(main), TimerThread))
    BY DEF Init
  <2>2. PICK i : i = KernelStart(main)
    OBVIOUS
  <2>3. PICK j : j = rt_thread_startup(i, TimerThread)
    OBVIOUS
  <2>4. main \in App /\ i.lock = 0 /\ i.prio = InitPrio /\ i.stat[TimerThread] = "INIT"
    BY <2>1, <2>2, TimerThreadIsApp DEF KernelStart
  <2>5. Sound(i)
    BY <2>2, <2>4, KernelStartSound
  <2>6. /\ Sound(j) /\ Wakes(i, j, TimerThread)
        /\ j.prio = [i.prio EXCEPT ![TimerThread] = InitPrio[TimerThread]]
    BY <2>3, <2>4, <2>5, TimerThreadIsApp, StartupSound, StartupFrame
  <2>7. j.prio = InitPrio /\ j.lock = 0
    BY <2>4, <2>6, TimerThreadIsApp, KernelAssumption DEF Wakes
  <2>8. \A u \in Thread \ {TimerThread} : j.prio[TimerThread] < j.prio[u]
    BY <2>7 DEF Urgent
  <2>9. k = rt_schedule(j)
    BY <2>1, <2>2, <2>3
  <2> QED
    BY <2>6, <2>7, <2>8, <2>9, TimerThreadIsApp, ScheduleUrgent
<1>5. StartPart
  BY <1>2, TimerThreadIsApp DEF StartPart
<1>6. ResumePart
  BY <1>2 DEF ResumePart, App
<1> QED
  BY <1>1, <1>3, <1>4, <1>5, <1>6 DEF RunInv, PromptPart

\* Every step keeps the invariant.
LEMMA StepKeeps ==
    ASSUME SoftInv, StartPart, PromptPart, ResumePart, Next
    PROVE  SoftInv'
<1>1. CASE TimerThreadStep
  BY <1>1, ReadNextKeeps, SuspendSelfKeeps, ReadTickKeeps, SleepKeeps, PauseKeeps,
     PauseEndsKeeps, CheckExpiresKeeps, CallbackReturnsKeeps, CheckEndsKeeps
     DEF TimerThreadStep
<1>2. ASSUME NEW t \in App, Calls(t) PROVE SoftInv'
  <2>1. ASSUME NEW x \in Timer,
               Start(t, x) \/ Stop(t, x) \/ Control(t, x) \/ Detach(t, x) \/ Create(t, x)
        PROVE  SoftInv'
    BY <2>1, StartKeeps, ListCallsKeep
  <2>2. ASSUME NEW u \in App, Startup(t, u) PROVE SoftInv'
    BY <2>2, StartupKeeps
  <2> QED
    BY <1>2, <2>1, <2>2, TestsKeep, ResumeUnlinksKeeps, ResumeInsertsKeeps, RescheduleKeeps,
       NapKeeps, NapSchedulesKeeps, NapEndsKeeps, CallsCases
<1> QED
  BY <1>1, <1>2, InterruptKeeps DEF Next

\* So it does until two resumes overlap, which does not become undone.
LEMMA RunStep ==
    ASSUME Urgent, UntilCrossed, [Next]_vars
    PROVE  /\ UntilCrossed'
           /\ ~ crossed' => ~ crossed /\ (Next => RunInv')
<1>1. TimerPart'
  BY TimerKept DEF UntilCrossed
<1>2. CASE UNCHANGED vars
  BY <1>2, <1>1 DEF vars, UntilCrossed, RunInv, SoftInv, KernelPart, WaitersWait, CurrentRuns,
                    PlacePart, StartPart, PromptPart, ResumePart
<1>3. CASE Next
  <2>1. crossed' \in BOOLEAN /\ (crossed => crossed')
    <3>1. ASSUME NEW t \in App, Calls(t) PROVE crossed' \in BOOLEAN /\ (crossed => crossed')
      BY <3>1, CallsCases
         DEF Start, Stop, Control, Detach, Create, StartTestsStatus, StartTestsThread,
             ResumeTests, ResumeUnlinks, ResumeInserts, Reschedule, Nap, NapSchedules, NapEnds,
             Startup, UntilCrossed
    <3>2. CASE TimerThreadStep
      BY <3>2 DEF TimerThreadStep, ReadNext, SuspendSelf, ReadTick, Sleep, Pause, PauseEnds,
                  CheckExpires, CallbackReturns, CheckEnds, UntilCrossed
    <3> QED
      BY <3>1, <3>2, <1>3, InterruptStays DEF Next, UntilCrossed
  <2>2. ASSUME ~ crossed' PROVE RunInv'
    <3>1. SoftInv /\ StartPart /\ PromptPart /\ ResumePart
      BY <2>1, <2>2 DEF UntilCrossed, RunInv
    <3>2. StartPart'
      BY <3>1, <1>3, StartKept
    <3> QED
      BY <3>1, <3>2, <2>2, <1>3, StepKeeps, PromptKept, ResumeKept DEF RunInv
  <2> QED
    BY <2>1, <2>2, <1>1 DEF UntilCrossed
<1> QED
  BY <1>2, <1>3

\* The invariant holds until two calls of rt_thread_resume for the timer thread
\* overlap, if the timer thread is the most urgent thread.
THEOREM SoftTimerInvariant ==
    ASSUME Urgent
    PROVE  Spec => []UntilCrossed
<1>1. Init => UntilCrossed
  <2>1. Init => crossed = FALSE
    BY DEF Init
  <2> QED
    BY <2>1, InitRuns DEF UntilCrossed, RunInv, SoftInv
<1>2. UntilCrossed /\ [Next]_vars => UntilCrossed'
  BY RunStep
<1> QED
  BY <1>1, <1>2, PTL DEF Spec

\* The ready table, the lists and the thread states agree, and the variables of the
\* timer thread, the difference next_timeout - current_tick of rt_thread_timer_entry
\* among them, have their types, through every interleaving of the three stretches
\* of rt_thread_resume with ticks, time slices and the timer thread, until two of
\* these calls overlap.
THEOREM SoftTimerKernel ==
    ASSUME Urgent
    PROVE  Spec => []KernelInv
<1>1. UntilCrossed => KernelInv
  BY DEF UntilCrossed, RunInv, SoftInv, KernelPart, TimerPart, TimersOK, PlacePart, StartPart,
         KernelInv, TypeOK, Sound
<1> QED
  BY <1>1, SoftTimerInvariant, PTL

\* The list of soft timers stays ordered by time and holds only timers that exist,
\* whatever threads and timeout functions do to them between the steps of
\* rt_soft_timer_check, and whatever becomes of the timer thread.
THEOREM SoftTimerList == Spec => []ListInv
<1>1. Init => TimerPart
  BY InitHolds DEF SoftInv
<1>2. TimerPart /\ [Next]_vars => TimerPart'
  BY TimerKept
<1>3. TimerPart => ListInv
  BY TimersFacts DEF TimerPart, ListInv
<1> QED
  BY <1>1, <1>2, <1>3, PTL DEF Spec

-----------------------------------------------------------------------------
(* The timer thread wakes in time, when it is the most urgent thread and   *)
(* rt_tick is in the first half of its range: a timer whose timeout_tick   *)
(* is RT_TICK_MAX would be taken for an empty list.                        *)

FirstHalf == LastTick < Half

\* Ticks are plain numbers: no timer is due after the tick wraps around.
PlainPart ==
    /\ w.tick <= LastTick
    /\ \A x \in ToSet(w.list) : w.timeout[x] < w.tick + Half

\* What the timer thread has read is what the list holds.
ReadPart ==
    /\ pc[TimerThread] = "test"
            => next = IF w.list = <<>> THEN RT_TICK_MAX ELSE w.timeout[Head(w.list)]
    /\ pc[TimerThread] = "sleep"
            => w.list # <<>> /\ now + next = w.timeout[Head(w.list)]

\* No rt_thread_resume is about to insert the timer thread.
NoneInserts == \A t \in App : pc[t] # "resume3"

\* The timer is linked, and the rt_timer_start that has linked it has seen to the
\* timer thread.
SeenTo(x) == x \in ToSet(w.list) /\ \A t \in App : x \notin starting[t]

\* The wait ends by itself, and was set for a time that has passed or is no later
\* than any such timer is due.
WakePart ==
    pc[TimerThread] \in {"pause", "paused"} /\ Suspended(k, TimerThread) /\ NoneInserts
        => \A x \in Timer : SeenTo(x) =>
                /\ TimerThread \in k.timer
                /\ now + next < w.tick + Half
                /\ now + next <= w.tick \/ now + next <= w.timeout[x]

\* In the first half of the range a distance is a difference.
LEMMA PlainTicks ==
    ASSUME NEW x \in Tick, NEW y \in Tick, y < Half, x < y + Half
    PROVE  Ticks(x, y) = x - y /\ Minus(x, y) = IF x < y THEN x - y + TickSize ELSE x - y
<1>1. /\ x \in Int /\ y \in Int /\ 0 <= x /\ 0 <= y /\ Half \in Nat /\ TickSize \in Nat
      /\ TickSize = 2 * Half + 1 \/ TickSize = 2 * Half + 2
      /\ TickSize \div 2 \in Nat /\ TickSize \div 2 >= Half /\ TickSize \div 2 <= Half + 1
      /\ Tick = 0 .. TickSize - 1
  BY HalfFacts
<1>2. x - y \in Int
  BY <1>1
<1>3. Minus(x, y) = (x - y) % TickSize
  BY DEF Minus
<1>4. CASE x < y
  <2>1. x - y + TickSize \in Tick
    BY <1>1, <1>4
  <2>2. Minus(x, y) = x - y + TickSize
    BY <2>1, <1>2, <1>3, Reduced
  <2>3. ~ (x - y + TickSize <= TickSize \div 2)
    BY <1>1, <1>4
  <2> QED
    BY <2>2, <2>3, <1>1, <1>4 DEF Ticks
<1>5. CASE ~ (x < y)
  <2>1. x - y \in Tick
    BY <1>1, <1>5
  <2>2. Minus(x, y) = x - y
    BY <2>1, <1>2, <1>3, Reduced
  <2>3. x - y <= TickSize \div 2
    BY <1>1, <1>5
  <2> QED
    BY <2>2, <2>3, <1>5 DEF Ticks
<1> QED
  BY <1>4, <1>5

\* A timer that is started in the first half of the range is not due after the
\* wrap-around.
LEMMA PlainStart ==
    ASSUME NEW x \in Tick, NEW y \in Tick, y < Half, NEW i \in InitTick, Ticks(x, y) = i
    PROVE  x < y + Half
<1>1. /\ x \in Int /\ y \in Int /\ 0 <= x /\ 0 <= y /\ x < TickSize
      /\ Half \in Nat /\ TickSize \in Nat
      /\ TickSize = 2 * Half + 1 \/ TickSize = 2 * Half + 2
      /\ Tick = 0 .. TickSize - 1
      /\ i \in Nat /\ 1 <= i /\ i <= Half - 1
  BY HalfFacts
<1>2. x - y \in Int
  BY <1>1
<1>3. Minus(x, y) = IF x < y THEN x - y + TickSize ELSE x - y
  <2>1. CASE x < y
    <3>1. x - y + TickSize \in Tick
      BY <1>1, <2>1
    <3> QED
      BY <3>1, <2>1, <1>2, Reduced DEF Minus
  <2>2. CASE ~ (x < y)
    <3>1. x - y \in Tick
      BY <1>1, <2>2
    <3> QED
      BY <3>1, <2>2, <1>2, Reduced DEF Minus
  <2> QED
    BY <2>1, <2>2
<1>4. PICK d \in Int : d = Minus(x, y)
  <2>1. x - y \in Int /\ x - y + TickSize \in Int
    BY <1>1
  <2>2. Minus(x, y) \in {x - y, x - y + TickSize}
    BY <1>3
  <2> QED
    BY <2>1, <2>2
<1>5. i = IF d <= TickSize \div 2 THEN d ELSE d - TickSize
  BY <1>4 DEF Ticks
<1>6. d <= TickSize - 1
  BY <1>1, <1>3, <1>4
<1>7. d = i
  BY <1>1, <1>5, <1>6
<1> QED
  BY <1>1, <1>3, <1>4, <1>7

\* The distance tells the tick.
LEMMA TicksSame ==
    ASSUME NEW x \in Tick, NEW z \in Tick, NEW y \in Tick, y < Half, z < y + Half,
           Ticks(x, y) = Ticks(z, y)
    PROVE  x = z
<1>1. /\ x \in Int /\ y \in Int /\ z \in Int /\ 0 <= x /\ 0 <= y /\ 0 <= z /\ x < TickSize
      /\ Half \in Nat /\ TickSize \in Nat
      /\ TickSize = 2 * Half + 1 \/ TickSize = 2 * Half + 2
      /\ TickSize \div 2 \in Nat /\ TickSize \div 2 >= Half
      /\ Tick = 0 .. TickSize - 1
  BY HalfFacts
<1>2. Ticks(z, y) = z - y
  BY PlainTicks
<1>3. x - y \in Int
  BY <1>1
<1>4. CASE x < y + Half
  <2>1. Ticks(x, y) = x - y
    BY <1>4, PlainTicks
  <2>2. x - y = z - y
    BY <2>1, <1>2
  <2> QED
    BY <2>2, <1>1
<1>5. CASE ~ (x < y + Half)
  <2>1. x - y \in Tick
    BY <1>1, <1>5
  <2>2. Minus(x, y) = x - y
    BY <2>1, <1>3, Reduced DEF Minus
  <2>3. Ticks(x, y) = IF x - y <= TickSize \div 2 THEN x - y ELSE x - y - TickSize
    BY <2>2 DEF Ticks
  <2>4. z - y = x - y \/ z - y = x - y - TickSize
    BY <2>3, <1>2
  <2> QED
    BY <2>4, <1>1
<1> QED
  BY <1>4, <1>5

\* The ticks of the list, in numbers.
LEMMA PlainFacts ==
    ASSUME SoftInv, FirstHalf, PlainPart
    PROVE  /\ w.tick \in Tick /\ w.tick \in Int /\ 0 <= w.tick /\ w.tick < Half /\ Half \in Int
           /\ \A x \in ToSet(w.list) :
                /\ x \in Timer /\ w.timeout[x] \in Tick /\ w.timeout[x] \in Int
                /\ Ticks(w.timeout[x], w.tick) = w.timeout[x] - w.tick
                /\ w.timeout[x] < RT_TICK_MAX
<1>1. w \in TimerListState
  BY DEF SoftInv, TimerPart, TimersOK
<1>2. w.tick \in Tick /\ ToSet(w.list) \subseteq Timer /\ \A x \in Timer : w.timeout[x] \in Tick
  BY <1>1, StateFacts
<1>3. /\ Tick \subseteq Nat /\ Half \in Nat /\ TickSize \in Nat /\ LastTick \in Nat
      /\ TickSize >= 2 * Half + 1 /\ RT_TICK_MAX = TickSize - 1
  BY HalfFacts, SoftTimerAssumption DEF RT_TICK_MAX
<1>4. w.tick \in Nat
  BY <1>2, <1>3
<1>5. w.tick < Half
  BY <1>3, <1>4 DEF FirstHalf, PlainPart
<1>6. ASSUME NEW x \in ToSet(w.list)
      PROVE  /\ x \in Timer /\ w.timeout[x] \in Tick /\ w.timeout[x] \in Nat
             /\ Ticks(w.timeout[x], w.tick) = w.timeout[x] - w.tick
             /\ w.timeout[x] < RT_TICK_MAX
  <2>1. x \in Timer /\ w.timeout[x] \in Tick
    BY <1>2
  <2>2. w.timeout[x] \in Nat
    BY <2>1, <1>3
  <2>3. w.timeout[x] < w.tick + Half
    BY DEF PlainPart
  <2>4. Ticks(w.timeout[x], w.tick) = w.timeout[x] - w.tick
    BY <2>1, <2>3, <1>2, <1>5, PlainTicks
  <2>5. w.timeout[x] < RT_TICK_MAX
    BY <2>2, <2>3, <1>3, <1>4, <1>5
  <2> QED
    BY <2>1, <2>2, <2>4, <2>5
<1> QED
  BY <1>2, <1>3, <1>4, <1>5, <1>6

\* Timers that stay are due when they were, and the others are started now.
LEMMA PlainStarts ==
    ASSUME SoftInv, FirstHalf, PlainPart, SoftInv', w'.tick = w.tick,
           \A u \in ToSet(w'.list) :
                \/ u \in ToSet(w.list)
                   /\ Ticks(w'.timeout[u], w'.tick) = Ticks(w.timeout[u], w.tick)
                \/ Ticks(w'.timeout[u], w'.tick) \in InitTick
    PROVE  PlainPart'
<1>1. w.tick \in Tick /\ w.tick < Half
  BY PlainFacts
<1>2. w' \in TimerListState
  BY DEF SoftInv, TimerPart, TimersOK
<1>3. ToSet(w'.list) \subseteq Timer /\ \A x \in Timer : w'.timeout[x] \in Tick
  BY <1>2, StateFacts
<1>4. ASSUME NEW u \in ToSet(w'.list) PROVE w'.timeout[u] < w.tick + Half
  <2>1. w'.timeout[u] \in Tick
    BY <1>3
  <2>2. CASE u \in ToSet(w.list) /\ Ticks(w'.timeout[u], w'.tick) = Ticks(w.timeout[u], w.tick)
    <3>1. w.timeout[u] \in Tick /\ w.timeout[u] < w.tick + Half
      BY <2>2, PlainFacts DEF PlainPart
    <3>2. w'.timeout[u] = w.timeout[u]
      BY <3>1, <2>1, <2>2, <1>1, TicksSame
    <3> QED
      BY <3>1, <3>2
  <2>3. CASE Ticks(w'.timeout[u], w'.tick) \in InitTick
    BY <2>1, <2>3, <1>1, PlainStart
  <2> QED
    BY <2>2, <2>3
<1> QED
  BY <1>4 DEF PlainPart

\* Ticks stay plain numbers.
LEMMA PlainKept ==
    ASSUME SoftInv, FirstHalf, PlainPart, SoftInv', Next
    PROVE  PlainPart'
<1>0. TimersOK(w)
  BY DEF SoftInv, TimerPart
<1>1. CASE w' = w
  BY <1>1 DEF PlainPart
<1>2. CASE CheckExpires
  <2>1. w' = TakeExpired(w) /\ w.list # <<>>
    BY <1>2 DEF CheckExpires, HeadExpired
  <2>2. OnlyUnlinks(w, w')
    BY <2>1, <1>0, TimerTakeSound
  <2> QED
    BY <2>2 DEF OnlyUnlinks, PlainPart
<1>3. CASE CallbackReturns
  <2>1. w' = AfterTimeout(w)
    BY <1>3 DEF CallbackReturns
  <2>2. /\ w'.tick = w.tick
        /\ \A u \in ToSet(w'.list) :
              \/ u \in ToSet(w.list)
                 /\ Ticks(w'.timeout[u], w'.tick) = Ticks(w.timeout[u], w.tick)
              \/ Ticks(w'.timeout[u], w'.tick) = w.init[u]
    BY <2>1, <1>0, TimerAfterSound
  <2>3. ToSet(w'.list) \subseteq Timer
    BY StateFacts DEF SoftInv, TimerPart, TimersOK
  <2>4. \A u \in Timer : w.init[u] \in InitTick
    BY <1>0, StateFacts DEF TimersOK
  <2> QED
    BY <2>2, <2>3, <2>4, PlainStarts
<1>4. ASSUME NEW t \in App, NEW x \in Timer, Start(t, x) PROVE PlainPart'
  <2>1. w' = rt_timer_start(w, x)
    BY <1>4 DEF Start
  <2>2. /\ w'.tick = w.tick /\ ToSet(w'.list) = ToSet(w.list) \cup {x}
        /\ Ticks(w'.timeout[x], w'.tick) = w.init[x]
        /\ \A u \in ToSet(w.list) \ {x} :
              Ticks(w'.timeout[u], w'.tick) = Ticks(w.timeout[u], w.tick)
    <3>1. Started(w, w', x)
      BY <2>1, <1>0, TimerStartSound
    <3> QED
      BY <3>1 DEF Started
  <2>3. w.init[x] \in InitTick
    BY <1>0, StateFacts DEF TimersOK
  <2> QED
    BY <2>2, <2>3, PlainStarts
<1>5. ASSUME NEW t \in App, NEW x \in Timer,
             Stop(t, x) \/ Control(t, x) \/ Detach(t, x) \/ Create(t, x)
      PROVE  PlainPart'
  <2>1. OnlyUnlinks(w, w')
    BY <1>5, ListCalls DEF SoftInv
  <2> QED
    BY <2>1 DEF OnlyUnlinks, PlainPart
<1>6. CASE ClockTick
  <2>1. w'.list = w.list /\ w'.timeout = w.timeout /\ w'.tick = (w.tick + 1) % TickSize
    BY <1>6, TimerTicks DEF SoftInv
  <2>2. w.tick \in Nat /\ LastTick \in Nat /\ LastTick <= TickSize - 1 /\ TickSize \in Nat
    BY PlainFacts, HalfFacts, SoftTimerAssumption
  <2>3. w.tick + 1 <= LastTick
    BY <2>2, <1>6 DEF ClockTick, PlainPart
  <2>4. w.tick + 1 \in Tick /\ w.tick + 1 \in Int
    BY <2>2, <2>3, HalfFacts
  <2>5. w'.tick = w.tick + 1
    BY <2>1, <2>4, Reduced
  <2>6. ASSUME NEW x \in ToSet(w.list) PROVE w.timeout[x] < w.tick + 1 + Half
    <3>1. w.timeout[x] \in Int /\ Half \in Int /\ w.timeout[x] < w.tick + Half
      BY PlainFacts DEF PlainPart
    <3> QED
      BY <3>1, <2>2
  <2> QED
    BY <2>1, <2>3, <2>5, <2>6 DEF PlainPart
<1>7. TimerThreadStep => w' = w \/ CheckExpires \/ CallbackReturns
  BY DEF TimerThreadStep, ReadNext, SuspendSelf, ReadTick, Sleep, Pause, PauseEnds, CheckEnds
<1>8. ASSUME NEW t \in App, Calls(t) PROVE PlainPart'
  <2>1. \/ \E x \in Timer : Start(t, x) \/ Stop(t, x) \/ Control(t, x) \/ Detach(t, x)
                            \/ Create(t, x)
        \/ w' = w
    BY <1>8, CallsCases
       DEF StartTestsStatus, StartTestsThread, ResumeTests, ResumeUnlinks, ResumeInserts,
           Reschedule, Nap, NapSchedules, NapEnds, Startup
  <2> QED
    BY <2>1, <1>1, <1>4, <1>5
<1>9. CASE Interrupt
  BY <1>9, <1>1, <1>6 DEF Interrupt, TimeSlice, ThreadTimer
<1> QED
  BY <1>1, <1>2, <1>3, <1>7, <1>8, <1>9 DEF Next

\* An interrupt moves no thread and no timer, and the tick does not go back.
LEMMA InterruptMoves ==
    ASSUME SoftInv, FirstHalf, PlainPart, Interrupt
    PROVE  /\ pc' = pc /\ next' = next /\ now' = now
           /\ w'.list = w.list /\ w'.timeout = w.timeout
           /\ w'.tick \in Int /\ w.tick <= w'.tick
<1>1. CASE ClockTick
  <2>1. /\ w'.list = w.list /\ w'.timeout = w.timeout /\ w'.tick = (w.tick + 1) % TickSize
        /\ pc' = pc /\ next' = next /\ now' = now
    BY <1>1, TimerTicks DEF SoftInv, ClockTick
  <2>2. w.tick \in Nat /\ w.tick < Half /\ Half \in Nat /\ TickSize \in Nat /\ Half < TickSize - 1
    BY PlainFacts, HalfFacts
  <2>3. w.tick + 1 \in Tick /\ w.tick + 1 \in Int
    BY <2>2, HalfFacts
  <2>4. w'.tick = w.tick + 1
    BY <2>1, <2>3, Reduced
  <2> QED
    BY <2>1, <2>2, <2>3, <2>4
<1>2. CASE TimeSlice \/ \E t \in App : ThreadTimer(t)
  <2>1. w' = w /\ pc' = pc /\ next' = next /\ now' = now
    BY <1>2 DEF TimeSlice, ThreadTimer
  <2>2. w.tick \in Int
    BY PlainFacts
  <2> QED
    BY <2>1, <2>2
<1> QED
  BY <1>1, <1>2 DEF Interrupt

\* Nothing changes in the list between reading the first timeout and sleeping.
LEMMA ReadKept ==
    ASSUME SoftInv, FirstHalf, PlainPart, PromptPart, ReadPart, Next
    PROVE  ReadPart'
<1>0. pc \in [Thread -> Location] /\ TimerThread \in Thread
  BY TimerThreadIsApp DEF SoftInv, PlacePart
<1>1. CASE ReadNext
  <2>1. pc'[TimerThread] = "test" /\ w' = w
    BY <1>0, <1>1 DEF ReadNext, Goto
  <2> QED
    BY <2>1, <1>1 DEF ReadNext, ReadPart
<1>2. CASE ReadTick
  <2>1. /\ pc[TimerThread] = "test" /\ next # RT_TICK_MAX /\ w' = w
    BY <1>2 DEF ReadTick, At
  <2>2. w.list # <<>> /\ next = w.timeout[Head(w.list)]
    BY <2>1 DEF ReadPart
  <2>3. w.list \in Seq(Timer)
    BY StateFacts DEF SoftInv, TimerPart, TimersOK
  <2>4. Head(w.list) \in ToSet(w.list)
    BY <2>2, <2>3, HeadInList
  <2>5. next \in Tick /\ next \in Int /\ next < w.tick + Half /\ w.tick \in Tick
        /\ w.tick \in Int /\ w.tick < Half
    BY <2>2, <2>4, PlainFacts DEF PlainPart
  <2>6. CASE Ahead(Minus(next, w.tick))
    <3>1. pc'[TimerThread] = "sleep" /\ next' = Minus(next, w.tick) /\ now' = w.tick
      BY <2>6, <1>0, <1>2 DEF ReadTick, Goto
    <3>2. Minus(next, w.tick) = IF next < w.tick THEN next - w.tick + TickSize ELSE next - w.tick
      BY <2>5, PlainTicks
    <3>3. Minus(next, w.tick) < Half
      BY <2>6 DEF Ahead, Half
    <3>4. ~ (next < w.tick)
      <4>1. 0 <= next /\ Half \in Nat /\ TickSize \in Nat /\ TickSize >= 2 * Half + 1
        BY <2>5, HalfFacts
      <4> QED
        BY <4>1, <3>2, <3>3, <2>5
    <3>5. next' = next - w.tick
      BY <3>1, <3>2, <3>4
    <3>6. now' + next' = next
      BY <3>1, <3>5, <2>5
    <3> QED
      BY <3>1, <3>6, <2>1, <2>2 DEF ReadPart
  <2>7. CASE ~ Ahead(Minus(next, w.tick))
    <3>1. pc'[TimerThread] = "check"
      BY <2>7, <1>0, <1>2 DEF ReadTick, Goto
    <3> QED
      BY <3>1 DEF ReadPart
  <2> QED
    BY <2>6, <2>7
<1>3. CASE \/ SuspendSelf \/ Sleep \/ Pause \/ PauseEnds
           \/ CheckExpires \/ CallbackReturns \/ CheckEnds
  <2>1. pc'[TimerThread] \in {"pause", "paused", "check", "run", "next"}
    BY <1>0, <1>3 DEF SuspendSelf, Sleep, Pause, PauseEnds, CheckExpires, CallbackReturns,
                      CheckEnds, Goto
  <2> QED
    BY <2>1 DEF ReadPart
<1>4. ASSUME NEW t \in App, Calls(t) PROVE ReadPart'
  <2>1. /\ k.cur = t /\ pc'[t] \in InCode
        /\ \A u \in Thread \ {t} : pc'[u] = pc[u]
    BY <1>4, CallsMove
  <2>2. CASE t = TimerThread
    BY <2>1, <2>2 DEF ReadPart, InCode
  <2>3. CASE t # TimerThread
    <3>1. pc'[TimerThread] \in Waiting
      BY <2>1, <2>3, <1>0, TimerThreadRuns
    <3> QED
      BY <3>1 DEF ReadPart, Waiting
  <2> QED
    BY <2>2, <2>3
<1>5. CASE Interrupt
  BY <1>5, InterruptMoves DEF ReadPart
<1> QED
  BY <1>1, <1>2, <1>3, <1>4, <1>5 DEF Next, TimerThreadStep

\* A step that leaves the wait alone, or ends it.
LEMMA WakeSame ==
    ASSUME SoftInv, FirstHalf, PlainPart, WakePart,
           pc'[TimerThread] \in {"pause", "paused"} => pc[TimerThread] \in {"pause", "paused"},
           Suspended(k', TimerThread)
                => Suspended(k, TimerThread) /\ (TimerThread \in k.timer => TimerThread \in k'.timer),
           NoneInserts' => NoneInserts,
           next' = next, now' = now,
           \A x \in Timer : SeenTo(x)' => SeenTo(x) /\ w'.timeout[x] = w.timeout[x],
           w'.tick \in Int, w.tick <= w'.tick
    PROVE  WakePart'
<1> SUFFICES ASSUME pc'[TimerThread] \in {"pause", "paused"}, Suspended(k', TimerThread),
                    NoneInserts', NEW x \in Timer, SeenTo(x)'
             PROVE  /\ TimerThread \in k'.timer
                    /\ now + next < w'.tick + Half
                    /\ now + next <= w'.tick \/ now + next <= w'.timeout[x]
  BY DEF WakePart
<1>1. /\ TimerThread \in k.timer
      /\ now + next < w.tick + Half
      /\ now + next <= w.tick \/ now + next <= w.timeout[x]
  BY DEF WakePart
<1>2. now \in Int /\ next \in Int
  BY HalfFacts DEF SoftInv, PlacePart
<1>3. w.tick \in Int /\ Half \in Int
  BY PlainFacts
<1>4. now + next < w'.tick + Half
  BY <1>1, <1>2, <1>3
<1>5. now + next <= w'.tick \/ now + next <= w'.timeout[x]
  BY <1>1, <1>2, <1>3
<1> QED
  BY <1>1, <1>4, <1>5

\* The timer thread goes to sleep until the first timer is due.
LEMMA SleepWakes ==
    ASSUME SoftInv, FirstHalf, PlainPart, ReadPart, Sleep
    PROVE  WakePart'
<1>1. w' = w /\ next' = next /\ now' = now /\ pc[TimerThread] = "sleep"
  BY DEF Sleep, At
<1>2. TimerThread \in k'.timer
  BY SleepKeeps
<1>3. w.list # <<>> /\ now + next = w.timeout[Head(w.list)]
  BY <1>1 DEF ReadPart
<1>4. PICK h : h = Head(w.list)
  OBVIOUS
<1>5. TimersOK(w) /\ w.list \in Seq(Timer)
  BY StateFacts DEF SoftInv, TimerPart, TimersOK
<1>6. h \in ToSet(w.list)
  BY <1>3, <1>4, <1>5, HeadInList
<1>7. /\ w.timeout[h] \in Tick /\ w.timeout[h] \in Int
      /\ Ticks(w.timeout[h], w.tick) = w.timeout[h] - w.tick
      /\ w.tick \in Int /\ w.tick < Half /\ Half \in Int
  BY <1>6, PlainFacts
<1>8. - Half < Ticks(w.timeout[h], w.tick)
  <2>1. 0 <= w.timeout[h]
    BY <1>7, HalfFacts
  <2> QED
    BY <2>1, <1>7
<1>9. \A x \in ToSet(w.list) : Ticks(w.timeout[h], w.tick) <= Ticks(w.timeout[x], w.tick)
  BY <1>3, <1>4, <1>5, <1>8, HeadTest
<1>10. ASSUME NEW x \in ToSet(w.list) PROVE w.timeout[h] <= w.timeout[x]
  <2>1. w.timeout[x] \in Int /\ Ticks(w.timeout[x], w.tick) = w.timeout[x] - w.tick
    BY PlainFacts
  <2>2. w.timeout[h] - w.tick <= w.timeout[x] - w.tick
    BY <2>1, <1>7, <1>9
  <2> QED
    BY <2>1, <2>2, <1>7
<1>11. now + next < w.tick + Half
  BY <1>3, <1>4, <1>6 DEF PlainPart
<1> QED
  BY <1>1, <1>2, <1>3, <1>4, <1>10, <1>11 DEF WakePart, SeenTo

\* A call of another thread.
LEMMA CallsWake ==
    ASSUME SoftInv, FirstHalf, PlainPart, StartPart, PromptPart, ResumePart, WakePart,
           NEW t \in App, Calls(t), t # TimerThread
    PROVE  WakePart'
<1>0. /\ t \in Thread /\ k.cur = t /\ next' = next /\ now' = now /\ TimerThread \in Thread
      /\ pc'[TimerThread] = pc[TimerThread] /\ pc \in [Thread -> Location]
      /\ \A u \in Thread \ {t} : pc'[u] = pc[u]
      /\ starting \in [Thread -> SUBSET Timer] /\ App \subseteq Thread
  BY CallsMove, TimerThreadIsApp DEF SoftInv, PlacePart, StartPart, App
<1>a. /\ w.tick \in Int /\ w.tick <= w.tick /\ TimersOK(w) /\ ToSet(w.list) \subseteq Timer
  BY PlainFacts DEF SoftInv, TimerPart
<1>1. ASSUME Undisturbed, w'.tick = w.tick, pc[t] # "resume3",
             \A x \in Timer : SeenTo(x)' => SeenTo(x) /\ w'.timeout[x] = w.timeout[x]
      PROVE  WakePart'
  <2>1. NoneInserts' => NoneInserts
    BY <1>0, <1>1 DEF NoneInserts
  <2> QED
    BY <2>1, <1>0, <1>1, <1>a, WakeSame DEF Undisturbed
<1>2. ASSUME w' = w, starting' = starting
      PROVE  \A x \in Timer : SeenTo(x)' => SeenTo(x) /\ w'.timeout[x] = w.timeout[x]
  BY <1>2 DEF SeenTo
<1>3. ASSUME NEW x \in Timer, Start(t, x) PROVE WakePart'
  <2>1. /\ pc[t] = "run" /\ starting' = [starting EXCEPT ![t] = {x}] /\ k' = k
        /\ w' = rt_timer_start(w, x)
    BY <1>3 DEF Start, Uses, At, GotoWith
  <2>2. starting[t] = {}
    BY <2>1, <1>0 DEF StartPart
  <2>3. Started(w, w', x)
    BY <2>1, <1>a, TimerStartSound
  <2>4. ASSUME NEW y \in Timer, SeenTo(y)' PROVE SeenTo(y) /\ w'.timeout[y] = w.timeout[y]
    <3>1. y # x
      BY <2>1, <2>4, <1>0 DEF SeenTo
    <3>2. y \in ToSet(w'.list) /\ ToSet(w'.list) = ToSet(w.list) \cup {x}
      BY <2>3, <2>4 DEF Started, SeenTo
    <3>3. y \in ToSet(w.list) /\ Ticks(w'.timeout[y], w.tick) = Ticks(w.timeout[y], w.tick)
      BY <3>1, <3>2, <2>3 DEF Started
    <3>4. w'.timeout[y] \in Tick
      BY <2>3, StateFacts DEF Started, TimersOK
    <3>5. w'.timeout[y] = w.timeout[y]
      BY <3>3, <3>4, PlainFacts, TicksSame DEF PlainPart
    <3>6. ASSUME NEW u \in App PROVE y \notin starting[u]
      BY <2>1, <2>2, <2>4, <1>0 DEF SeenTo
    <3> QED
      BY <3>3, <3>5, <3>6 DEF SeenTo
  <2>5. w'.tick = w.tick
    BY <2>3 DEF Started
  <2>6. Undisturbed
    BY <2>1 DEF Undisturbed
  <2> QED
    BY <2>1, <2>4, <2>5, <2>6, <1>1
<1>4. ASSUME NEW x \in Timer, Stop(t, x) \/ Control(t, x) \/ Detach(t, x) \/ Create(t, x)
      PROVE  WakePart'
  <2>1. OnlyUnlinks(w, w') /\ k' = k /\ starting' = starting
    BY <1>4, ListCalls DEF SoftInv
  <2>2. pc[t] = "run"
    BY <1>4 DEF Stop, Control, Detach, Create, Uses, At
  <2>3. \A y \in Timer : SeenTo(y)' => SeenTo(y) /\ w'.timeout[y] = w.timeout[y]
    BY <2>1 DEF SeenTo, OnlyUnlinks
  <2> QED
    BY <2>1, <2>2, <2>3, <1>1 DEF OnlyUnlinks, Undisturbed
<1>5. CASE StartTestsStatus(t)
  <2>1. /\ pc[t] = "started" /\ w' = w /\ k' = k
        /\ status = "IDLE" => starting' = starting
    BY <1>5 DEF StartTestsStatus, At
  <2>2. CASE status = "IDLE"
    BY <2>1, <2>2, <1>1, <1>2 DEF Undisturbed
  <2>3. CASE status # "IDLE"
    <3>1. pc'[TimerThread] \in InCode
      BY <2>3, <1>0 DEF SoftInv, PlacePart
    <3> QED
      BY <3>1 DEF WakePart, InCode
  <2> QED
    BY <2>2, <2>3
<1>6. CASE StartTestsThread(t) \/ ResumeTests(t)
  <2>1. /\ pc[t] \in {"tested", "resume"} /\ w' = w /\ k' = k
        /\ Suspended(k, TimerThread) => starting' = starting
    BY <1>6 DEF StartTestsThread, ResumeTests, At
  <2>2. CASE Suspended(k, TimerThread)
    BY <2>1, <2>2, <1>1, <1>2 DEF Undisturbed
  <2>3. CASE ~ Suspended(k, TimerThread)
    BY <2>1, <2>3 DEF WakePart
  <2> QED
    BY <2>2, <2>3
<1>7. CASE ResumeUnlinks(t)
  <2>1. pc'[t] = "resume3"
    BY <1>0, <1>7 DEF ResumeUnlinks, GotoWith, Goto
  <2> QED
    BY <2>1 DEF WakePart, NoneInserts
<1>8. CASE ResumeInserts(t)
  <2>1. ~ Suspended(k', TimerThread)
    <3>1. k'.stat[TimerThread] \in Active
      BY <1>8, ResumeInsertsKeeps
    <3> QED
      BY <3>1 DEF Active, Suspended, SuspendFlag
  <2> QED
    BY <2>1 DEF WakePart
<1>9. CASE \/ Reschedule(t) \/ Nap(t) \/ NapSchedules(t) \/ NapEnds(t)
           \/ \E u \in App : Startup(t, u)
  <2>1. /\ w' = w /\ starting' = starting /\ pc[t] \in {"run", "resched", "nap", "napped"}
        /\ ~ ResumeUnlinks(t) /\ ~ ResumeInserts(t)
    BY <1>9 DEF Reschedule, Nap, NapSchedules, NapEnds, Startup, At, ResumeUnlinks, ResumeInserts
  <2>2. Undisturbed
    BY <2>1, CallsUndisturbed
  <2> QED
    BY <2>1, <2>2, <1>1, <1>2
<1> QED
  BY <1>3, <1>4, <1>5, <1>6, <1>7, <1>8, <1>9, CallsCases

\* Every step leaves the timer thread with a wait that ends in time.
LEMMA WakeKept ==
    ASSUME SoftInv, FirstHalf, PlainPart, StartPart, PromptPart, ResumePart, ReadPart, WakePart,
           Next
    PROVE  WakePart'
<1>0. pc \in [Thread -> Location] /\ TimerThread \in Thread /\ Sound(k)
  BY TimerThreadIsApp DEF SoftInv, PlacePart, KernelPart
<1>a. w.tick \in Int /\ w.tick <= w.tick
  BY PlainFacts
<1>1. CASE \/ ReadNext \/ ReadTick \/ PauseEnds
           \/ CheckExpires \/ CallbackReturns \/ CheckEnds
  <2>1. pc'[TimerThread] \in {"test", "sleep", "check", "run", "next"}
    BY <1>0, <1>1 DEF ReadNext, ReadTick, PauseEnds, CheckExpires, CallbackReturns,
                      CheckEnds, Goto
  <2> QED
    BY <2>1 DEF WakePart
<1>2. CASE SuspendSelf
  <2>1. pc[TimerThread] = "test" /\ next = RT_TICK_MAX /\ w' = w
    BY <1>2 DEF SuspendSelf, At
  <2>2. w.list \in Seq(Timer) /\ RT_TICK_MAX \in Int
    BY StateFacts, HalfFacts DEF SoftInv, TimerPart, TimersOK, RT_TICK_MAX
  <2>3. w.list = <<>>
    <3> SUFFICES ASSUME w.list # <<>> PROVE FALSE
      OBVIOUS
    <3>1. w.timeout[Head(w.list)] = RT_TICK_MAX
      BY <2>1 DEF ReadPart
    <3>2. Head(w.list) \in ToSet(w.list)
      BY <2>2, HeadInList
    <3>3. w.timeout[Head(w.list)] < RT_TICK_MAX
      BY <3>2, PlainFacts
    <3> QED
      BY <3>1, <3>3, <2>2
  <2>4. ToSet(w'.list) = {}
    BY <2>1, <2>3 DEF ToSet
  <2> QED
    BY <2>4 DEF WakePart, SeenTo
<1>3. CASE Pause
  <2>1. /\ k' = rt_schedule(k) /\ w' = w /\ next' = next /\ now' = now
        /\ pc[TimerThread] = "pause" /\ starting' = starting
    BY <1>3 DEF Pause, At
  <2>2. Undisturbed
    BY <2>1, ScheduleUndisturbed
  <2>3. NoneInserts' => NoneInserts
    BY <1>3, <2>1, LoopMoves DEF NoneInserts, App, TimerThreadStep
  <2>4. \A x \in Timer : SeenTo(x)' => SeenTo(x) /\ w'.timeout[x] = w.timeout[x]
    BY <2>1 DEF SeenTo
  <2> QED
    BY <2>1, <2>2, <2>3, <2>4, <1>a, WakeSame DEF Undisturbed
<1>4. ASSUME NEW t \in App, Calls(t) PROVE WakePart'
  <2>1. CASE t = TimerThread
    <3>1. pc'[TimerThread] \in InCode
      BY <2>1, <1>4, CallsMove
    <3> QED
      BY <3>1 DEF WakePart, InCode
  <2> QED
    BY <2>1, <1>4, CallsWake
<1>5. CASE Interrupt
  <2>1. /\ pc' = pc /\ next' = next /\ now' = now
        /\ w'.list = w.list /\ w'.timeout = w.timeout
        /\ w'.tick \in Int /\ w.tick <= w'.tick
    BY <1>5, InterruptMoves
  <2>2. starting' = starting
    BY <1>5, InterruptStays
  <2>3. NoneInserts' => NoneInserts
    BY <2>1 DEF NoneInserts
  <2>4. \A x \in Timer : SeenTo(x)' => SeenTo(x) /\ w'.timeout[x] = w.timeout[x]
    BY <2>1, <2>2 DEF SeenTo
  <2>5. Undisturbed \/ ~ Suspended(k', TimerThread)
    BY <1>5, InterruptUndisturbed
  <2> QED
    BY <2>1, <2>3, <2>4, <2>5, WakeSame DEF Undisturbed
<1> QED
  BY <1>1, <1>2, <1>3, <1>4, <1>5, SleepWakes DEF Next, TimerThreadStep

\* The strengthening that WakesInTime needs.
WakeInv == PlainPart /\ ReadPart /\ WakePart

\* At the start the timer thread is running and the list is empty.
LEMMA WakeInit ==
    ASSUME Init
    PROVE  WakeInv
<1>1. /\ w.list = <<>> /\ w.tick = 0 /\ pc[TimerThread] = "next"
  BY TimerThreadIsApp, TimerStartupSound DEF Init
<1>2. ToSet(w.list) = {} /\ 0 <= LastTick
  BY <1>1, HalfFacts, SoftTimerAssumption DEF ToSet
<1> QED
  BY <1>1, <1>2 DEF WakeInv, PlainPart, ReadPart, WakePart

\* Every step keeps the strengthening, until two resumes overlap.
LEMMA WakeStep ==
    ASSUME Urgent, FirstHalf, UntilCrossed, ~ crossed => WakeInv, [Next]_vars
    PROVE  ~ crossed' => WakeInv'
<1> SUFFICES ASSUME ~ crossed' PROVE WakeInv'
  OBVIOUS
<1>1. CASE Next
  <2>1. ~ crossed /\ RunInv'
    BY <1>1, RunStep
  <2>2. SoftInv /\ StartPart /\ PromptPart /\ ResumePart /\ SoftInv' /\ WakeInv
    BY <2>1 DEF UntilCrossed, RunInv
  <2> QED
    BY <2>2, <1>1, PlainKept, ReadKept, WakeKept DEF WakeInv
<1>2. CASE UNCHANGED vars
  BY <1>2 DEF vars, WakeInv, PlainPart, ReadPart, WakePart, SeenTo, NoneInserts
<1> QED
  BY <1>1, <1>2

\* While the timer thread waits, its wait ends by itself and was set for a time no later
\* than any soft timer is due that rt_timer_start has seen to, or a thread is about to
\* insert it: rt_timer_start never loses the race with a timer thread that is about to
\* suspend itself, if the timer thread is the most urgent thread and the tick has not
\* wrapped around, and until two resumes of it overlap.
THEOREM SoftTimerWakesInTime ==
    ASSUME Urgent, FirstHalf
    PROVE  Spec => []WakesInTime
<1>1. Init => (~ crossed => WakeInv)
  BY WakeInit
<1>2. UntilCrossed /\ (~ crossed => WakeInv) /\ [Next]_vars => (~ crossed => WakeInv)'
  BY WakeStep
<1>3. UntilCrossed /\ (~ crossed => WakeInv) => WakesInTime
  <2> SUFFICES ASSUME SoftInv, StartPart, WakeInv,
                      pc[TimerThread] \in {"pause", "paused"}, Suspended(k, TimerThread),
                      NoneInserts,
                      NEW x \in ToSet(w.list) \ UNION {starting[t] : t \in App}
               PROVE  /\ TimerThread \in k.timer
                      /\ \/ Until(now + next) <= 0
                         \/ Until(now + next) <= Remaining(w, x)
    BY DEF WakesInTime, NoneInserts, UntilCrossed, RunInv
  <2>1. x \in Timer
    BY PlainFacts DEF WakeInv
  <2>2. SeenTo(x)
    BY DEF SeenTo
  <2>4. /\ TimerThread \in k.timer
        /\ now + next < w.tick + Half
        /\ now + next <= w.tick \/ now + next <= w.timeout[x]
    BY <2>1, <2>2 DEF WakeInv, WakePart
  <2>5. /\ w.tick \in Tick /\ w.tick \in Int /\ w.tick < Half /\ Half \in Int
        /\ w.timeout[x] \in Int /\ Ticks(w.timeout[x], w.tick) = w.timeout[x] - w.tick
    BY PlainFacts DEF WakeInv
  <2>6. PICK y : y = now + next
    OBVIOUS
  <2>7. y \in Int /\ 0 <= y
    BY <2>6, HalfFacts DEF SoftInv, PlacePart
  <2>8. y \in Tick
    BY <2>4, <2>5, <2>6, <2>7, HalfFacts
  <2>9. Ticks(y, w.tick) = y - w.tick
    BY <2>4, <2>5, <2>6, <2>8, PlainTicks
  <2>10. Until(y) = y - w.tick
    BY <2>9 DEF Until, Ticks
  <2>11. Remaining(w, x) = w.timeout[x] - w.tick
    BY <2>5 DEF Remaining, Ticks
  <2>12. y - w.tick <= 0 \/ y - w.tick <= w.timeout[x] - w.tick
    BY <2>4, <2>5, <2>6, <2>7
  <2> QED
    BY <2>4, <2>6, <2>10, <2>11, <2>12
<1> QED
  BY <1>1, <1>2, <1>3, SoftTimerInvariant, PTL DEF Spec
=============================================================================
