# A verification project for the rt-smart kernel

The repository is RT-Thread Smart ("rt-smart"), a real-time kernel with user
processes (LWP), and its board support for two RISC-V64 boards (Allwinner F133
and D1). This directory models the core of the kernel in TLA+, checks the models
with TLC on small instances and proves invariants with TLAPS for every instance.

The build that is modelled is the one of `src/f133/rtconfig.h`: one processor
(`RT_USING_SMP` off), processes and their signals on (`RT_USING_LWP`), soft timers
on, assertions on (`RT_DEBUG`), 32 priorities, 32-bit ticks.

All paths below are under `src/rt-smart/` unless they start with `src/`.

## 1. Inventory

| component | state | operations | interacts with |
|---|---|---|---|
| Scheduler, `src/scheduler.c` | current thread, ready table (one list per priority), priority bitmap, lock nesting | insert, remove, `rt_schedule`, enter/exit critical | everything: threads, IPC and the clock interrupt change the table and then call `rt_schedule` |
| Threads, `src/thread.c` | state, priority, `error`, list node and `thread_timer` of each thread | init/create, startup, suspend, resume, sleep, yield, control, timeout, exit, delete, detach | scheduler; timers (timeouts); LWP signals (may forbid or break a wait); idle thread (frees the dead) |
| Semaphore, mutex, event, mailbox, message queue, `src/ipc.c` | value, owner or contents, and a list of suspended threads (two for mailbox and queue) | init/create, take/recv with timeout, release/send, control, detach/delete | threads (suspend, resume), timers, interrupt handlers that release |
| Timers, `src/timer.c` | two ordered lists (hard, soft), `rt_tick`, flags of each timer, the timer thread and `soft_timer_status` | init, start, stop, control, detach/delete, check | clock interrupt; scheduler (the timer thread sleeps and is resumed) |
| Clock, `src/clock.c` | `rt_tick`, remaining time slice | `rt_tick_increase`, `rt_tick_set` | scheduler, hard timers |
| Idle, `src/idle.c` | list of defunct threads | enqueue, dequeue, execute | threads, objects, LWP |
| LWP signals, `components/lwp/lwp_signal.c` | pending sets and masks of threads and processes | kill, check, backup/restore, sigprocmask | threads: a signal forbids or ends a wait |
| LWP channels, `components/lwp/lwp_ipc.c` | state, messages not received, receiver, senders, the sender to reply to; the pool of messages all channels share; a wake-up function in each waiting thread | open, close, send, request, receive, reply, the timeout and wake-up functions | threads, timers, signals |
| Futexes, `components/lwp/lwp_futex.c` | `_futex_lock`, and for each word of a process a list of waiters | `sys_futex` | mutex, threads, signals |
| Other LWP services (process mutexes, pids, shared memory) | tables of objects | system calls | IPC, threads |
| Driver IPC (completion, wait queue, data queue, work queue, pipe) | small wait lists | wait/done, push/pop | threads |
| Memory, objects, devices, file systems, network, C library, shell, CPU ports, HAL | | | around the kernel |

What is hard: there are no locks, only stretches of code with interrupts disabled,
and between two of them anything may happen. A thread that blocks is on a suspend
list, has its timer running and is still the current thread until it reaches
`rt_schedule`. A waiter can be taken off its list by a release, a timeout or a
signal, and exactly one of them must win. Priorities change under threads that are
linked in lists ordered by priority. Timeout functions may do anything to the timer
that is calling them. The tick wraps around. `PROJECT.json` lists these under
`hazards`, each at its line.

What makes each part correct:

* scheduler and threads: the bitmap, the ready lists, the suspend lists and the
  thread states agree at every moment an interrupt can see; timers run for
  suspended threads only; no switch is forgotten;
* semaphore: each `RT_EOK` costs one token, no failed call costs any, nobody waits
  beside a token, the most urgent waiter is served first, detach leaves no waiter;
* mutex: one owner, who knows it; recursion counted; no waiter more urgent than the
  owner; the owner ends with its own priority; the urgent thread gets in;
* mailbox: mails arrive once and in order, a failed call neither sends nor takes, and
  while someone waits every mail or slot has a thread that was woken for it;
* event: nobody waits for flags that are set, and a flag that is cleared on receipt
  goes to one receiver;
* message queue: like the mailbox, with messages that are in nobody's list while
  they are copied with interrupts enabled;
* ending threads: a thread is given back once, after it has left the processor and
  every list, and none is forgotten; a critical section defers a preemption and
  does not lose it;
* channel: a reply goes to the request it answers, whatever timeout or signal ends
  a wait, and the pool loses no message; futex: the lock is free between calls;
* timers: ordered list, flags that match it, expiry exactly at the tick and in the
  order of starting, across wrap-around and reentrant callbacks; the timer thread
  never sleeps past a timer.

## 2. Modules

The kernel state is a record and each C function that runs with interrupts disabled
is an operator of the same name on it; consecutive calls nest. The modules that
describe objects keep the record in a variable, give every thread a program counter
and have **one action per stretch with interrupts disabled**, and one per load of a
variable that others write while interrupts are enabled, so that TLC puts
interrupts in every gap the code leaves and in no other. Most callers of
`rt_thread_resume` have interrupts disabled; where it is called with interrupts enabled
(`rt_timer_start` in `SoftTimer`, the callers in `Threads`) its test, the stretch that
unlinks the thread and stops its `thread_timer`, and the insertion are three actions.
Outside of `Threads`, `rt_thread_startup` is one step: its target has not been started,
so nobody else resumes it and no timer of it runs.

| module | what it is |
|---|---|
| `Lists` | removal of a node, as an operation on sequences |
| `Kernel` | ready table, thread states, suspend lists; `rt_schedule`, suspend, resume, sleep, timeout, change of priority, signals; the invariant `KernelOK` |
| `Semaphore` | all of the semaphore, used by threads and by an interrupt handler |
| `AbstractSemaphore` | what a counting semaphore promises, without a kernel |
| `Mutex` | all of the mutex |
| `Mailbox` | all of the mailbox: a ring of mails, two suspend lists, the retry loops |
| `AbstractMailbox` | a bounded first-in first-out queue |
| `Calls` | what calls on any kernel object have in common: suspending, rescheduling, reset, detach, signals, interrupts |
| `Event` | all of the event, on `Calls` |
| `MessageQueue` | all of the message queue, on `Calls` |
| `AbstractQueue` | a bounded queue with urgent messages and messages in the hands of threads |
| `Objects` | one system with an event and a message queue (composes `Event` and `MessageQueue`) |
| `Threads` | the life of threads: create to free, delete and detach in stretches, the defunct list and the idle thread, the scheduler lock |
| `Channel` | an IPC channel of the process layer with its pool of messages |
| `Futex` | `sys_futex` on one word, on `Mutex` |
| `TimerList` | an ordered list of timers, and the loop body of the two check functions |
| `HardTimer` | hard timers and the clock interrupt (uses `TimerList`) |
| `SoftTimer` | soft timers and the timer thread (composes `Kernel` and `TimerList`) |
| `MCSemaphore`, `MCMutex`, `MCMailbox`, `MCObjects`, `MCSoftTimer`, `MCThreads`, `MCThreadsTimers` (`Threads` and `HardTimer` side by side), `MCChannel`, `MCFutex` | instances for TLC |
| `KernelProofs` | lemmas about every function of `Lists`, `Kernel` and `TimerList`, and about ticks that wrap around |
| `SemaphoreProofs`, `MutexProofs`, `MailboxProofs`, `ObjectsProofs`, `TimerProofs` (hard and soft timers), `ChannelProofs`, `ThreadsProofs` | inductive invariants and theorems |

Operators whose name is that of another one and a suffix (`ReleaseWakes_Counts`)
are mutants: the operator with a plausible bug. They are used nowhere; replacing the
original by its mutant makes TLC report the property that `PROJECT.json` names.

Abstractions. A list is the sequence of its nodes; pointers are not modelled. The
time argument of a blocking call is zero, finite or forever, and in `Semaphore` and
`Mutex` a running `thread_timer` may expire at any moment; exact ticks are in
`HardTimer` and `SoftTimer`. Signals are one that can be caught and `KILL`. Hooks,
logging, object names and the object container are left out: an object may be used
(`alive`, `exists`, `created`) or not. The scheduler lock is taken in `Threads` only. A timeout or an interrupt handler is atomic, as the code runs with
interrupts disabled. `InitTick` excludes 0: a periodic timer with time 0 keeps
`rt_timer_check` in its loop. In `TimerList` the `timeout_tick` of a timer that is
not linked is 0 (nothing reads it), and so are dead locals of the timer thread.

The code leaves much to its callers, and the models make these rules explicit, each
in the guard of the action named:

* an object is not used after its detach has begun, and a mutex is not deleted while
  another thread owns it;
* a mailbox or a message queue is not detached while a thread that was woken from it
  has not looked at it again, or while one copies a message (`DetachBegins`,
  `QueueDetachBegins`); without the rule `DetachedIsEmpty` fails;
* one thread at a time works on another one, and on none that is at work on a third
  (`Exclusive`; a thread deleted or suspended in the middle of `rt_thread_detach` leaves
  its victim half closed); a thread is deleted or suspended by one that it cannot
  preempt, because the scheduler is locked or by its priority (`MayStop`); a static
  thread that detaches itself locks the scheduler. `rt_thread_resume`,
  `rt_thread_delete` and `rt_thread_detach` work in several stretches, and without
  these rules `KernelInv` fails;
* a channel has one server, and it does not make the last close with a request in
  hand (`Close`): `rt_raw_channel_close` would not resume that sender, which is on
  neither list.

Where the code breaks without a caller breaking a rule, there is no guard. Two history
variables, which no action reads, mark the moment, and the properties that do not
survive it say so:

* `late` in `Threads`: a thread that is asleep may be resumed, deleted or detached, and
  its `thread_timer` may fire in the middle of that, after the test of
  `rt_thread_resume` or between `rt_schedule_remove_thread` and `rt_timer_detach`
  (`TooLate`). What follows is the run `threads_asleep`;
* `crossed` in `SoftTimer`: two threads are between the test and the insertion of
  `rt_thread_resume(&timer_thread)` at once. What follows is described at the end of
  section 3.

In `Channel` a request is told by its sender and the parity of its number, a reply by
the request the server took last: enough to tell an answer from one to an earlier
request of the same client or to another client. In `Futex` the word has one object and
memory for it does not run out; interrupts are disabled from the suspension to the
`rt_mutex_release`, whose `rt_schedule` may switch nevertheless. In `Threads` sleeping
threads receive no signals.

## 3. Runs

| run | instance | what it shows |
|---|---|---|
| `sem_prio` | one urgent thread and two of equal priority, idle, handler; priority order; value at most 1; timeouts; a process that may be killed, killable waits | `TypeOK`, `KernelInv`, `NoWaiterLeftBehind`, `DetachedIsEmpty`, `MostUrgentFirst`; `NobodyStranded`: a thread suspended in a take can be found; refinement of `AbstractSemaphore` |
| `sem_detach` | two threads of two priorities, FIFO order, killable waits with a timeout; violation | `rt_ipc_list_resume_all` takes the head of an emptied list for a thread |
| `mutex` | three threads, one mutex, recursion to 2, timeouts, a signal; under fairness | the owner knows it owns and a free mutex has no waiters (`OwnerKnows`), no priority inversion, priority restored, `UrgentThreadEnters` |
| `mutex_restore` | two mutexes; violation | a thread without a mutex keeps an inherited priority |
| `mailbox` | three threads, handler, ring of two, two mails, timeouts, a signal | kernel invariant, `NobodyForgotten`, `DetachedIsEmpty`; refinement of `AbstractMailbox` |
| `objects` | two threads, handlers, an event of two flags and a queue of two messages, AND and OR with CLEAR, timeouts, a signal | kernel invariant over three suspend lists; `NoWaiterSatisfied`, `FlagGivenOnce`; `NoMessageWaits`; refinement of `AbstractQueue` |
| `soft_timer` | timer thread the most urgent, two threads of equal priority that start timers, time slices, two timers (one while both threads run), ticks up to 2 | kernel invariant through the stretches of `rt_timer_start` and `rt_thread_resume`, list invariant, `WakesInTime` |
| `soft_timer_lost` | timer thread less urgent than a thread; violation | the timer thread suspends itself beside a timer, for good |
| `threads_timers` | two systems side by side, a behaviour is of one of them. Threads of three priorities: a static one, a static one with a cleanup function and one from the heap, critical sections nested to 2, sleeps; under fairness. Three hard timers, ticks modulo 8, times 1 and 2 | lists and states agree through delete, detach and resume; `FreedIsNowhere`, `DeadIsReaped`, `NoMissedPreemption`; `DefunctDrains`; flags and order of the hard timers, expiry exactly on time, first started first called, nothing deleted is touched |
| `threads_asleep` | the threads of `threads_timers`; violation | a thread that is detached in its sleep is given back while it is in the ready table |
| `channel` | a server, a client as urgent and one more urgent, two processes, a pool of two messages, timeouts, a signal | `StateMatchesWaiters`, `QueuedSendersInOrder`, `ReplyIsMine`, `MessagesAccounted` |
| `futex_lock` | two threads, one word of two values; violation | `futex_wait` returns `EAGAIN` with `_futex_lock` held |

Why the bounds are enough. For the semaphore, an urgent thread and two that share a
priority give preemption, time slices among equals, and two waiters at once beside
the thread that releases, one of them inserted before the other; a value of at most
1 reaches both ends of its range. For the mutex, three priorities make a low owner,
a middle thread that interferes and an urgent waiter; the recursion limit of 2 is
reached. In the
mailbox two mails in a ring of two make the offsets wrap and order visible, and three
threads allow a woken one, one that is faster and one that still waits. In `objects`
the handlers send while both threads wait for the event or for the queue, so a walk of
`rt_event_send` visits two waiters whose flags overlap, and a message can be in the
hands of one thread while another and a handler use the queue. Three timers give
an insertion at the front, inside and at the end; a tick of 8 values with times up to
2 wraps around in every run and keeps the code's own precondition (times below
half of the range). One soft timer that is restarted with a shorter time already
moves the first timeout while the timer thread sleeps, and two ticks let the timer thread
wake, call a timeout function that sleeps, and wake again between two steps of a starter;
two threads of equal priority can each be preempted by the other in `rt_timer_start`.
The three threads of `threads_timers` are the three kinds the end of a thread distinguishes; their three priorities let a thread
be preempted in the middle of deleting another one. In `channel` both clients can
have a request under way, both queued, or one received and one queued beside a plain message of the
handler, and the pool of two can be exhausted. Symmetry is used where
messages, flags, threads or timers differ in name only, and never with liveness. All
other state is
finite by itself, and the only artificial bounds are
`NestMax` in `Threads`, `LastTick` and `NotTooLate` in `SoftTimer` (the clock stops;
the timer thread gets
the processor before a timer is so late that a timer started now is half the range of
the tick away from it, which the code supposes as well), and two constraints. `InTime`
and the first part of `Bound` end a behaviour when `late` or `crossed` is set; these never
become false again and the properties say nothing after them, `ListInv` excepted, which
is proved without that condition. The second part of `Bound` leaves one timer
when both threads have been started.

With two nested mutexes `NoPriorityInversion` fails for the same reason as
`PriorityRestored` (`original_priority` of the first mutex is restored while an
urgent thread waits for the second), so `mutex` uses one mutex.

Two starters. Without the constraint, and without the condition `~ crossed`, TLC finds
`ThreadTimeoutAssertion` (the assertion of `rt_thread_timeout`, thread.c:996) violated on the
instance of `soft_timer`: t1 starts a timer, finds the timer thread suspended, unlinks it
and stops its `thread_timer` (thread.c:914-918); its time slice ends before the insertion
(928); t2 starts a timer, finds the timer thread still suspended and inserts it; it runs, calls
a timeout function that sleeps; t1 goes on and inserts it: the timer thread is ready and its
`thread_timer` runs. Even with one starter preempted at that place the timer thread
waits without a timer, beside timers that are due, until the starter gets the
processor again: `WakesInTime` names this window. With a timer thread that is less urgent
than a starter (`RT_TIMER_THREAD_PRIO` is 4 in `src/f133/rtconfig.h`) one starter is
enough to break the kernel invariant: the `thread_timer` fires between the test and the
unlinking and makes the timer thread ready without running it, and the unlinking takes it
out of the ready table.

Fairness. `Mutex`: steps
inside kernel functions and the release of a mutex by its owner are strongly fair:
a thread that gets the processor again and again goes on and leaves its critical
section. `Threads`: the idle thread goes on when it keeps the processor (weak).
Nothing else is assumed: no thread has to block or yield. That a thread leaves
`rt_sem_take` is not left to fairness either: `NobodyStranded` says that whoever is
suspended there is still on the suspend list, where a release, a timeout, a signal,
a reset or a detach finds it.

What the violations say is in `findings`, with the line of the repository that each
one contradicts:

* `sem_detach`: `rt_ipc_list_resume_all` (ipc.c) tests the list with interrupts
  enabled;
* `mutex_restore`: `rt_mutex_release` restores an inherited priority;
* `soft_timer_lost`: the timer thread suspends itself in two steps;
* `threads_asleep`: `rt_thread_detach` unlinks a thread before it detaches its
  `thread_timer`, and examples/kernel/thread_static_simple.c detaches threads that sleep;
* `futex_lock`: the `else` branch of `futex_wait` does not release `_futex_lock`. With
  the branch changed to the way out that an interrupted wait takes, `LockIsReleased` holds on the same
  instance, and so do `KernelInv` and `OwnerKnows` of the mutex.

## 4. Proofs

The theorems hold for every set of threads, mutexes and timers, any priorities, limits
and signals, every size of the tick and of a mailbox, and any number of clients and messages of a channel. `PROJECT.json` lists them; a theorem that
states a property of a run has the property's name in its statement.

`KernelProofs` holds what the others rest on.

* Lists: what removing, appending, inserting and taking the head do to the set
  of elements, to the absence of repetitions and to the order of a sequence.
* The kernel. `KernelOK` is restated thread by thread (`ThreadOK`, `GroupOK`; `Sound` is
  all of it with the types), and each function of `Kernel` is shown to take sound
  states to sound states, and what it leaves alone: `Calm` says that nobody starts or stops waiting,
  `Wakes` that one thread does and nothing happens to the others. Functions that leave an
  intermediate state unsound (a thread taken out of the ready table and not yet marked)
  have lemmas about exactly that state. `ScheduleRuns` says that `rt_schedule` leaves a
  running thread on the processor, `ScheduleUrgent` that a thread more urgent than all
  others is that thread.
* Timer lists. `Ticks(x, y)` is the signed distance of two ticks. While the
  distances of the linked timers stay within about half of the range (`InRange`), the
  comparisons of `rt_timer_start` and `rt_timer_check`, which are modulo the range, agree
  with the order of the distances (`TicksCompare`, `TicksDue`). Each function keeps
  `TimersOK`: types, each timer linked once, range, order. `InRange` bounds the lateness
  of a linked timer by half the range minus the largest time in use: this is what
  `TicksCompare` needs for a late timer and a new one, and how the bound `NotTooLate` of
  `SoftTimer` got its form (an earlier one that let a timer be late by half the range
  alone was not enough).

**Semaphore.** `IndInv == TypeOK /\ KernelInv /\ NoWaiterLeftBehind /\ DetachedIsEmpty` is
inductive as it stands: `NoWaiterLeftBehind` needs `DetachedIsEmpty` for the step that
initialises a detached semaphore again, both need `KernelInv` for "taking a thread off
its list takes it off no other". A second layer, `WaitInv`, is inductive relative to it:
a linked thread is in a take whose `error` is still `EINTR`, a suspended thread in a take
is linked, the list is sorted, and the current thread is suspended only between
suspending itself and `rt_schedule`. It gives `NobodyStranded` and `MostUrgentFirst`, and
with it every step is a step of `AbstractSemaphore` or a stutter (`SemaphoreImplements`).
The mapping counts as the granted those threads that have been resumed with `RT_EOK` and
have not returned; the lemmas on this set (`GrantedFinite`, `WakeGrants`) need
`IsFiniteSet(Thread)`.

**Mutex.** `MutexInv` adds to the kernel and waiting parts that each mutex is free and
without waiters, or held as deep as its owner knows, or handed to a thread that has not
returned from `_rt_mutex_take` (`OwnerOK`). It holds for any number of mutexes and either
order of the list. `PrioInv`, relative to it, says that only the owner may have another
priority than its own, that `original_priority` is the owner's own, that the list is
sorted and that the owner is as urgent as every waiter. It needs one mutex (`OneMutex`:
with two the run `mutex_restore` shows it false) and, for the last two, the order by
priority (with FIFO the next owner is the head and not the most urgent waiter); these
are hypotheses of the theorems that use it.

**Mailbox.** `MailInv` has six parts. The kernel part and `ThreadInv`, a suspended thread is in
a call, in the list of that call and with `error` still `EINTR`, tell those who wait from
those who have been woken (`Woken`: `RT_EOK`, not yet back at the mailbox).
`NobodyForgotten` compares the number of mails, and of free slots, with the number of
woken threads; each step is classified by what it does to the two sets (`NoLoss`,
`NoneNew`, `OneLeaves`, `OneJoins`), and lemmas on cardinalities turn that into the
inequalities. A thread that tries again leaves the set and either moves a mail or finds
the mailbox full or empty, where the inequality is trivial for its list: that is why the
loop of `_rt_mb_recv` loses no wake-up. `LifeInv` follows a detach: nobody is on the way
to a mailbox that is being detached, and from `detach3` on there are no receivers.
`RingInv` says that the mails are in the places from `out_offset` to `in_offset`; with it
a store appends to `Contents`, a receive takes its head, and every step is a step of
`AbstractMailbox` or a stutter (`MailboxImplements`).

**Event and message queue.** `ObjInv` describes both objects, because the same threads wait
now for the one and now for the other: a step on the event must be shown to leave the
queue's counts alone. `CallInv` is the part any object needs: kernel, and a suspended
thread is in a blocking call, in the list of that call and with `error` still `EINTR`.
`EventInv` is `NoWaiterSatisfied` with the fact that nobody waits for no flag at all, which
keeps the AND of an empty set from being satisfied. `QueueInv` counts as the mailbox does,
with a third place for a message block besides queue and free list: the hands of a thread
that copies (`Held`). The three numbers add up to `Size`, so that `mq.free` is the room that
`AbstractQueue` has. `LifeInv` follows a detach; it is needed where the queue is
initialised again, when nobody may hold a block of the old one.
What a step does to the threads is said once for all objects (`Releases(s, r, H, E)`: the
threads `H` are resumed, only the `error` of these and of `E` changes).

The walk of `rt_event_send` resumes threads from within the list it follows. Its rounds are
a recursive function (`Rounds`), on which the provers can do no induction. `WalkFacts` is
proved for lists of any length by a least counterexample instead: `RoundsUnfold` gives each
round from the one before, `WalkRound` that one round keeps what is claimed of the list up
to there (those looked at are resumed or not satisfied, those to come are as they were, the
flags only shrink, a cleared flag is gone), and a first round at which the claim fails
would follow one at which it holds. A waiter that was passed over stays unsatisfied because later rounds only take flags
away. This gives `NoWaiterSatisfied` after the send and the action property
`FlagGivenOnce`.

**Hard timers.** `HardInv`: `TimersOK`, deleted timers are in no list, and no linked
timer has been passed over (`NoneLate`: at least one tick remains outside of the
interrupt, none or more within it). The last part makes all distances non-negative, so
the range needs no hypothesis, whatever the tick and however often it wraps around.

**Soft timers.** `UntilCrossed` has two layers. What is said of the list (`TimersOK`, only
existing timers) is inductive by itself, so that `SoftTimerList` needs no hypothesis:
whatever becomes of the timer thread, no step spoils the list. The rest, `RunInv`, holds
until two resumes overlap: the kernel (only a thread that has suspended itself is
suspended; the current thread runs or is about to call `rt_schedule`), the places of the
threads (`soft_timer_status` is busy exactly while the timer thread is in a timeout
function), who has a timer to see to (`StartPart`: the rt_timer_start of a timeout function
gets no further than the first test), and `ResumePart`: one thread at most is between the
test and the insertion of `rt_thread_resume`, and once it has stopped the `thread_timer`
the timer thread stays suspended until it is inserted. That is what makes the insertion
sound, and it needs `PromptPart`, a timer thread that is ready runs at once or is being
rescheduled to: when its `thread_timer` fires between the test and the unlinking, it runs
and is suspended again before the thread that resumes it goes on. This is where the hypothesis `Urgent` comes in, the timer thread
is the most urgent thread (the default of `RT_TIMER_THREAD_PRIO`); section 3 says what
happens without it.

`WakesInTime` has a second hypothesis. `FirstHalf`, the tick is in the first half of its
range: a timer due at `RT_TICK_MAX` is taken for an empty list (see `hazards`). With both
the strengthening `WakeInv` is inductive relative to `RunInv`: ticks compare as numbers; what
the timer thread has read is what the list holds; and its wait ends by the time of every
linked timer but those whose `rt_timer_start` has not yet seen to the timer thread,
unless a thread is about to insert it.

**Channel.** `ChannelInv` is built from what each party may rely on. `ThreadInv`, thread by
thread: who is suspended, in which call, with which wake-up function, and that a thread
has a message exactly when its wait has been ended by one, a client the answer to the
request it sent last. `StateInv`: `stat` and `reply` name those who wait, and everybody
who waits is on a list or is the one the reply is for. `HandInv`: the request the server
has in hand, or will have when its receive returns, is the one that `reply` waits for;
without it a reply could not be shown to be the sender's own. `QueueInv`: the requests on
`wait_msg` and the senders on `wait_thread`, but for the one that waits for the reply,
are the same, each request with its sender's last number, in the same order
(`QueueOK`, kept by lemmas on joining, leaving and being taken). During the last close
only `CloseInv` holds of these, everybody who waits is on a list: that is what
makes the channel that comes after it start with nobody left behind, and it is where the
guard of `Close` (section 2) is used. `MessagesAccounted` is inductive with `ThreadInv`, which
says that a message is never written over one that has not been freed. The order of
`QueuedSendersInOrder` is an order-preserving bijection between the requests in the one
list and the senders in the other, which `QueuesMatch` builds from the positions in
`QueueOK`.

**Threads.** The invariant `UntilLate` is `LifeInv` until `late` is set; sleeping threads are
resumed, deleted and detached like the others, and the proofs show that the one thing that
goes wrong is a `thread_timer` that fires in the gap `TooLate` names. `KernelOK` is no invariant here: a thread that another one deletes or detaches
is out of the ready table two stretches before its state changes, and the defunct list
holds threads that are closed. `Fit(s, E, P, G)` says what holds instead of a kernel state
`s`, the threads `E` that exist, the places `P` and the targets `G` of the threads; it is
stated for these four and not for the variables so that it can be carried through the
functions that one step calls one after the other. `LinkOK`, thread by thread: a ready
thread is in its list unless it is just being closed, and a thread on the defunct list is
closed, exists and is nobody's target. `WorkOn`: who works on a thread is alone in doing so,
works on none that is at work itself, and can go on. A worker that is about to take a READY
thread out of the table has the scheduler locked or is more urgent than it: this is
`MayStop` carried to the later stretch, without it the target could start to run in
between. The proof of this part failed with an earlier `Exclusive` that let a thread work on one that is itself
at work; TLC gave the counterexample once the instance had three priorities, and the rule in
section 2 is the one both now use. `FreedOK` and
`ReapOK` follow a closed thread: gone, on the defunct list, or in the hands of the idle
thread or of the thread that detaches it. `LifeInv` adds where the current thread may be (`CurOK`) and that with the scheduler
unlocked no ready thread is more urgent (`PreemptOK`), which every call of `rt_schedule`
establishes anew (`ScheduleEffect`, `ScheduleEnds`). Most steps change one thread and the
place of one thread, so a lemma on such steps (`TouchKeeps`) settles all the others.

Assumptions on constants: `KernelAssumption` (threads are finitely many, the idle thread
is the only least urgent one, priorities and queues are apart), `SemaphoreAssumption`,
`MutexAssumption`, `MailboxAssumption` (the two lists differ, the size is not 0),
`CallsAssumption`, `EventAssumption`, `MessageQueueAssumption` and `ObjectsAssumption` (an event
has one list, a queue two, all three differ, and the size is not 0),
`TimerAssumption` (times are below half of the range, as the code
asserts), `SoftTimerAssumption`, `ChannelAssumption` (a request, a message that wants no
reply and no message are three different things) and `ThreadsAssumption` (the defunct list
is a list, the idle thread is neither static nor has a cleanup function); TLC evaluates them in the runs.

Only model-checked:

* liveness (`UrgentThreadEnters`, `DefunctDrains`): fairness and ENABLED are out of the
  prover's reach;
* `Futex`: its run shows a property violated.

## 5. Not modelled

* Process mutexes, processes, shared memory, and the user-space side of signals
  (masks, handlers, frames): tables under one lock, and control flow outside the
  kernel.
* Driver IPC: completion and data queue repeat the blocking pattern of semaphore and
  mailbox; the work queue thread (workqueue.c:61) finds its list empty and suspends
  itself in two steps, as the timer thread does in `soft_timer_lost`.
* Pollers and the descriptor layer of channels; futex operations that the code
  answers with `ENOSYS`; failures of allocation.
* `rt_tick_set`, idle hooks, `rt_thread_sleep` with a signal pending (see `hazards`).
* The SMP variants are compiled out.
* Memory allocators and address spaces are byte-level data structures; the object
  container, devices, file systems, network, C library and shell have little
  concurrency of their own in this repository or are third-party code; CPU ports are
  assembly, represented by the atomicity assumed above. The repository also carries
  compilers, vendored libraries and a hardware abstraction layer, which are most of
  its lines.

## 6. Plan

1. Done: the modules of section 2, and the proofs of section 4.
   Every safety property of a passing run is also a theorem, a few of them under the
   hypotheses named in section 4.
2. Worth doing next: a model of the work queue, whose wake-up has the gap of the timer
   thread; the driver IPC on `Calls`, with `ObjectsProofs` as the pattern.
