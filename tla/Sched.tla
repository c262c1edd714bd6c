------------------------------- MODULE Sched ---------------------------------
(***************************************************************************)
(* The scheduler of one CPU (kern/scheduler.c, kern/rr-sched_locked.c,     *)
(* kern/do_interrupt.c) and the sleep/wakeup protocol of kern/wait_queue.c.*)
(* A thread waits for a resource, here one wait queue guarded by its lock: *)
(* it takes the lock, links itself in the queue, releases the lock and     *)
(* calls sched_sleep.  It may be woken, by this CPU or another, before it  *)
(* is asleep.  A thread has one list entry, which links it in the wait     *)
(* queue or in a run queue.                                                *)
(***************************************************************************)
EXTENDS Integers, Sequences, FiniteSets, SequencesExt

CONSTANTS KThreads,   \* kernel threads
          UThreads,   \* user threads
          Idle,       \* thread_idle, in no queue
          Remote,     \* the other CPUs, as holders of the resource lock
          None,
          RrQuantum,  \* RR_QUANTUM
          IrqWindow   \* whether interrupts are enabled between the release of
                      \* the resource lock and sched_sleep

Threads == KThreads \cup UThreads

ASSUME SchedAssumption == /\ IsFiniteSet(Threads) /\ KThreads \cap UThreads = {}
                          /\ {Idle, Remote, None} \cap Threads = {}
                          /\ RrQuantum \in Nat \ {0} /\ IrqWindow \in BOOLEAN

VARIABLES state,      \* thread->state; "none" before the creation
          pc,         \* user, kernel, locked (holds the resource lock), wait
          cur,        \* the current thread
          kq, uq,     \* rQueues->kthreads and rQueues->runnable
          count,      \* sched->count
          quantum, activated,   \* of the current thread
          wq, lock,   \* the wait queue and the holder of its lock
          waking      \* unlinked by a remote waker, rr_wakeup still to come

queues == <<kq, uq, count>>
vars   == <<state, pc, cur, queues, quantum, activated, wq, lock, waking>>

Init == /\ state = [t \in Threads |-> "none"]
        /\ pc = [t \in Threads |-> IF t \in UThreads THEN "user" ELSE "kernel"]
        /\ cur = Idle
        /\ kq = <<>> /\ uq = <<>> /\ count = 0
        /\ quantum = 0 /\ activated = FALSE
        /\ wq = <<>> /\ lock = None /\ waking = {}

Goto(t, l) == pc' = [pc EXCEPT ![t] = l]

\* A slip: every thread goes in the queue of the kernel threads.
AddFirstK(t) == count' = count + 1 /\ kq' = <<t>> \o kq /\ uq' = uq

\* A slip: the thread is queued but not counted.
AddUncounted(t) == /\ count' = count
                   /\ kq' = IF t \in KThreads THEN <<t>> \o kq ELSE kq
                   /\ uq' = IF t \in UThreads THEN <<t>> \o uq ELSE uq

\* list_add_first in the run queue of the thread's type, and count++.
AddFirst(t) == /\ count' = count + 1
               /\ kq' = IF t \in KThreads THEN <<t>> \o kq ELSE kq
               /\ uq' = IF t \in UThreads THEN <<t>> \o uq ELSE uq

-----------------------------------------------------------------------------
(* rr_elect and schedule, called in the state st of the threads.           *)

\* A slip: rr_elect queues the current thread whatever its state.
YieldsAlways(st) == cur # Idle

\* The current thread is still runnable: rr_elect puts it back in a queue.
Yields(st) == cur # Idle /\ st[cur] = "S_KERNEL"

\* The current thread, if still in the kernel, goes to the end of its queue;
\* the first kernel thread is elected, else the first user thread, else idle.
Schedule(st) ==
    LET this    == cur
        requeue == Yields(st)
        k       == IF requeue /\ this \in KThreads THEN Append(kq, this) ELSE kq
        u       == IF requeue /\ this \in UThreads THEN Append(uq, this) ELSE uq
        n       == IF requeue THEN count + 1 ELSE count
        ready   == IF requeue THEN [st EXCEPT ![this] = "S_READY"] ELSE st
        elected == IF k # <<>> THEN Head(k) ELSE Head(u)
    IN  IF n = 0
        THEN /\ state' = ready
             /\ cur' = Idle /\ quantum' = 0 /\ activated' = FALSE
             /\ UNCHANGED queues
        ELSE /\ kq' = IF k # <<>> THEN Tail(k) ELSE k
             /\ uq' = IF k # <<>> THEN u ELSE Tail(u)
             /\ count' = n - 1
             /\ cur' = elected
             /\ state' = [ready EXCEPT ![elected] =
                             IF @ = "S_CREATE" /\ elected \in UThreads THEN "S_USR" ELSE "S_KERNEL"]
             /\ quantum' = RrQuantum /\ activated' = FALSE

-----------------------------------------------------------------------------
(* The current thread.                                                     *)

At(t, l) == cur = t /\ pc[t] = l

\* A thread whose interrupt or system call has been resumed goes back to user
\* mode: the end of do_interrupt.
ReturnToUser(t) == /\ At(t, "user")
                   /\ state[t] = "S_KERNEL"
                   /\ state' = [state EXCEPT ![t] = "S_USR"]
                   /\ UNCHANGED <<pc, cur, queues, quantum, activated, wq, lock, waking>>

\* do_syscall, to the point where interrupts are enabled.
SysEnter(t) == /\ At(t, "user")
               /\ state[t] = "S_USR"
               /\ state' = [state EXCEPT ![t] = "S_KERNEL"]
               /\ Goto(t, "kernel")
               /\ UNCHANGED <<cur, queues, quantum, activated, wq, lock, waking>>

\* The end of do_syscall: cpu_yield, then back to user mode.
SysReturn(t) == /\ At(t, "kernel")
                /\ t \in UThreads
                /\ IF activated
                   THEN Schedule(state) /\ UNCHANGED <<pc, wq, lock, waking>>
                   ELSE /\ state' = [state EXCEPT ![t] = "S_USR"]
                        /\ Goto(t, "user")
                        /\ UNCHANGED <<cur, queues, quantum, activated, wq, lock, waking>>

\* spinlock_lock on the lock of the resource.
Lock(t) == /\ At(t, "kernel")
           /\ lock = None
           /\ lock' = t
           /\ Goto(t, "locked")
           /\ UNCHANGED <<state, cur, queues, quantum, activated, wq, waking>>

\* wait_on(queue, WAIT_LAST), then spinlock_unlock_nosched.
WaitOn(t) == /\ At(t, "locked")
             /\ wq' = Append(wq, t)
             /\ lock' = None
             /\ Goto(t, "wait")
             /\ UNCHANGED <<state, cur, queues, quantum, activated, waking>>

\* A slip: rr_sleep does not look whether the thread has been woken meanwhile.
SleepAnyway(t) == /\ At(t, "wait")
                  /\ Schedule([state EXCEPT ![t] = "S_WAIT"])
                  /\ Goto(t, "kernel")
                  /\ UNCHANGED <<wq, lock, waking>>

\* sched_sleep: rr_sleep, which leaves S_READY alone, then schedule.
Sleep(t) == /\ At(t, "wait")
            /\ Schedule([state EXCEPT ![t] = IF @ = "S_READY" THEN @ ELSE "S_WAIT"])
            /\ Goto(t, "kernel")
            /\ UNCHANGED <<wq, lock, waking>>

\* wakeup_one(queue, WAIT_FIRST) under the lock, with rr_wakeup; a kernel thread
\* that is woken activates the scheduler for the current thread.
WakeupOne(t) == /\ At(t, "locked")
                /\ wq # <<>>
                /\ wq' = Tail(wq)
                /\ state' = [state EXCEPT ![Head(wq)] = "S_READY"]
                /\ AddFirst(Head(wq))
                /\ activated' = (activated \/ Head(wq) \in KThreads)
                /\ UNCHANGED <<pc, cur, quantum, lock, waking>>


\* spinlock_unlock: a scheduling point.
Unlock(t) == /\ At(t, "locked")
             /\ lock' = None
             /\ Goto(t, "kernel")
             /\ IF activated
                THEN Schedule(state) /\ UNCHANGED <<wq, waking>>
                ELSE UNCHANGED <<state, cur, queues, quantum, activated, wq, waking>>

\* do_interrupt with the clock's handler: rr_clock, then cpu_yield, which has
\* no effect on a thread that holds a lock.
Interrupt(t) ==
    LET q  == IF quantum > 0 THEN quantum - 1 ELSE 0
        on == activated \/ q = 0
    IN  /\ cur = t
        /\ state[t] \in {"S_USR", "S_KERNEL", "S_READY"}
        /\ pc[t] = "wait" => IrqWindow
        /\ IF on /\ pc[t] # "locked"
           THEN /\ Schedule([state EXCEPT ![t] = IF @ = "S_USR" THEN "S_KERNEL" ELSE @])
                /\ UNCHANGED <<pc, wq, lock, waking>>
           ELSE /\ quantum' = q /\ activated' = on
                /\ UNCHANGED <<state, pc, cur, queues, wq, lock, waking>>

\* sched_exit: rr_exit, then schedule.
Exit(t) == /\ At(t, "kernel")
           /\ Schedule([state EXCEPT ![t] = "S_DEAD"])
           /\ UNCHANGED <<pc, wq, lock, waking>>

-----------------------------------------------------------------------------
(* The idle thread and the other CPUs.                                     *)

\* The loop of thread_idle: yield if something is runnable.
IdleYield == /\ cur = Idle
             /\ count # 0
             /\ Schedule(state)
             /\ UNCHANGED <<pc, wq, lock, waking>>

\* rr_add_created, by this CPU or another one.
AddCreated(t) == /\ state[t] = "none"
                 /\ state' = [state EXCEPT ![t] = "S_CREATE"]
                 /\ AddFirst(t)
                 /\ UNCHANGED <<pc, cur, quantum, activated, wq, lock, waking>>

RemoteLock == /\ lock = None
              /\ lock' = Remote
              /\ UNCHANGED <<state, pc, cur, queues, quantum, activated, wq, waking>>

\* wakeup_one by another CPU: unlink, then rr_wakeup under the scheduler's lock.
RemoteUnlink == /\ lock = Remote
                /\ waking = {} /\ wq # <<>>
                /\ wq' = Tail(wq)
                /\ waking' = {Head(wq)}
                /\ UNCHANGED <<state, pc, cur, queues, quantum, activated, lock>>

RemoteWakeup(t) == /\ t \in waking
                   /\ waking' = {}
                   /\ state' = [state EXCEPT ![t] = "S_READY"]
                   /\ AddFirst(t)
                   /\ UNCHANGED <<pc, cur, quantum, activated, wq, lock>>

RemoteUnlock == /\ lock = Remote
                /\ waking = {}
                /\ lock' = None
                /\ UNCHANGED <<state, pc, cur, queues, quantum, activated, wq, waking>>

Step(t) == \/ ReturnToUser(t) \/ SysEnter(t) \/ SysReturn(t) \/ Lock(t) \/ WaitOn(t)
           \/ Sleep(t) \/ WakeupOne(t) \/ Unlock(t) \/ Exit(t)

OtherCpus == RemoteLock \/ RemoteUnlink \/ (\E t \in Threads : RemoteWakeup(t)) \/ RemoteUnlock

Next == \/ \E t \in Threads : Step(t) \/ Interrupt(t) \/ AddCreated(t)
        \/ IdleYield
        \/ OtherCpus

\* The current thread runs and the clock ticks.  Nothing is assumed of the other
\* CPUs: a thread may wait for ever for its wakeup or for the lock.
Spec == /\ Init /\ [][Next]_vars
        /\ WF_vars(\E t \in Threads : Step(t))
        /\ \A t \in Threads : WF_vars(Interrupt(t))
        /\ WF_vars(IdleYield)

-----------------------------------------------------------------------------
States == {"none", "S_CREATE", "S_USR", "S_KERNEL", "S_WAIT", "S_READY", "S_DEAD"}

TypeOK == /\ state \in [Threads -> States]
          /\ pc \in [Threads -> {"user", "kernel", "locked", "wait"}]
          /\ cur \in Threads \cup {Idle}
          /\ kq \in Seq(KThreads) /\ uq \in Seq(UThreads) /\ wq \in Seq(Threads)
          /\ count \in Nat
          /\ quantum \in 0 .. RrQuantum /\ activated \in BOOLEAN
          /\ lock \in Threads \cup {None, Remote}
          /\ waking \subseteq Threads

InRunQueue(t) == t \in Range(kq) \/ t \in Range(uq)

\* A thread's single list entry is in one list at most: the wait queue, the
\* run queue of its type, or the hands of a waker.
OneList == /\ IsInjective(kq) /\ IsInjective(uq) /\ IsInjective(wq)
           /\ \A t \in Range(wq) : ~ InRunQueue(t) /\ t \notin waking
           /\ \A t \in waking : ~ InRunQueue(t)

\* The run queues hold exactly the ready threads, sched->count of them: idle
\* never spins beside a ready thread, and rr_elect never takes the first of
\* an empty list.
ReadyQueued == /\ \A t \in Threads : InRunQueue(t) <=> state[t] \in {"S_CREATE", "S_READY"}
               /\ count = Len(kq) + Len(uq)

\* No wakeup is lost: a thread in S_WAIT is still linked where a waker finds it
\* or is in the hands of one.
NoLostWakeup == \A t \in Threads : state[t] = "S_WAIT" => t \in Range(wq) \cup waking


\* rr_wakeup: "(thread->state == S_WAIT) || (thread->state == S_KERNEL)".
WakeupExpected == \A t \in waking : state[t] \in {"S_WAIT", "S_KERNEL"}
=============================================================================
