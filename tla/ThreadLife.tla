----------------------------- MODULE ThreadLife ------------------------------
(***************************************************************************)
(* The life of the threads of a task: sys_thread_create.c, thread_create.c,*)
(* sys_thread_exit.c, sys_thread_join.c, sys_thread_detach.c and           *)
(* thread_destroy.c, with the end of the task (task_destroy in task.c).    *)
(* A thread that exits meets its joiner on its own wait queue, under its   *)
(* own lock; who finds the queue empty links itself and sleeps, who finds  *)
(* the other there wakes it.  th_lock guards the table of the task.  A     *)
(* dead thread is destroyed by the event manager of its CPU, which is the  *)
(* actor of the Destroy actions.                                           *)
(* Sleeping and being woken is the protocol of Sched: a wakeup between     *)
(* wait_on and sched_sleep is not lost.                                    *)
(***************************************************************************)
EXTENDS Integers, FiniteSets, FiniteSetsExt

CONSTANTS Threads,     \* thread descriptors, each used once
          MainThread,  \* the thread that do_exec created
          None,
          OrderNr      \* CONFIG_PTHREAD_THREADS_MAX

ASSUME LifeAssumption == /\ IsFiniteSet(Threads) /\ MainThread \in Threads /\ None \notin Threads
                         /\ OrderNr \in Nat \ {0}

VARIABLES
    task,        \* th_tbl, bitmap (the free orders), next_order, max_order, threads_nr
    info,        \* of each thread: order, joinable, join, exit_value, and its
                 \* wait_queue, which links at most one thread
    th_lock,     \* who has taken task->th_lock
    task_lock,   \* the word of task->lock
    lock,        \* who has taken thread->lock
    pc, target,  \* where a thread is, and whom it acts upon
    woken,       \* the threads woken that do not run yet
    released,    \* the threads that will not look at their queue again
    forsaken,    \* the joiners that nobody will wake
    leaked,      \* orders that a failed vmm_mmap has lost
    ended        \* task_destroy has run

locks == <<th_lock, task_lock, lock>>
fate  == <<woken, released, forsaken, leaked, ended>>
vars  == <<task, info, locks, pc, target, fate>>

Orders == 0 .. OrderNr - 1

NoInfo == [order |-> 0, joinable |-> FALSE, join |-> None, wait_queue |-> None, exit_value |-> None]

\* do_exec: the main thread has order 0 and is detached.
Init == /\ task = [th_tbl |-> [o \in Orders |-> IF o = 0 THEN MainThread ELSE None],
                   bitmap |-> Orders \ {0}, next_order |-> 1, max_order |-> 0, threads_nr |-> 1]
        /\ info = [t \in Threads |-> NoInfo]
        /\ th_lock = None /\ task_lock = 0 /\ lock = [t \in Threads |-> None]
        /\ pc = [t \in Threads |-> IF t = MainThread THEN "user" ELSE "none"]
        /\ target = [t \in Threads |-> None]
        /\ woken = {} /\ released = {} /\ forsaken = {}
        /\ leaked = 0 /\ ended = FALSE

Goto(t, l) == pc' = [pc EXCEPT ![t] = l]

Return(t) == Goto(t, "user") /\ target' = [target EXCEPT ![t] = None]

At(places) == {t \in Threads : pc[t] \in places}

\* The thread linked in the wait queue of t, if any.
Waiting(t) == {info[t].wait_queue} \ {None}

-----------------------------------------------------------------------------
(* sys_thread_create.                                                      *)

\* The limit is tested before th_lock is taken.
Create(t) == /\ pc[t] = "user"
             /\ task.threads_nr # OrderNr
             /\ Goto(t, "c_order")
             /\ UNCHANGED <<task, info, locks, target, fate>>

\* What bitmap_ffs2(task->bitmap, task->next_order, ...) searches.
Candidates == {o \in task.bitmap : o >= task.next_order}

\* Reserve the first free order for a thread n still to be made; EAGAIN if
\* there is none.  (The creator goes no further when the model has no descriptor left.)
CreateOrder(t) ==
    LET o == Min(Candidates) IN
    /\ pc[t] = "c_order" /\ th_lock = None
    /\ \/ Candidates = {} /\ Goto(t, "user") /\ UNCHANGED <<task, info, target>>
       \/ /\ Candidates # {}
          /\ \E n \in {u \in Threads : pc[u] = "none"}, detached \in BOOLEAN :
                /\ info' = [info EXCEPT ![n].order = o, ![n].joinable = ~ detached]
                /\ target' = [target EXCEPT ![t] = n]
                /\ pc' = [pc EXCEPT ![t] = "c_make", ![n] = "new"]
          /\ task' = [task EXCEPT !.bitmap = @ \ {o}, !.next_order = o + 1, !.threads_nr = @ + 1]
    /\ UNCHANGED <<locks, fate>>

\* do_thread_create, up to the allocation of the descriptor: vmm_mmap fails and
\* leaves the order reserved, thread_create fails, or the thread is made.
CreateMake(t) ==
    /\ pc[t] = "c_make"
    /\ \/ /\ pc' = [pc EXCEPT ![t] = "user", ![target[t]] = "gone"]
          /\ target' = [target EXCEPT ![t] = None]
          /\ leaked' = leaked + 1
       \/ Goto(t, "c_undo") /\ UNCHANGED <<target, leaked>>
       \/ Goto(t, "c_add") /\ UNCHANGED <<target, leaked>>
    /\ UNCHANGED <<task, info, locks, woken, released, forsaken, ended>>


\* Give the order o back; the search starts from the smallest free one.
GiveBack(o) == [task EXCEPT !.bitmap = @ \cup {o}, !.threads_nr = @ - 1,
                            !.next_order = IF o < @ THEN o ELSE @]

CreateUndo(t) == /\ pc[t] = "c_undo" /\ th_lock = None
                 /\ task' = GiveBack(info[target[t]].order)
                 /\ pc' = [pc EXCEPT ![t] = "user", ![target[t]] = "gone"]
                 /\ target' = [target EXCEPT ![t] = None]
                 /\ UNCHANGED <<info, locks, fate>>

\* The thread enters the table: other threads may join or detach it from here.
CreateAdd(t) == LET o == info[target[t]].order IN
                /\ pc[t] = "c_add" /\ th_lock = None
                /\ task' = [task EXCEPT !.th_tbl[o] = target[t],
                                        !.max_order = IF o > @ THEN o ELSE @]
                /\ Goto(t, "c_start")
                /\ UNCHANGED <<info, locks, target, fate>>

\* The order is copied to the program and the thread starts; or the copy fails
\* and the thread is destroyed before it has run.
CreateStart(t) == LET n == target[t] IN
                  /\ pc[t] = "c_start"
                  /\ \/ /\ pc' = [pc EXCEPT ![t] = "user", ![n] = "user"]
                        /\ target' = [target EXCEPT ![t] = None]
                        /\ UNCHANGED <<released, forsaken>>
                     \/ /\ pc' = [pc EXCEPT ![t] = "c_fail", ![n] = "dead"]
                        /\ released' = released \cup {n}
                        /\ forsaken' = forsaken \cup (Waiting(n) \ {n})
                        /\ UNCHANGED target
                  /\ UNCHANGED <<task, info, locks, woken, leaked, ended>>

CreateFail(t) == /\ pc[t] = "c_fail" /\ pc[target[t]] = "gone"
                 /\ Return(t)
                 /\ UNCHANGED <<task, info, locks, fate>>

-----------------------------------------------------------------------------
(* sys_thread_join.  Calls that are refused before they lock the target    *)
(* change nothing and are left out.                                        *)

Found(o) == /\ o <= task.max_order
            /\ task.th_tbl[o] # None
            /\ pc[task.th_tbl[o]] # "d_lock"     \* the signature is still there

\* A slip: both paths read the joiner's own.
retvalOwn(t) == info[t].exit_value

\* What a join is about to return: what the target has written to the joiner, or to
\* itself.
retval(t) == IF pc[t] = "j_sleep" THEN info[t].exit_value ELSE info[target[t]].exit_value

\* A slip: th_lock is released after the lookup.
JoinLookup(t, o) == /\ pc[t] = "user" /\ th_lock = None
                    /\ Found(o)
                    /\ task.th_tbl[o] # t
                    /\ info[task.th_tbl[o]].joinable
                    /\ target' = [target EXCEPT ![t] = task.th_tbl[o]]
                    /\ Goto(t, "j_lock")
                    /\ UNCHANGED <<task, info, locks, fate>>

Join(t, o) == /\ pc[t] = "user" /\ th_lock = None
              /\ Found(o)
              /\ task.th_tbl[o] # t
              /\ info[task.th_tbl[o]].joinable
              /\ th_lock' = t
              /\ target' = [target EXCEPT ![t] = task.th_tbl[o]]
              /\ Goto(t, "j_lock")
              /\ UNCHANGED <<task, info, task_lock, lock, fate>>

\* A slip: this error path keeps th_lock.
JoinRefusedKeep(t) == LET T == target[t] IN
                      /\ pc[t] = "j_lock" /\ lock[T] = None
                      /\ info[T].join # None
                      /\ Return(t)
                      /\ UNCHANGED <<task, info, locks, fate>>

\* Somebody else has joined it: EINVAL.
JoinRefused(t) == LET T == target[t] IN
                  /\ pc[t] = "j_lock" /\ lock[T] = None
                  /\ info[T].join # None
                  /\ th_lock' = None
                  /\ Return(t)
                  /\ UNCHANGED <<task, info, task_lock, lock, fate>>

\* The target has not exited.
JoinWait(t) == LET T == target[t] IN
               /\ pc[t] = "j_lock" /\ lock[T] = None
               /\ info[T].join = None /\ info[T].wait_queue = None
               /\ info' = [info EXCEPT ![T].join = t, ![T].wait_queue = t]
               /\ forsaken' = IF T \in released THEN forsaken \cup {t} ELSE forsaken
               /\ lock' = [lock EXCEPT ![T] = t]
               /\ Goto(t, "j_wait")
               /\ UNCHANGED <<task, th_lock, task_lock, target, woken, released, leaked, ended>>

\* The target waits in its own queue.
JoinExited(t) == LET T == target[t] IN
                 /\ pc[t] = "j_lock" /\ lock[T] = None
                 /\ info[T].join = None /\ info[T].wait_queue # None
                 /\ woken' = woken \cup Waiting(T)
                 /\ info' = [info EXCEPT ![T].wait_queue = None]
                 /\ released' = released \cup {T}
                 /\ lock' = [lock EXCEPT ![T] = t]
                 /\ Goto(t, "j_done")
                 /\ UNCHANGED <<task, th_lock, task_lock, target, forsaken, leaked, ended>>

JoinUnlock(t) == /\ pc[t] \in {"j_wait", "j_done"}
                 /\ lock' = [lock EXCEPT ![target[t]] = None]
                 /\ Goto(t, IF pc[t] = "j_wait" THEN "j_wait2" ELSE "j_done2")
                 /\ UNCHANGED <<task, info, th_lock, task_lock, target, fate>>

JoinUnlockTask(t) == /\ pc[t] \in {"j_wait2", "j_done2"}
                     /\ th_lock' = None
                     /\ IF pc[t] = "j_wait2" THEN Goto(t, "j_sleep") /\ UNCHANGED target ELSE Return(t)
                     /\ UNCHANGED <<task, info, task_lock, lock, fate>>

JoinWoken(t) == /\ pc[t] = "j_sleep" /\ t \in woken
                /\ woken' = woken \ {t}
                /\ Return(t)
                /\ UNCHANGED <<task, info, locks, released, forsaken, leaked, ended>>

-----------------------------------------------------------------------------
(* sys_thread_detach.  It takes th_lock and releases task->lock: th_lock   *)
(* stays taken, and the unlock of a free spinlock leaves it at -1.         *)

Unlocked(word) == IF word < 0 THEN 0 ELSE word - 1

Detach(t, o) == /\ pc[t] = "user" /\ th_lock = None
                /\ o <= task.max_order
                /\ th_lock' = t
                /\ IF Found(o) /\ info[task.th_tbl[o]].joinable
                   THEN /\ target' = [target EXCEPT ![t] = task.th_tbl[o]]
                        /\ Goto(t, "x_lock")
                        /\ UNCHANGED task_lock
                   ELSE task_lock' = Unlocked(task_lock) /\ UNCHANGED <<target, pc>>
                /\ UNCHANGED <<task, info, lock, fate>>

\* A thread that waits for its joiner is told to go.
DetachClear(t) == LET T    == target[t]
                      wake == info[T].join = None /\ info[T].wait_queue # None
                  IN
                  /\ pc[t] = "x_lock" /\ lock[T] = None
                  /\ info' = [info EXCEPT ![T].joinable = FALSE,
                                          ![T].wait_queue = IF wake THEN None ELSE @]
                  /\ woken' = IF wake THEN woken \cup Waiting(T) ELSE woken
                  /\ released' = IF wake THEN released \cup {T} ELSE released
                  /\ forsaken' = IF wake THEN forsaken ELSE forsaken \cup Waiting(T)
                  /\ task_lock' = Unlocked(task_lock)
                  /\ Return(t)
                  /\ UNCHANGED <<task, th_lock, lock, leaked, ended>>

-----------------------------------------------------------------------------
(* sys_thread_exit.  The value a thread exits with is the thread itself.   *)

Dead(t) == Goto(t, "dead") /\ released' = released \cup {t}

ExitDetached(t) == /\ ~ info[t].joinable
                   /\ Dead(t)
                   /\ UNCHANGED <<info, lock, woken>>

ExitWait(t) == /\ info[t].joinable /\ info[t].wait_queue = None
               /\ info' = [info EXCEPT ![t].exit_value = t, ![t].wait_queue = t]
               /\ lock' = [lock EXCEPT ![t] = t]
               /\ Goto(t, "e_wait")
               /\ UNCHANGED <<woken, released>>

\* A slip: the joiner is unlinked and not woken.
ExitJoinedNoWake(t) == /\ info[t].joinable /\ info[t].wait_queue # None
                       /\ info' = [info EXCEPT ![info[t].join].exit_value = t, ![t].wait_queue = None]
                       /\ released' = released \cup {t}
                       /\ lock' = [lock EXCEPT ![t] = t]
                       /\ Goto(t, "e_go")
                       /\ UNCHANGED woken

ExitJoined(t) == /\ info[t].joinable /\ info[t].wait_queue # None
                 /\ info' = [info EXCEPT ![info[t].join].exit_value = t, ![t].wait_queue = None]
                 /\ woken' = woken \cup Waiting(t)
                 /\ released' = released \cup {t}
                 /\ lock' = [lock EXCEPT ![t] = t]
                 /\ Goto(t, "e_go")

Exit(t) == /\ pc[t] = "user" /\ lock[t] = None
           /\ ExitDetached(t) \/ ExitWait(t) \/ ExitJoined(t)
           /\ UNCHANGED <<task, th_lock, task_lock, target, forsaken, leaked, ended>>

ExitUnlock(t) == /\ pc[t] \in {"e_wait", "e_go"}
                 /\ lock' = [lock EXCEPT ![t] = None]
                 /\ Goto(t, IF pc[t] = "e_wait" THEN "e_sleep" ELSE "dead")
                 /\ UNCHANGED <<task, info, th_lock, task_lock, target, fate>>

ExitWoken(t) == /\ pc[t] = "e_sleep" /\ t \in woken
                /\ woken' = woken \ {t}
                /\ Dead(t)
                /\ UNCHANGED <<task, info, locks, target, forsaken, leaked, ended>>

-----------------------------------------------------------------------------
(* pthread_destroy, run on a dead thread.                                  *)

DestroySignature(t) == /\ pc[t] = "dead"
                       /\ Goto(t, "d_lock")
                       /\ UNCHANGED <<task, info, locks, target, fate>>

\* A slip: the count is compared after it is decremented.
DestroyUnlinkAfter(t) == LET o == info[t].order IN
                         /\ pc[t] = "d_lock" /\ th_lock = None
                         /\ task' = [GiveBack(o) EXCEPT !.th_tbl[o] = None]
                         /\ Goto(t, IF task.threads_nr - 1 = 1 THEN "d_last" ELSE "d_free")
                         /\ UNCHANGED <<info, locks, target, fate>>

DestroyUnlink(t) == LET o == info[t].order IN
                    /\ pc[t] = "d_lock" /\ th_lock = None
                    /\ task' = [GiveBack(o) EXCEPT !.th_tbl[o] = None]
                    /\ Goto(t, IF task.threads_nr = 1 THEN "d_last" ELSE "d_free")
                    /\ UNCHANGED <<info, locks, target, fate>>

\* The descriptor is freed, and the last thread destroys the task.
DestroyFree(t) == /\ pc[t] \in {"d_free", "d_last"}
                  /\ ended' = (ended \/ pc[t] = "d_last")
                  /\ Goto(t, "gone")
                  /\ info' = [info EXCEPT ![t] = NoInfo]
                  /\ UNCHANGED <<task, locks, target, woken, released, forsaken, leaked>>

-----------------------------------------------------------------------------
\* What a program may call, and what a call then does by itself.
Call(t) == Create(t) \/ Exit(t) \/ (\E o \in Orders : Join(t, o) \/ Detach(t, o))

Step(t) == \/ CreateOrder(t) \/ CreateMake(t) \/ CreateUndo(t)
           \/ CreateAdd(t) \/ CreateStart(t) \/ CreateFail(t)
           \/ JoinRefused(t) \/ JoinWait(t) \/ JoinExited(t)
           \/ JoinUnlock(t) \/ JoinUnlockTask(t) \/ JoinWoken(t)
           \/ DetachClear(t)
           \/ ExitUnlock(t) \/ ExitWoken(t)
           \/ DestroySignature(t) \/ DestroyUnlink(t) \/ DestroyFree(t)

Next == \E t \in Threads : Call(t) \/ Step(t)

\* A program need not call anything.  A spinlock that is released time and
\* again is taken in the end.
Spec == Init /\ [][Next]_vars /\ \A t \in Threads : SF_vars(Step(t))

-----------------------------------------------------------------------------
Freed == At({"d_free", "d_last", "gone"})

\* The threads that own an order: made, being made, or not yet unlinked.
Owners == Threads \ (Freed \cup At({"none"}))


\* th_lock keeps a descriptor alive from its lookup to the last access that join and
\* detach make to it, though its owner may die and be destroyed meanwhile.
NoUseAfterFree ==
    /\ \A o \in Orders : task.th_tbl[o] # None => task.th_tbl[o] \notin Freed
    /\ \A t \in At({"j_lock", "j_wait", "j_wait2", "j_done", "j_done2", "x_lock"}) : target[t] \notin Freed

\* A join that returns a value returns what its target exited with: neither a wakeup for
\* another reason nor another thread's value.
JoinValue == [][\A t \in Threads : JoinWoken(t) \/ JoinExited(t) => retval(t) = target[t]]_vars

\* The task is destroyed when no thread can reach it any more (at most the pages of
\* some descriptors remain to be freed) and none is counted, as task_destroy asserts.
TaskEndsLast == ended => Owners = {} /\ task.threads_nr = 0

-----------------------------------------------------------------------------
\* A sys_thread_detach has returned: th_lock stays taken, and task->lock is not free.
DetachLeak == task_lock # 0

\* Once its target has ended a joiner returns, unless it was forsaken: it came after the
\* target had looked at its queue for the last time, or the target was detached under it.
JoinReturns == \A t, u \in Threads :
                  (pc[t] = "j_sleep" /\ target[t] = u /\ u \in At({"dead", "d_lock"}) \cup Freed)
                     ~> (pc[t] = "user" \/ t \in forsaken)

\* A dead thread is reclaimed and its order given back, unless a detach has kept th_lock.
Reclaimed == \A t \in Threads : pc[t] = "dead" ~> (pc[t] = "gone" \/ DetachLeak)

\* The assertion of pthread_destroy: a joinable thread dies with an empty queue.
NoJoinerFound == [][\A t \in Threads : DestroySignature(t) /\ info[t].joinable
                                          => info[t].wait_queue = None]_vars
=============================================================================
