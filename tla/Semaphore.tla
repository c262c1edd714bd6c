------------------------------ MODULE Semaphore ------------------------------
(***************************************************************************)
(* The semaphore of kern/semaphore.c.  The count and the wait queue change *)
(* under the semaphore's spinlock, one step here; the tests of the owner   *)
(* before the lock is taken, and the store of the owner after it is        *)
(* released, are not under the lock and are steps of their own.  A post    *)
(* hands the permit over to the thread it wakes.                           *)
(***************************************************************************)
EXTENDS Integers, Sequences, FiniteSets

CONSTANTS Threads, None,
          Value,        \* sem->value
          MaxExtra,     \* bound: posts by threads that hold no permit
          InitOwners    \* what sem->owner, not set by sem_init, may be at first

ASSUME SemAssumption == /\ IsFiniteSet(Threads) /\ None \notin Threads
                        /\ Value \in Nat /\ MaxExtra \in Nat
                        /\ InitOwners \subseteq Threads \cup {None}

VARIABLES count, owner, wq,   \* of the semaphore
          pc,      \* out, wlock, asleep, took, trylock, plock
          holds,   \* the threads that have a permit
          extra    \* posts by threads that held none

vars == <<count, owner, wq, pc, holds, extra>>

Init == /\ count = Value /\ owner \in InitOwners /\ wq = <<>>
        /\ pc = [t \in Threads |-> "out"]
        /\ holds = {} /\ extra = 0

Goto(t, l) == pc' = [pc EXCEPT ![t] = l]

-----------------------------------------------------------------------------
\* The test of sem_wait and sem_trywait, without the lock: the
\* call returns EDEADLK, which changes nothing.
SelfDeadlock(t) == Value = 1 /\ count # 1 /\ owner = t

WaitCheck(t, next) == /\ pc[t] = "out"
                      /\ ~ SelfDeadlock(t)
                      /\ Goto(t, next)
                      /\ UNCHANGED <<count, owner, wq, holds, extra>>

\* A slip: a thread goes to sleep for the last permit.
WaitLockEarly(t) == /\ pc[t] = "wlock"
                    /\ count' = count - 1
                    /\ IF count' > 0
                       THEN Goto(t, "took") /\ holds' = holds \cup {t} /\ UNCHANGED wq
                       ELSE Goto(t, "asleep") /\ wq' = Append(wq, t) /\ UNCHANGED holds
                    /\ UNCHANGED <<owner, extra>>

\* sem_wait under the lock.
WaitLock(t) == /\ pc[t] = "wlock"
               /\ count' = count - 1
               /\ IF count' >= 0
                  THEN Goto(t, "took") /\ holds' = holds \cup {t} /\ UNCHANGED wq
                  ELSE Goto(t, "asleep") /\ wq' = Append(wq, t) /\ UNCHANGED holds
               /\ UNCHANGED <<owner, extra>>


\* The end of sem_wait: sem->owner = this.
TakeOwner(t) == /\ pc[t] = "took"
                /\ owner' = t
                /\ Goto(t, "out")
                /\ UNCHANGED <<count, wq, holds, extra>>

\* sem_trywait under the lock.
TryLock(t) == /\ pc[t] = "trylock"
              /\ IF count > 0
                 THEN count' = count - 1 /\ owner' = t /\ holds' = holds \cup {t}
                 ELSE UNCHANGED <<count, owner, holds>>
              /\ Goto(t, "out")
              /\ UNCHANGED <<wq, extra>>

-----------------------------------------------------------------------------

\* The test of sem_post, without the lock: only the owner posts a mutex.
MayPost(t) == Value = 1 => count <= 0 /\ owner = t

\* A refused post returns EINVAL and changes nothing.
PostCheck(t) == /\ pc[t] = "out"
                /\ MayPost(t)
                /\ t \notin holds /\ Value # 1 => extra < MaxExtra
                /\ Goto(t, "plock")
                /\ extra' = IF t \in holds THEN extra ELSE extra + 1
                /\ UNCHANGED <<count, owner, wq, holds>>

\* A slip: the last waiter is woken first.
PostLockLifo(t) == /\ pc[t] = "plock"
                   /\ count' = count + 1
                   /\ IF count' <= 0
                      THEN LET h == wq[Len(wq)] IN
                           /\ wq' = SubSeq(wq, 1, Len(wq) - 1) /\ owner' = h
                           /\ holds' = (holds \ {t}) \cup {h}
                           /\ pc' = [pc EXCEPT ![t] = "out", ![h] = "took"]
                      ELSE /\ holds' = holds \ {t} /\ owner' = None /\ UNCHANGED wq
                           /\ Goto(t, "out")
                   /\ UNCHANGED extra

\* sem_post under the lock.
PostLock(t) == /\ pc[t] = "plock"
               /\ count' = count + 1
               /\ IF count' <= 0
                  THEN /\ wq' = Tail(wq) /\ owner' = Head(wq)
                       /\ holds' = (holds \ {t}) \cup {Head(wq)}
                       /\ pc' = [pc EXCEPT ![t] = "out", ![Head(wq)] = "took"]
                  ELSE /\ holds' = holds \ {t} /\ owner' = None /\ UNCHANGED wq
                       /\ Goto(t, "out")
               /\ UNCHANGED extra

\* sem_destroy: EBUSY, with no effect, unless all permits are back.
Destroy(t) == /\ pc[t] = "out"
              /\ count = Value
              /\ owner' = None
              /\ UNCHANGED <<count, wq, pc, holds, extra>>

\* A thread takes one permit at a time, except that it may try a mutex it holds.
Calls(t) == t \notin holds \/ Value = 1

SemStep(t) == \/ Calls(t) /\ WaitCheck(t, "wlock")
              \/ Calls(t) /\ WaitCheck(t, "trylock")
              \/ WaitLock(t) \/ TakeOwner(t) \/ TryLock(t)
              \/ PostCheck(t) \/ PostLock(t) \/ Destroy(t)

Next == \E t \in Threads : SemStep(t)

Safety == Init /\ [][Next]_vars

\* A call under way goes on, and a holder posts.
GoesOn(t) == WaitLock(t) \/ TakeOwner(t) \/ TryLock(t) \/ PostLock(t)
Posts(t)  == t \in holds /\ PostCheck(t)

Spec == Safety /\ \A t \in Threads : WF_vars(GoesOn(t)) /\ WF_vars(Posts(t))

-----------------------------------------------------------------------------
TypeOK == /\ count \in (Value - Cardinality(Threads)) .. (Value + MaxExtra)
          /\ owner \in Threads \cup {None}
          /\ wq \in Seq(Threads)
          /\ pc \in [Threads -> {"out", "wlock", "asleep", "took", "trylock", "plock"}]
          /\ holds \subseteq Threads /\ extra \in 0 .. MaxExtra

\* Permits are conserved: what has been put in is free, held, or owed to the
\* sleeping threads; a negative count is exactly the number of sleepers, so no
\* thread sleeps beside a free permit.
Pending == Cardinality({t \in Threads \ holds : pc[t] = "plock"})
Permits == /\ count = Value + extra - Pending - Cardinality(holds) - Len(wq)
           /\ count >= 0 => wq = <<>>
           /\ count < 0  => Len(wq) = 0 - count


\* Waiters are served in their order: each one gets a permit if holders post.
EveryWaiterServed == \A t \in Threads : pc[t] = "asleep" ~> t \in holds
=============================================================================
