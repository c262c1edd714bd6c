------------------------------- MODULE CondVar -------------------------------
(***************************************************************************)
(* The condition variable of kern/cond_var.c, on top of the semaphore that *)
(* serves as its mutex, used as a monitor: consumers wait until there is   *)
(* an item, producers add one and signal or broadcast.  cv_wait posts the  *)
(* semaphore while it holds the condition variable's spinlock, links       *)
(* itself, releases the spinlock, sleeps, and takes the semaphore again.   *)
(* Other threads call the operations of the semaphore directly.            *)
(***************************************************************************)
EXTENDS Semaphore

CONSTANTS Producers, Consumers,
          Others    \* threads that use the semaphore only

ASSUME CvAssumption == /\ Threads = Producers \cup Consumers \cup Others /\ Value = 1
                       /\ Cardinality(Producers) >= Cardinality(Consumers)

VARIABLES cvq, cvlock,   \* of the condition variable
          items,         \* the shared data
          at             \* where the thread is in the monitor

cvars == <<cvq, cvlock, items, at>>
allvars == <<vars, cvars>>

CInit == /\ Init
         /\ cvq = <<>> /\ cvlock = None /\ items = 0
         /\ at = [t \in Threads |-> "start"]

Move(t, l) == at' = [at EXCEPT ![t] = l]

\* The thread is in the monitor, its last semaphore call completed.
Inside(t, l) == at[t] = l /\ pc[t] = "out" /\ t \in holds

-----------------------------------------------------------------------------
(* The semaphore under the monitor.                                        *)

\* sem_wait, on entry or at the end of cv_wait; EDEADLK would be an error.
Take(t) == /\ at[t] \in {"start", "relock"}
           /\ IF SelfDeadlock(t) THEN Move(t, "error") /\ UNCHANGED vars
                                 ELSE Move(t, "lock") /\ WaitCheck(t, "wlock")
           /\ UNCHANGED <<cvq, cvlock, items>>

InWait(t) == (WaitLock(t) \/ TakeOwner(t)) /\ UNCHANGED cvars

\* sem_post, from cv_wait or from the end of the monitor.
Release(t) == /\ Inside(t, at[t])
              /\ at[t] \in {"cvpost", "unlock"}
              /\ IF MayPost(t) THEN PostCheck(t) /\ UNCHANGED at
                               ELSE Move(t, "error") /\ UNCHANGED vars
              /\ UNCHANGED <<cvq, cvlock, items>>

InPost(t) == /\ PostLock(t)
             /\ Move(t, IF at[t] = "cvpost" THEN "cvqueue" ELSE "done")
             /\ UNCHANGED <<cvq, cvlock, items>>

-----------------------------------------------------------------------------
\* A consumer with an item to take, or a producer.
UseItems(t) == /\ Inside(t, "lock")
               /\ \/ t \in Consumers /\ items > 0 /\ items' = items - 1 /\ Move(t, "unlock")
                  \/ t \in Producers /\ items' = items + 1 /\ Move(t, "signal")
               /\ UNCHANGED <<vars, cvq, cvlock>>

\* cv_wait, the test: the caller owns the semaphore and it is locked.
CvWait(t) == /\ Inside(t, "lock")
             /\ t \in Consumers /\ items = 0
             /\ Move(t, IF owner # t \/ count > 0 THEN "error" ELSE "cvlock")
             /\ UNCHANGED <<vars, cvq, cvlock, items>>

\* A slip: the semaphore is posted before the spinlock is taken.
CvLockLate(t) == /\ Inside(t, "cvlock")
                 /\ Move(t, "cvpost")
                 /\ UNCHANGED <<vars, cvq, cvlock, items>>

CvLock(t) == /\ Inside(t, "cvlock")
             /\ cvlock = None
             /\ cvlock' = t
             /\ Move(t, "cvpost")
             /\ UNCHANGED <<vars, cvq, items>>

\* wait_on, spinlock_unlock_nosched, sched_sleep.
CvQueue(t) == /\ at[t] = "cvqueue"
              /\ cvq' = Append(cvq, t)
              /\ cvlock' = None
              /\ Move(t, "cvsleep")
              /\ UNCHANGED <<vars, items>>

CvSignal(t) == /\ Inside(t, "signal")
               /\ cvlock = None
               /\ cvq' = IF cvq = <<>> THEN cvq ELSE Tail(cvq)
               /\ at' = [u \in Threads |-> IF u = t THEN "unlock"
                                           ELSE IF cvq # <<>> /\ u = Head(cvq) THEN "relock" ELSE at[u]]
               /\ UNCHANGED <<vars, cvlock, items>>

CvBroadcast(t) == /\ Inside(t, "signal")
                  /\ cvlock = None
                  /\ cvq' = <<>>
                  /\ at' = [u \in Threads |-> IF u = t THEN "unlock"
                                              ELSE IF \E i \in DOMAIN cvq : cvq[i] = u THEN "relock" ELSE at[u]]
                  /\ UNCHANGED <<vars, cvlock, items>>

Step(t) == \/ Take(t) \/ InWait(t) \/ Release(t) \/ InPost(t) \/ UseItems(t)
           \/ CvWait(t) \/ CvLock(t) \/ CvQueue(t) \/ CvSignal(t) \/ CvBroadcast(t)

Direct(t) == SemStep(t) /\ UNCHANGED cvars

CNext == \/ \E t \in Producers \cup Consumers : Step(t)
         \/ \E t \in Others : Direct(t)

\* Every thread that can run does; the others post what they hold.
CSpec == /\ CInit /\ [][CNext]_allvars
         /\ \A t \in Producers \cup Consumers : WF_allvars(Step(t))
         /\ \A t \in Others : /\ WF_allvars(Direct(t) /\ GoesOn(t))
                              /\ WF_allvars(Direct(t) /\ Posts(t))

-----------------------------------------------------------------------------

\* No signal is lost: with as many producers as consumers every consumer gets
\* its item and everybody leaves the monitor.
EveryoneLeaves == <>(\A t \in Producers \cup Consumers : at[t] = "done")
=============================================================================
