------------------------------- MODULE MCLocks -------------------------------
(***************************************************************************)
(* The locks of the kernel and its semaphore in one model.  They share no  *)
(* state, so each behaviour exercises one of them, in one of its uses:     *)
(* "using" is chosen at the start and says whose threads run.              *)
(***************************************************************************)
EXTENDS McsLock, Spinlock, RWLock

CONSTANTS Holders, None, Value, MaxExtra   \* of the semaphore, see there

VARIABLES using,
          sem_count, sem_owner, sem_wq, sem_pc, holds, extra

Sem == INSTANCE Semaphore WITH Threads <- Holders, InitOwners <- {None}, count <- sem_count,
                               owner <- sem_owner, wq <- sem_wq, pc <- sem_pc

semVars == <<sem_count, sem_owner, sem_wq, sem_pc, holds, extra>>
lockVars == <<using, mcsVars, spinVars, vars, semVars>>

\* spin: the exclusive mode only, as in the rest of the kernel; spin_rd: with a
\* reader.  rw: calls from the kernel; rw_user: through sys_rwlock.
Uses == {"mcs", "spin", "spin_rd", "rw", "rw_user", "sem"}

LockInit == using \in Uses /\ McsInit /\ SpinInit /\ Init /\ Sem!Init

Mcs(t)  == using = "mcs" /\ McsStep(t) /\ UNCHANGED <<using, spinVars, vars, semVars>>
Spin(t) == /\ using = "spin_rd" \/ (using = "spin" /\ t \in Writers)
           /\ SpinStep(t)
           /\ UNCHANGED <<using, mcsVars, vars, semVars>>
RW(t)   == /\ using = IF t \in Users THEN "rw_user" ELSE "rw"
           /\ Step(t)
           /\ UNCHANGED <<using, mcsVars, spinVars, semVars>>
Count(t) == using = "sem" /\ Sem!SemStep(t) /\ UNCHANGED <<using, mcsVars, spinVars, vars>>

LockNext == \/ \E t \in Lockers : Mcs(t)
            \/ \E t \in Spinners : Spin(t)
            \/ \E t \in Threads : RW(t)
            \/ \E t \in Holders : Count(t)

\* The fairness of each module.
LockSpec == /\ LockInit /\ [][LockNext]_lockVars
            /\ \A t \in Lockers : WF_lockVars(Mcs(t) /\ mpc[t] # "idle")
            /\ \A t \in Spinners : WF_lockVars(Spin(t) /\ Locking(t))
            /\ \A t \in Threads : /\ WF_lockVars(RW(t) /\ Unlock(t))
                                  /\ WF_lockVars(RW(t) /\ (Destroy(t) \/ Free(t)))
            /\ \A t \in Holders : /\ WF_lockVars(Count(t) /\ Sem!GoesOn(t))
                                  /\ WF_lockVars(Count(t) /\ Sem!Posts(t))

-----------------------------------------------------------------------------
\* Type correctness: no count or word leaves its range.
TypesOK == McsTypeOK /\ SpinTypeOK /\ TypeOK /\ Sem!TypeOK

\* In the exclusive mode the lock is not lost: while a thread spins on, somebody
\* gets in.
Progress == \A t \in Writers : (using = "spin" /\ spc[t] \in {"load", "cas"})
                                  ~> (\E u \in Writers : SpinHolding(u) \/ spc[t] = "out")

\* See Permits and EveryWaiterServed in Semaphore; here for a counting semaphore,
\* which threads that hold nothing may post.
SemPermits == Sem!Permits
SemServed  == Sem!EveryWaiterServed
=============================================================================
