------------------------------- MODULE RWLock --------------------------------
(***************************************************************************)
(* The read-write lock of kern/rwlock.c and its system call,               *)
(* kern/sys_rwlock.c.  Every operation runs under the lock's mcs_lock, so  *)
(* it is one step here (McsLockProofs proves that mcs_lock excludes).  An  *)
(* unlock hands the lock over: the threads it wakes own the lock before    *)
(* they run.                                                               *)
(***************************************************************************)
EXTENDS Integers, Sequences, FiniteSets

CONSTANTS Threads,
          Users     \* those that come through sys_rwlock

ASSUME RWAssumption == IsFiniteSet(Threads) /\ Users \subseteq Threads

VARIABLES count,    \* rwlock->count: -1 a writer, n > 0 readers
          rdq,      \* rd_wait_queue, woken all at once: its order is nothing
          wrq,      \* wr_wait_queue
          pc,       \* out, rd_wait, wr_wait, rd, wr; destroy, free in sys_rwlock
          asked,    \* some thread called RWLOCK_DESTROY
          freed     \* the memory of the lock is freed

vars == <<count, rdq, wrq, pc, asked, freed>>

Init == /\ count = 0 /\ rdq = {} /\ wrq = <<>>
        /\ pc = [t \in Threads |-> "out"]
        /\ asked = FALSE /\ freed = FALSE

\* isBadLock: a call on a freed lock fails, or is undefined.
Enter(t) == pc[t] = "out" /\ ~ freed

Goto(t, l) == pc' = [pc EXCEPT ![t] = l]

-----------------------------------------------------------------------------
\* A slip: a writer enters beside the readers.
WrLockBeside(t) == /\ Enter(t)
                   /\ IF count >= 0
                      THEN count' = -1 /\ Goto(t, "wr") /\ UNCHANGED wrq
                      ELSE wrq' = Append(wrq, t) /\ Goto(t, "wr_wait") /\ UNCHANGED count
                   /\ UNCHANGED <<rdq, asked, freed>>

WrLock(t) == /\ Enter(t)
             /\ IF count = 0
                THEN count' = count - 1 /\ Goto(t, "wr") /\ UNCHANGED wrq
                ELSE wrq' = Append(wrq, t) /\ Goto(t, "wr_wait") /\ UNCHANGED count
             /\ UNCHANGED <<rdq, asked, freed>>

\* A slip: readers overtake the waiting writers.
RdLockOvertake(t) == /\ Enter(t)
                     /\ IF count >= 0
                        THEN count' = count + 1 /\ Goto(t, "rd") /\ UNCHANGED rdq
                        ELSE rdq' = rdq \cup {t} /\ Goto(t, "rd_wait") /\ UNCHANGED count
                     /\ UNCHANGED <<wrq, asked, freed>>

\* "priority is given to writers"
RdLock(t) == /\ Enter(t)
             /\ IF count >= 0 /\ wrq = <<>>
                THEN count' = count + 1 /\ Goto(t, "rd") /\ UNCHANGED rdq
                ELSE rdq' = rdq \cup {t} /\ Goto(t, "rd_wait") /\ UNCHANGED count
             /\ UNCHANGED <<wrq, asked, freed>>

TryWrLock(t) == /\ Enter(t)
                /\ count = 0
                /\ count' = count - 1
                /\ Goto(t, "wr")
                /\ UNCHANGED <<rdq, wrq, asked, freed>>

TryRdLock(t) == /\ Enter(t)
                /\ count >= 0 /\ wrq = <<>>
                /\ count' = count + 1
                /\ Goto(t, "rd")
                /\ UNCHANGED <<rdq, wrq, asked, freed>>

-----------------------------------------------------------------------------
(* rwlock_unlock.  In sys_rwlock the case RWLOCK_UNLOCK has no break: it   *)
(* goes on with the destruction.                                           *)

After(t) == IF t \in Users THEN "destroy" ELSE "out"

\* Not the last reader.
UnlockReader(t) == /\ pc[t] \in {"rd", "wr"}
                   /\ count > 1
                   /\ count' = count - 1
                   /\ Goto(t, After(t))
                   /\ UNCHANGED <<rdq, wrq, asked, freed>>


\* The last reader or a writer, with a writer waiting.
UnlockToWriter(t) == /\ pc[t] \in {"rd", "wr"}
                     /\ count \in {1, -1}
                     /\ wrq # <<>>
                     /\ count' = -1
                     /\ wrq' = Tail(wrq)
                     /\ pc' = [pc EXCEPT ![t] = After(t), ![Head(wrq)] = "wr"]
                     /\ UNCHANGED <<rdq, asked, freed>>

\* A slip: one reader is woken.
UnlockToReader(t) == /\ pc[t] \in {"rd", "wr"}
                     /\ count \in {1, -1}
                     /\ wrq = <<>>
                     /\ \/ /\ rdq = {} /\ count' = 0
                           /\ Goto(t, After(t)) /\ UNCHANGED rdq
                        \/ \E r \in rdq : /\ count' = 1 /\ rdq' = rdq \ {r}
                                          /\ pc' = [pc EXCEPT ![t] = After(t), ![r] = "rd"]
                     /\ UNCHANGED <<wrq, asked, freed>>

\* The last reader or a writer, with no writer waiting.
UnlockToReaders(t) == /\ pc[t] \in {"rd", "wr"}
                      /\ count \in {1, -1}
                      /\ wrq = <<>>
                      /\ count' = Cardinality(rdq)
                      /\ rdq' = {}
                      /\ pc' = [u \in Threads |-> IF u = t THEN After(t)
                                                  ELSE IF u \in rdq THEN "rd" ELSE pc[u]]
                      /\ UNCHANGED <<wrq, asked, freed>>

Unlock(t) == UnlockReader(t) \/ UnlockToWriter(t) \/ UnlockToReaders(t)

-----------------------------------------------------------------------------
SysDestroy(t) == /\ t \in Users
                 /\ Enter(t)
                 /\ Goto(t, "destroy")
                 /\ asked' = TRUE
                 /\ UNCHANGED <<count, rdq, wrq, freed>>

\* rwlock_destroy: EBUSY while the lock is held.
Destroy(t) == /\ pc[t] = "destroy"
              /\ Goto(t, IF count # 0 THEN "out" ELSE "free")
              /\ UNCHANGED <<count, rdq, wrq, asked, freed>>

Free(t) == /\ pc[t] = "free"
           /\ freed' = TRUE
           /\ Goto(t, "out")
           /\ UNCHANGED <<count, rdq, wrq, asked>>

Step(t) == \/ WrLock(t) \/ RdLock(t) \/ TryWrLock(t) \/ TryRdLock(t)
           \/ Unlock(t) \/ SysDestroy(t) \/ Destroy(t) \/ Free(t)

Next == \E t \in Threads : Step(t)

Safety == Init /\ [][Next]_vars

\* Who holds the lock releases it.
Spec == Safety /\ \A t \in Threads : WF_vars(Unlock(t)) /\ WF_vars(Destroy(t) \/ Free(t))

-----------------------------------------------------------------------------
At(l) == {t \in Threads : pc[t] = l}

TypeOK == /\ count \in -1 .. Cardinality(Threads)
          /\ rdq \subseteq Threads /\ wrq \in Seq(Threads)
          /\ pc \in [Threads -> {"out", "rd_wait", "wr_wait", "rd", "wr", "destroy", "free"}]
          /\ asked \in BOOLEAN /\ freed \in BOOLEAN

\* A writer is alone: no other writer and no reader holds the lock with it,
\* however it was acquired (on entry, by a try, by hand-over).
Exclusion == \A s, t \in Threads : pc[s] = "wr" /\ pc[t] \in {"rd", "wr"} => s = t

\* rwlock_unlock's branches read the holders off the count alone: it is the
\* number of readers, or -1 for a writer, hand-overs included.
CountExact == IF At("wr") # {} THEN count = -1 ELSE count = Cardinality(At("rd"))

\* Nobody is left asleep by a free lock; a reader sleeps only for a writer that
\* holds the lock or waits itself.
NoneForgotten == /\ count = 0 => wrq = <<>>
                 /\ rdq # {} => count = -1 \/ wrq # <<>>

\* "priority is given to writers": a step that gives the lock to a reader finds
\* no writer waiting.
WriterPriority == [][(\E t \in Threads : pc[t] # "rd" /\ pc'[t] = "rd") => wrq = <<>>]_vars


\* The library has RWLOCK_UNLOCK and RWLOCK_DESTROY as two operations: a lock
\* nobody has destroyed stays allocated.
KeptUntilDestroyed == freed => asked
=============================================================================
