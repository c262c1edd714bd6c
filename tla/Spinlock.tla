------------------------------ MODULE Spinlock -------------------------------
(***************************************************************************)
(* The spinlock of kern/spinlock.c with its two modes.  lock->val is 0     *)
(* when free, -1 under a lock, n under n readers; a lock that meets        *)
(* readers sets the sign bit to keep new readers out.  Loads, stores and   *)
(* compare-and-swaps of the word are the steps.                            *)
(***************************************************************************)
EXTENDS Integers, FiniteSets

CONSTANTS Writers,   \* threads that call spinlock_lock or spinlock_trylock
          Readers,   \* threads that call spinlock_rdlock or spinlock_tryrdlock
          Sign       \* 2^31, the weight of the sign bit

Spinners == Writers \cup Readers

ASSUME SpinAssumption == /\ IsFiniteSet(Spinners) /\ Writers \cap Readers = {}
                         /\ Sign \in Nat /\ Cardinality(Spinners) + 1 < Sign

VARIABLES val,    \* lock->val
          loaded,     \* the value a thread has loaded
          spc      \* out, load, cas, in, store

spinVars == <<val, loaded, spc>>

SpinInit == val = 0 /\ loaded = [t \in Spinners |-> 0] /\ spc = [t \in Spinners |-> "out"]

SpinGoto(t, l) == spc' = [spc EXCEPT ![t] = l]

\* val | SL_WRITER
Flagged(v) == IF v >= 0 THEN v - Sign ELSE v

-----------------------------------------------------------------------------
Call(t) == spc[t] = "out" /\ SpinGoto(t, "load") /\ UNCHANGED <<val, loaded>>

\* val = *ptr, in the loop; a busy lock is a chance to yield and another load.
Load(t) == /\ spc[t] = "load"
           /\ loaded' = [loaded EXCEPT ![t] = val]
           /\ SpinGoto(t, IF val < 0 THEN "load" ELSE "cas")
           /\ UNCHANGED val

\* A lock that has seen readers sets the sign bit, and loads again.
SetWriter(t) == /\ t \in Writers
                /\ spc[t] = "cas" /\ loaded[t] > 0
                /\ val' = IF val = loaded[t] THEN Flagged(val) ELSE val
                /\ SpinGoto(t, "load")
                /\ UNCHANGED loaded


Acquire(t) == /\ t \in Writers
              /\ spc[t] = "cas" /\ loaded[t] = 0
              /\ IF val = 0 THEN val' = -1 /\ SpinGoto(t, "in")
                            ELSE UNCHANGED val /\ SpinGoto(t, "load")
              /\ UNCHANGED loaded

RdAcquire(t) == /\ t \in Readers
                /\ spc[t] = "cas"
                /\ IF val = loaded[t] THEN val' = val + 1 /\ SpinGoto(t, "in")
                                  ELSE UNCHANGED val /\ SpinGoto(t, "load")
                /\ UNCHANGED loaded

\* spinlock_trylock and spinlock_tryrdlock give up where the loops load again.
GiveUp(t) == /\ \/ spc[t] = "load" /\ (val < 0 \/ (t \in Writers /\ val > 0))
                \/ spc[t] = "cas" /\ val # loaded[t]
             /\ SpinGoto(t, "out")
             /\ UNCHANGED <<val, loaded>>

-----------------------------------------------------------------------------
\* The unlock, common to both modes: load, then store 0 or decrement.
SpinUnlock(t) == /\ spc[t] = "in"
                 /\ loaded' = [loaded EXCEPT ![t] = val]
                 /\ SpinGoto(t, "store")
                 /\ UNCHANGED val

\* A slip: the word is decremented in both cases.
StoreDecrement(t) == /\ spc[t] = "store"
                     /\ val' = val - 1
                     /\ SpinGoto(t, "out")
                     /\ UNCHANGED loaded

Store(t) == /\ spc[t] = "store"
            /\ val' = IF loaded[t] < 0 THEN 0 ELSE val - 1
            /\ SpinGoto(t, "out")
            /\ UNCHANGED loaded

Locking(t) == Load(t) \/ SetWriter(t) \/ Acquire(t) \/ RdAcquire(t) \/ SpinUnlock(t) \/ Store(t)

SpinStep(t) == Call(t) \/ GiveUp(t) \/ Locking(t)

SpinNext == \E t \in Spinners : SpinStep(t)

SpinSafety == SpinInit /\ [][SpinNext]_spinVars

\* A thread that spins or holds the lock is running.
SpinSpec == SpinSafety /\ \A t \in Spinners : WF_spinVars(Locking(t))

-----------------------------------------------------------------------------
SpinHolding(t) == spc[t] \in {"in", "store"}

\* Free, locked, n readers, or n readers and the sign bit.
Words == {-1} \cup UNION {{n, n - Sign} : n \in 0 .. Cardinality(Readers)}

SpinTypeOK == /\ val \in Words
              /\ loaded \in [Spinners -> Words]
              /\ spc \in [Spinners -> {"out", "load", "cas", "in", "store"}]

=============================================================================
