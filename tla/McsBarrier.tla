----------------------------- MODULE McsBarrier ------------------------------
(***************************************************************************)
(* mcs_barrier_wait of kern/mcs_sync.c, the barrier on which the CPUs meet *)
(* during the boot of the kernel.  It is a phase-reversing barrier: two    *)
(* flag words serve alternate episodes.  The last arrival flips the phase, *)
(* rearms the counter, clears the flag of the next episode and only then   *)
(* raises the flag of this one; each of these stores is a step here.       *)
(***************************************************************************)
EXTENDS Integers, FiniteSets

CONSTANT Cpus     \* the participants: mcs_barrier_init is given their number

ASSUME McsBarrierAssumption == IsFiniteSet(Cpus) /\ Cpus # {}

VARIABLES phase,     \* ptr->phase.value
          cntr,      \* ptr->cntr.value
          ticket,    \* ticket[0] is ptr->ticket.value, ticket[1] ptr->ticket2.value
          my,        \* my[t]: the phase thread t read on entry, hence its flag word
          mpc

mcsVars == <<phase, cntr, ticket, my, mpc>>

McsCount == Cardinality(Cpus)

\* mcs_barrier_init
McsInit == /\ phase = 0
           /\ cntr = McsCount
           /\ ticket = [p \in 0 .. 1 |-> 0]
           /\ my = [t \in Cpus |-> 0]
           /\ mpc = [t \in Cpus |-> "idle"]

Goto(t, l) == mpc' = [mpc EXCEPT ![t] = l]

\* Load the phase, which selects the flag word of this episode.
ReadPhase(t) == /\ mpc[t] = "idle"
                /\ my' = [my EXCEPT ![t] = phase]
                /\ Goto(t, "add")
                /\ UNCHANGED <<phase, cntr, ticket>>

\* The atomic decrement tells the last arrival from the others.
Decrement(t) == /\ mpc[t] = "add"
                /\ cntr' = cntr - 1
                /\ Goto(t, IF cntr = 1 THEN "flip" ELSE "spin")
                /\ UNCHANGED <<phase, ticket, my>>

FlipPhase(t) == /\ mpc[t] = "flip"
                /\ phase' = 1 - my[t]
                /\ Goto(t, "rearm")
                /\ UNCHANGED <<cntr, ticket, my>>

\* A slip: the counter not rearmed.
RearmNot(t) == /\ mpc[t] = "rearm"
               /\ Goto(t, "clear")
               /\ UNCHANGED <<phase, cntr, ticket, my>>

Rearm(t) == /\ mpc[t] = "rearm"
            /\ cntr' = McsCount
            /\ Goto(t, "clear")
            /\ UNCHANGED <<phase, ticket, my>>

\* A slip: the next episode's flag left up.
ClearNextNot(t) == /\ mpc[t] = "clear"
                   /\ Goto(t, "raise")
                   /\ UNCHANGED <<phase, cntr, ticket, my>>

ClearNext(t) == /\ mpc[t] = "clear"
                /\ ticket' = [ticket EXCEPT ![1 - my[t]] = 0]
                /\ Goto(t, "raise")
                /\ UNCHANGED <<phase, cntr, my>>

RaiseCurrent(t) == /\ mpc[t] = "raise"
                   /\ ticket' = [ticket EXCEPT ![my[t]] = 1]
                   /\ Goto(t, "out")
                   /\ UNCHANGED <<phase, cntr, my>>

\* The spin loop ends when the flag is up.
SeeFlag(t) == /\ mpc[t] = "spin"
              /\ ticket[my[t]] # 0
              /\ Goto(t, "out")
              /\ UNCHANGED <<phase, cntr, ticket, my>>

McsReturn(t) == /\ mpc[t] = "out"
                /\ Goto(t, "idle")
                /\ UNCHANGED <<phase, cntr, ticket, my>>

\* What a thread does on its own once it has called mcs_barrier_wait.
McsInside(t) == Decrement(t) \/ FlipPhase(t) \/ Rearm(t) \/ ClearNext(t)
                \/ RaiseCurrent(t) \/ SeeFlag(t) \/ McsReturn(t)

McsStep(t) == ReadPhase(t) \/ McsInside(t)

McsNext == \E t \in Cpus : McsStep(t)

\* The barrier is used at boot, one thread per CPU and no scheduler running:
\* a CPU that has entered keeps executing.
McsSpec == McsInit /\ [][McsNext]_mcsVars /\ \A t \in Cpus : WF_mcsVars(McsInside(t))

-----------------------------------------------------------------------------
\* The threads whose flag is up or that are on their way out.
McsReleased == {t \in Cpus : mpc[t] = "out" \/ (mpc[t] = "spin" /\ ticket[my[t]] = 1)}

\* The threads that have decremented the counter and are not released.
McsArrived == {t \in Cpus : mpc[t] \in {"spin", "flip", "rearm", "clear", "raise"}} \ McsReleased

(***************************************************************************)
(* The words of the barrier stay in range: the counter never leaves        *)
(* 0..Count, in particular no arrival decrements a spent counter.          *)
(***************************************************************************)
McsTypeOK == /\ phase \in 0 .. 1
             /\ cntr \in 0 .. McsCount
             /\ ticket \in [0 .. 1 -> 0 .. 1]
             /\ my \in [Cpus -> 0 .. 1]
             /\ mpc \in [Cpus -> {"idle", "add", "spin", "flip", "rearm", "clear", "raise", "out"}]

McsAbs == INSTANCE BarrierSpec WITH Threads <- Cpus, arrived <- McsArrived, released <- McsReleased

(***************************************************************************)
(* mcs_barrier_wait implements the barrier of BarrierSpec: nobody leaves   *)
(* an episode that somebody has not joined, a flag that is up stays up     *)
(* until everyone it releases has seen it, and once all have arrived all   *)
(* leave.                                                                  *)
(***************************************************************************)
McsImplementsBarrier == McsAbs!Spec
=============================================================================
