----------------------------- MODULE MCBarriers ------------------------------
(***************************************************************************)
(* The two barriers of the kernel, the one of the boot and the one of the  *)
(* threads, in one model.  They share no state: each behaviour exercises   *)
(* the one that "using" names.                                             *)
(***************************************************************************)
EXTENDS McsBarrier, Barrier

VARIABLE using

barrierVars == <<using, mcsVars, vars>>

BarriersInit == using \in {"mcs", "shared"} /\ McsInit /\ Init

McsWait(t)    == using = "mcs" /\ McsStep(t) /\ UNCHANGED <<using, vars>>
SharedWait(t) == using = "shared" /\ Step(t) /\ UNCHANGED <<using, mcsVars>>

BarriersNext == \/ \E t \in Cpus : McsWait(t)
                \/ \E t \in Threads : SharedWait(t)

\* The fairness of each module: a CPU in the barrier runs, and so does the
\* thread that opens it.
BarriersSpec == /\ BarriersInit /\ [][BarriersNext]_barrierVars
                /\ \A t \in Cpus : WF_barrierVars(McsWait(t) /\ mpc[t] # "idle")
                /\ \A t \in Threads : WF_barrierVars(SharedWait(t) /\ pc[t] # "out")

-----------------------------------------------------------------------------
\* Type correctness: no arrival decrements a spent counter, no place beyond the
\* table is taken.
TypesOK == McsTypeOK /\ TypeOK
=============================================================================
