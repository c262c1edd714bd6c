---------------------------- MODULE MCRpcListner -----------------------------
(* Instances of RpcListner: the private listener of one CPU and the shared *)
(* listener of a cluster of two.                                           *)
EXTENDS RpcListner, TLC

CONSTANTS m1, m2, m3, t1, t2, t3, c1, c2

\* One RPC thread on each of two CPUs.
CpuOfTwo == t1 :> c1 @@ t2 :> c2
FirstTwo == c1 :> t1 @@ c2 :> t2

\* One CPU on which one more thread may be created.
CpuOfPrivate == t1 :> c1 @@ t2 :> c1
FirstPrivate == c1 :> t1

\* Two CPUs, and room for one more thread on the first.
CpuOfThree == t1 :> c1 @@ t2 :> c2 @@ t3 :> c1
=============================================================================
