----------------------------- MODULE BarrierSpec -----------------------------
(***************************************************************************)
(* What a reusable barrier for a fixed set of participants promises: the   *)
(* participants arrive one by one, the barrier opens only when all of them *)
(* have arrived, and each of them then leaves once.  A participant may be  *)
(* back for the next episode while others have not left this one yet.      *)
(***************************************************************************)
EXTENDS Integers, FiniteSets

CONSTANT Threads

VARIABLES arrived,    \* waiting for the barrier to open
          released    \* let through, not gone yet

absvars == <<arrived, released>>

Init == arrived = {} /\ released = {}

Arrive(t) == /\ t \notin arrived \cup released
             /\ arrived' = arrived \cup {t}
             /\ UNCHANGED released

Open == /\ arrived = Threads
        /\ arrived' = {}
        /\ released' = released \cup Threads

Leave(t) == /\ t \in released
            /\ released' = released \ {t}
            /\ UNCHANGED arrived

Next == Open \/ \E t \in Threads : Arrive(t) \/ Leave(t)

Spec == Init /\ [][Next]_absvars /\ WF_absvars(Open)
        /\ \A t \in Threads : WF_absvars(Leave(t))
=============================================================================
