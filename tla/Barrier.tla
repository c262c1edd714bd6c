------------------------------- MODULE Barrier -------------------------------
(***************************************************************************)
(* barrier_wait of kern/barrier.c for a shared barrier, in the build       *)
(* without hardware barriers.  An arrival takes the next place of the      *)
(* table under the spinlock; the last one resets the index, releases the   *)
(* lock and then wakes the others place by place, while those already      *)
(* awake may be back for the next episode and write the table again.       *)
(***************************************************************************)
EXTENDS Integers, FiniteSets

CONSTANTS Threads, None

Count == Cardinality(Threads)   \* barrier->count

ASSUME BarrierAssumption == IsFiniteSet(Threads) /\ Threads # {} /\ None \notin Threads

VARIABLES index,     \* barrier->index
          listner,   \* the wait queue data base, one record per place
          scan,      \* scan[t]: the next place, and the number of wakeups so far,
                     \* of t's barrier_do_broadcast
          pc         \* out, sleep, last (holds the lock), bcast

vars == <<index, listner, scan, pc>>

Init == /\ index = 0
        /\ listner = [i \in 0 .. Count - 1 |-> None]
        /\ scan = [t \in Threads |-> [i |-> 0, ticket |-> 0]]
        /\ pc = [t \in Threads |-> "out"]

\* barrier_wait, the lock free: the next place is taken.  Ticket 1 keeps the
\* lock and opens the barrier, the others release it and sleep.
Locked == \E t \in Threads : pc[t] = "last"


Arrive(t) == /\ pc[t] = "out"
             /\ ~ Locked
             /\ listner' = [listner EXCEPT ![index] = t]
             /\ index' = index + 1
             /\ pc' = [pc EXCEPT ![t] = IF Count - index = 1 THEN "last" ELSE "sleep"]
             /\ UNCHANGED scan

\* The last arrival unlists itself, resets the index and releases the lock.
Open(t) == /\ pc[t] = "last"
           /\ index' = 0
           /\ listner' = [listner EXCEPT ![index - 1] = None]
           /\ pc' = [pc EXCEPT ![t] = "bcast"]
           /\ scan' = [scan EXCEPT ![t] = [i |-> 0, ticket |-> 0]]

Awake(u) == IF u = None THEN pc ELSE [pc EXCEPT ![u] = "out"]

\* One place of barrier_do_broadcast: wake the thread found there.
Broadcast(t) == LET s == scan[t] IN
                /\ pc[t] = "bcast"
                /\ s.i < Count /\ s.ticket < Count - 1
                /\ listner' = [listner EXCEPT ![s.i] = None]
                /\ pc' = Awake(listner[s.i])
                /\ scan' = [scan EXCEPT ![t] = [i |-> s.i + 1,
                               ticket |-> s.ticket + IF listner[s.i] = None THEN 0 ELSE 1]]
                /\ UNCHANGED index

\* The serial thread returns.
Return(t) == /\ pc[t] = "bcast"
             /\ ~ (scan[t].i < Count /\ scan[t].ticket < Count - 1)
             /\ pc' = [pc EXCEPT ![t] = "out"]
             /\ UNCHANGED <<index, listner, scan>>

Step(t) == Arrive(t) \/ Open(t) \/ Broadcast(t) \/ Return(t)

Next == \E t \in Threads : Step(t)

\* The serial thread runs; arriving is up to the program.
Spec == Init /\ [][Next]_vars /\ \A t \in Threads : WF_vars(Open(t) \/ Broadcast(t) \/ Return(t))

-----------------------------------------------------------------------------
TypeOK == /\ index \in 0 .. Count
          /\ listner \in [0 .. Count - 1 -> Threads \cup {None}]
          /\ scan \in [Threads -> [i : 0 .. Count, ticket : 0 .. Count - 1]]
          /\ pc \in [Threads -> {"out", "sleep", "last", "bcast"}]

Casting == {t \in Threads : pc[t] = "bcast"}

\* Places a broadcast has still to visit.
Ahead(i) == \E t \in Casting : scan[t].i <= i


\* In the abstract barrier, the threads asleep ahead of the broadcast are
\* released and the others asleep have arrived.
Released(t) == \/ pc[t] = "bcast"
               \/ pc[t] = "sleep" /\ \E i \in DOMAIN listner : listner[i] = t /\ i >= index /\ Ahead(i)

Abs == INSTANCE BarrierSpec WITH arrived  <- {t \in Threads : pc[t] \in {"sleep", "last"} /\ ~ Released(t)},
                                 released <- {t \in Threads : Released(t)}

=============================================================================
