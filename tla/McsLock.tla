------------------------------- MODULE McsLock -------------------------------
(***************************************************************************)
(* The ticket lock of kern/mcs_sync.c (mcs_lock, mcs_unlock and their      *)
(* remote twins, which run the same algorithm on another cluster's copy    *)
(* through remote_atomic_add, remote_lw and remote_sw).                    *)
(*                                                                         *)
(* A thread draws a ticket with an atomic add, spins with its interrupts   *)
(* masked until the counter shows its number, and releases the lock by     *)
(* storing the counter plus one.  Both words are unsigned and wrap: W      *)
(* stands for 2^32.  The wrap is harmless only while fewer than W threads  *)
(* can be queued, which is the assumption on the constants.                *)
(*                                                                         *)
(* Cache maintenance (cpu_wbflush, cpu_invalid_dcache_line) is left out:   *)
(* memory is sequentially consistent here.                                 *)
(***************************************************************************)
EXTENDS Integers, FiniteSets

CONSTANTS Lockers,   \* the threads that share the lock
          W          \* number of values of a machine word

ASSUME McsAssumption == /\ IsFiniteSet(Lockers)
                        /\ W \in Nat \ {0}
                        /\ Cardinality(Lockers) < W

VARIABLES cntr,      \* ptr->cntr.value: the ticket being served
          ticket,    \* ptr->ticket.value: the next ticket to hand out
          drawn,        \* drawn[t]: the local "ticket" (then "next") of thread t
          mpc,        \* where thread t is
          locks,     \* locks[t]: t->locks_count (distlocks_count if remote)
          irq        \* irq[t]: interrupts are enabled on the CPU of t

mcsVars == <<cntr, ticket, drawn, mpc, locks, irq>>

Word == 0 .. W - 1

\* A slip: no wrap-around.
IncNoWrap(x) == x + 1

\* x + 1 on a machine word.
Inc(x) == IF x = W - 1 THEN 0 ELSE x + 1

\* mcs_lock_init
McsInit == /\ cntr = 0
           /\ ticket = 0
           /\ drawn = [t \in Lockers |-> 0]
           /\ mpc = [t \in Lockers |-> "idle"]
           /\ locks = [t \in Lockers |-> 0]
           /\ irq = [t \in Lockers |-> TRUE]

\* mcs_lock up to the atomic add: interrupts are masked first.
DrawTicket(t) == /\ mpc[t] = "idle"
                 /\ irq' = [irq EXCEPT ![t] = FALSE]
                 /\ drawn' = [drawn EXCEPT ![t] = ticket]
                 /\ ticket' = Inc(ticket)
                 /\ mpc' = [mpc EXCEPT ![t] = "spin"]
                 /\ UNCHANGED <<cntr, locks>>

\* A slip: the loop leaves as soon as the counter has reached the ticket.
EnterReached(t) == /\ mpc[t] = "spin"
                   /\ drawn[t] <= cntr
                   /\ locks' = [locks EXCEPT ![t] = @ + 1]
                   /\ mpc' = [mpc EXCEPT ![t] = "held"]
                   /\ UNCHANGED <<cntr, ticket, drawn, irq>>

\* A slip: a test-and-set lock, which any spinning thread may win.
EnterBarging(t) == /\ mpc[t] = "spin"
                   /\ \A s \in Lockers : mpc[s] \notin {"held", "store"}
                   /\ locks' = [locks EXCEPT ![t] = @ + 1]
                   /\ mpc' = [mpc EXCEPT ![t] = "held"]
                   /\ UNCHANGED <<cntr, ticket, drawn, irq>>

\* The spin loop sees its own number and the thread counts the lock.
McsEnter(t) == /\ mpc[t] = "spin"
               /\ drawn[t] = cntr
               /\ locks' = [locks EXCEPT ![t] = @ + 1]
               /\ mpc' = [mpc EXCEPT ![t] = "held"]
               /\ UNCHANGED <<cntr, ticket, drawn, irq>>

\* mcs_unlock first loads the counter ...
ReadNext(t) == /\ mpc[t] = "held"
               /\ drawn' = [drawn EXCEPT ![t] = Inc(cntr)]
               /\ mpc' = [mpc EXCEPT ![t] = "store"]
               /\ UNCHANGED <<cntr, ticket, locks, irq>>

\* ... and stores it back plus one ...
StoreNext(t) == /\ mpc[t] = "store"
                /\ cntr' = drawn[t]
                /\ mpc' = [mpc EXCEPT ![t] = "leave"]
                /\ UNCHANGED <<ticket, drawn, locks, irq>>

\* ... and then drops its lock count (asserting it is positive) and restores
\* the interrupts.
Leave(t) == /\ mpc[t] = "leave"
            /\ locks' = [locks EXCEPT ![t] = @ - 1]
            /\ irq' = [irq EXCEPT ![t] = TRUE]
            /\ mpc' = [mpc EXCEPT ![t] = "idle"]
            /\ UNCHANGED <<cntr, ticket, drawn>>

McsStep(t) == DrawTicket(t) \/ McsEnter(t) \/ ReadNext(t) \/ StoreNext(t) \/ Leave(t)

McsNext == \E t \in Lockers : McsStep(t)

\* A thread that has drawn a ticket runs with its interrupts masked: nothing
\* can take the CPU away from it until it has left.
McsFairness == \A t \in Lockers : WF_mcsVars(McsEnter(t) \/ ReadNext(t) \/ StoreNext(t) \/ Leave(t))

McsSpec == McsInit /\ [][McsNext]_mcsVars /\ McsFairness

-----------------------------------------------------------------------------
\* The threads in the critical section: from the spin loop's exit to the
\* store that passes the lock on.
McsHolding == {t \in Lockers : mpc[t] \in {"held", "store"}}

\* The threads in line, the holder included.
InLine == {t \in Lockers : mpc[t] \in {"spin", "held", "store"}}

\* The ticket a thread in line is entitled by.  Once the holder has computed
\* its successor's number, its own is the one on display.
Number(t) == IF mpc[t] = "store" THEN cntr ELSE drawn[t]

\* How far in the ring a ticket is behind the one being served.
Ahead(n) == IF n >= cntr THEN n - cntr ELSE n - cntr + W

McsTypeOK == /\ cntr \in Word
             /\ ticket \in Word
             /\ drawn \in [Lockers -> Word]
             /\ mpc \in [Lockers -> {"idle", "spin", "held", "store", "leave"}]
             /\ locks \in [Lockers -> {0, 1}]
             /\ irq \in [Lockers -> BOOLEAN]

(***************************************************************************)
(* mcs_lock excludes: two threads are never both between the end of the    *)
(* spin loop and the store of mcs_unlock, whatever wrapped meanwhile.      *)
(***************************************************************************)
MutualExclusion == \A s, t \in McsHolding : s = t

(***************************************************************************)
(* The tickets of the threads in line are distinct and are exactly the     *)
(* numbers from cntr up to (not including) ticket, around the wrap.        *)
(***************************************************************************)
TicketsInLine ==
    /\ \A s, t \in InLine : Number(s) = Number(t) => s = t
    /\ {Ahead(Number(t)) : t \in InLine} = 0 .. Ahead(ticket) - 1

(***************************************************************************)
(* From the exit of the spin loop until after the store the thread cannot  *)
(* be preempted: its lock count is positive (the assertion of mcs_unlock)  *)
(* and its interrupts are masked.                                          *)
(***************************************************************************)
HolderNotPreemptable ==
    \A t \in Lockers : /\ mpc[t] \in {"held", "store", "leave"} <=> locks[t] > 0
                       /\ mpc[t] # "idle" => ~irq[t]

(***************************************************************************)
(* First come, first served: a thread already in line enters before any    *)
(* thread that draws its ticket later.  In a step that lets t in, nobody   *)
(* else in line has a ticket ahead of t's.                                 *)
(***************************************************************************)
Fifo == [][\A t \in Lockers :
             (mpc[t] = "spin" /\ mpc'[t] = "held") =>
                 \A s \in InLine \ {t} : Ahead(Number(s)) > Ahead(Number(t))]_mcsVars

\* Nobody spins for ever.
Served == \A t \in Lockers : mpc[t] = "spin" ~> mpc[t] = "held"
=============================================================================
