---------------------------- MODULE EventListner -----------------------------
(***************************************************************************)
(* The local event listener of a CPU (kern/event.c): one queue of events   *)
(* per priority, 0 the most urgent, filled by interrupt handlers and       *)
(* kernel code, and drained by notification passes.  A pass runs in the    *)
(* event manager or at the end of a system call.  It scans the priorities  *)
(* with interrupts disabled but enables them around each handler; there    *)
(* events arrive, and the thread may be preempted, so that passes overlap. *)
(***************************************************************************)
EXTENDS Integers, Sequences

CONSTANTS Events,    \* the events, each sent once
          PrioNr,    \* E_PRIO_NR
          PrioOf,    \* event_get_priority
          Threads,   \* the threads that may run a pass
          Manager,   \* the one that runs thread_event_manager
          None

ASSUME EventAssumption == /\ PrioNr \in Nat
                          /\ PrioOf \in [Events -> 0 .. PrioNr - 1]
                          /\ Manager \in Threads
                          /\ None \notin Threads \cup Events

VARIABLES queue,     \* el->tbl[p].root
          pending,   \* EVENT_PENDING of el->flags
          prio,      \* el->prio
          irqOff,    \* the thread that runs with interrupts disabled
          pc,        \* where a pass stands: off, loop, drain or handler
          start,     \* its start_prio
          cur,       \* its current_prio
          handling,  \* the event whose handler it runs
          sent       \* the events sent so far

vars == <<queue, pending, prio, irqOff, pc, start, cur, handling, sent>>

Prios == 0 .. PrioNr - 1

\* event_listner_init
Init == /\ queue = [p \in Prios |-> <<>>]
        /\ pending = FALSE
        /\ prio = 0
        /\ irqOff = None
        /\ pc = [t \in Threads |-> "off"]
        /\ start = [t \in Threads |-> 0]
        /\ cur = [t \in Threads |-> 0]
        /\ handling = [t \in Threads |-> None]
        /\ sent = {}

\* A slip: the priority of the listener lowered but never raised.
SendKeepPrio(e) == /\ irqOff = None
                   /\ e \notin sent
                   /\ sent' = sent \cup {e}
                   /\ queue' = [queue EXCEPT ![PrioOf[e]] = Append(@, e)]
                   /\ prio' = IF pending THEN prio ELSE PrioOf[e]
                   /\ pending' = TRUE
                   /\ UNCHANGED <<irqOff, pc, start, cur, handling>>

\* event_send and local_event_send, with interrupts disabled for its duration.
Send(e) == /\ irqOff = None
           /\ e \notin sent
           /\ sent' = sent \cup {e}
           /\ queue' = [queue EXCEPT ![PrioOf[e]] = Append(@, e)]
           /\ prio' = IF ~ pending \/ prio > PrioOf[e] THEN PrioOf[e] ELSE prio
           /\ pending' = TRUE
           /\ UNCHANGED <<irqOff, pc, start, cur, handling>>

\* A slip: the pass begins with interrupts enabled.
NotifyIrqOn(t) == /\ irqOff = None
                  /\ pc[t] = "off"
                  /\ pending
                  /\ pending' = FALSE
                  /\ start' = [start EXCEPT ![t] = prio]
                  /\ cur' = [cur EXCEPT ![t] = prio]
                  /\ prio' = prio + 1
                  /\ pc' = [pc EXCEPT ![t] = "loop"]
                  /\ UNCHANGED <<queue, irqOff, handling, sent>>

\* local_event_listner_notify, called when something is pending.
Notify(t) == /\ irqOff = None
             /\ pc[t] = "off"
             /\ pending
             /\ pending' = FALSE
             /\ start' = [start EXCEPT ![t] = prio]
             /\ cur' = [cur EXCEPT ![t] = prio]
             /\ prio' = prio + 1
             /\ irqOff' = t
             /\ pc' = [pc EXCEPT ![t] = "loop"]
             /\ UNCHANGED <<queue, handling, sent>>

\* A slip: only a strictly more urgent event restarts the scan.
ScanStrict(t) == /\ pc[t] = "loop"
                 /\ cur[t] < PrioNr
                 /\ IF prio < start[t]
                    THEN /\ start' = [start EXCEPT ![t] = prio]
                         /\ cur' = [cur EXCEPT ![t] = prio]
                         /\ prio' = prio + 1
                    ELSE UNCHANGED <<start, cur, prio>>
                 /\ pc' = [pc EXCEPT ![t] = "drain"]
                 /\ UNCHANGED <<queue, pending, irqOff, handling, sent>>

\* The head of the outer loop: start again if an event as urgent as the start
\* of the scan was sent meanwhile.
Scan(t) == /\ pc[t] = "loop"
           /\ cur[t] < PrioNr
           /\ IF prio <= start[t]
              THEN /\ start' = [start EXCEPT ![t] = prio]
                   /\ cur' = [cur EXCEPT ![t] = prio]
                   /\ prio' = prio + 1
              ELSE UNCHANGED <<start, cur, prio>>
           /\ pc' = [pc EXCEPT ![t] = "drain"]
           /\ UNCHANGED <<queue, pending, irqOff, handling, sent>>

\* Unlink the first event and run its handler, interrupts enabled.
Deliver(t) == /\ pc[t] = "drain"
              /\ queue[cur[t]] # <<>>
              /\ queue' = [queue EXCEPT ![cur[t]] = Tail(@)]
              /\ handling' = [handling EXCEPT ![t] = Head(queue[cur[t]])]
              /\ irqOff' = None
              /\ pc' = [pc EXCEPT ![t] = "handler"]
              /\ UNCHANGED <<pending, prio, start, cur, sent>>

\* The handler returns: interrupts disabled again.
Handled(t) == /\ pc[t] = "handler"
              /\ irqOff = None
              /\ irqOff' = t
              /\ handling' = [handling EXCEPT ![t] = None]
              /\ pc' = [pc EXCEPT ![t] = "drain"]
              /\ UNCHANGED <<queue, pending, prio, start, cur, sent>>

\* current_prio++ once the queue is empty.
Advance(t) == /\ pc[t] = "drain"
              /\ queue[cur[t]] = <<>>
              /\ cur' = [cur EXCEPT ![t] = @ + 1]
              /\ pc' = [pc EXCEPT ![t] = "loop"]
              /\ UNCHANGED <<queue, pending, prio, irqOff, start, handling, sent>>

\* A slip: the pass withdraws the announcement of what it has not scanned.
ReturnClear(t) == /\ pc[t] = "loop"
                  /\ cur[t] = PrioNr
                  /\ pending' = FALSE
                  /\ irqOff' = None
                  /\ pc' = [pc EXCEPT ![t] = "off"]
                  /\ UNCHANGED <<queue, prio, start, cur, handling, sent>>

\* All priorities scanned: the pass returns.
Return(t) == /\ pc[t] = "loop"
             /\ cur[t] = PrioNr
             /\ irqOff' = None
             /\ pc' = [pc EXCEPT ![t] = "off"]
             /\ UNCHANGED <<queue, pending, prio, start, cur, handling, sent>>

Pass(t) == Scan(t) \/ Deliver(t) \/ Handled(t) \/ Advance(t) \/ Return(t)

Next == \/ \E e \in Events : Send(e)
        \/ \E t \in Threads : Notify(t) \/ Pass(t)

\* A pass goes on, also after a preemption, and the event manager is woken by
\* the idle loop or at the end of an interrupt whenever something is pending.
\* Other passes overtake it only as often as events are sent.
Spec == /\ Init /\ [][Next]_vars
        /\ \A t \in Threads : SF_vars(Pass(t))
        /\ SF_vars(Notify(Manager))

-----------------------------------------------------------------------------
\* Queue indices stay below E_PRIO_NR, and at most one thread runs with
\* interrupts disabled.
TypeOK == /\ queue \in [Prios -> Seq(Events)]
          /\ pending \in BOOLEAN
          /\ prio \in 0 .. PrioNr
          /\ irqOff \in Threads \cup {None}
          /\ pc \in [Threads -> {"off", "loop", "drain", "handler"}]
          /\ start \in [Threads -> 0 .. PrioNr]
          /\ cur \in [Threads -> 0 .. PrioNr]
          /\ handling \in [Threads -> Events \cup {None}]
          /\ sent \subseteq Events
          /\ \A t \in Threads : /\ pc[t] \in {"drain", "handler"} => cur[t] < PrioNr
                                /\ pc[t] \in {"loop", "drain"} => irqOff = t

\* A pass that will still come to priority p.
Covers(t, p) == pc[t] # "off" /\ cur[t] <= p

\* No event is left behind: a queued event is announced by the flag and the
\* priority of the listener, from which the next pass starts, or a pass that
\* is under way, perhaps preempted in a handler, will still come to it.
NoneStranded == \A p \in Prios :
                    queue[p] # <<>> => \/ pending /\ prio <= p
                                       \/ \E t \in Threads : Covers(t, p)

\* Urgency: when a pass turns to a priority, an event that is at least as
\* urgent as where the pass started waits only for another pass.
UrgentFirst == [][\A t \in Threads :
                      pc[t] = "loop" /\ pc'[t] = "drain" =>
                          \A p \in Prios : p <= start'[t] /\ p < cur'[t] /\ queue[p] # <<>> =>
                              \E u \in Threads \ {t} : Covers(u, p)]_vars

Queued(e) == \E i \in 1 .. Len(queue[PrioOf[e]]) : queue[PrioOf[e]][i] = e

\* Every queued event is delivered: its handler runs.
EveryEventDelivered == \A e \in Events :
                           Queued(e) ~> \E t \in Threads : handling[t] = e
=============================================================================
