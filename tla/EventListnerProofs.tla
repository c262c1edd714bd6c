------------------------- MODULE EventListnerProofs --------------------------
(***************************************************************************)
(* Proofs about EventListner, for every set of events, number of           *)
(* priorities and number of overlapping passes.                            *)
(***************************************************************************)
EXTENDS EventListner, TLAPS

\* A pass never stands before the priority it started from; an announced
\* priority is a real one.  The last conjunct is why el->prio++ at the head of
\* the loop never runs past the last priority while something is pending: it
\* needs the interrupts disabled between two turns of the loop.
StartBelow == /\ pending => prio < PrioNr
              /\ \A t \in Threads :
                    pc[t] # "off" => /\ start[t] < PrioNr /\ start[t] <= cur[t]
                                     /\ pc[t] = "loop" => start[t] < cur[t] \/ start[t] < prio

IInv == TypeOK /\ StartBelow /\ NoneStranded

\* event_listner_init establishes the invariant.
LEMMA InitIInv == Init => IInv
<1>. SUFFICES ASSUME Init PROVE IInv
  OBVIOUS
<1>1. TypeOK
  <2>1. queue \in [Prios -> Seq(Events)] /\ prio \in 0 .. PrioNr
    BY EventAssumption DEF Init
  <2>2. start \in [Threads -> 0 .. PrioNr] /\ cur \in [Threads -> 0 .. PrioNr]
    BY EventAssumption DEF Init
  <2>3. pc \in [Threads -> {"off", "loop", "drain", "handler"}]
    BY DEF Init
  <2>. QED  BY <2>1, <2>2, <2>3 DEF Init, TypeOK
<1>2. pending = FALSE /\ \A t \in Threads : pc[t] = "off"
  BY DEF Init
<1>3. NoneStranded
  BY DEF Init, NoneStranded
<1>. QED  BY <1>1, <1>2, <1>3 DEF IInv, StartBelow

\* An event that is sent is announced, and what was announced or covered
\* before still is.
LEMMA SendIInv == ASSUME IInv, NEW e \in Events, Send(e) PROVE IInv'
<1> USE EventAssumption DEF IInv, Send
<1>1. PrioOf[e] \in Prios
  BY DEF Prios
<1>2. TypeOK'
  BY <1>1 DEF TypeOK, Prios
<1>3. StartBelow'
  BY <1>1 DEF TypeOK, StartBelow, Prios
<1>4. NoneStranded'
  <2>. SUFFICES ASSUME NEW p \in Prios, queue'[p] # <<>>
                PROVE  (pending /\ prio <= p)' \/ \E t \in Threads : Covers(t, p)'
    BY DEF NoneStranded
  <2>1. CASE p = PrioOf[e]
    BY <2>1 DEF TypeOK, Prios
  <2>2. CASE p # PrioOf[e]
    <3>1. queue[p] # <<>>
      BY <1>1, <2>2 DEF TypeOK
    <3>2. CASE pending /\ prio <= p
      BY <1>1, <3>2 DEF TypeOK, Prios
    <3>3. CASE \E t \in Threads : Covers(t, p)
      BY <3>3 DEF Covers
    <3>. QED  BY <3>1, <3>2, <3>3 DEF NoneStranded
  <2>. QED  BY <2>1, <2>2
<1>. QED  BY <1>2, <1>3, <1>4

\* A pass that begins takes over the whole announcement.
LEMMA NotifyIInv == ASSUME IInv, NEW t \in Threads, Notify(t) PROVE IInv'
<1> USE EventAssumption DEF IInv, Notify
<1>1. TypeOK'
  <2>1. prio \in 0 .. PrioNr /\ prio + 1 \in 0 .. PrioNr
    BY DEF TypeOK, StartBelow
  <2>2. start' \in [Threads -> 0 .. PrioNr] /\ cur' \in [Threads -> 0 .. PrioNr]
    BY <2>1 DEF TypeOK
  <2>. QED  BY <2>1, <2>2 DEF TypeOK
<1>2. StartBelow'
  BY DEF TypeOK, StartBelow
<1>3. NoneStranded'
  <2>. SUFFICES ASSUME NEW p \in Prios, queue[p] # <<>>
                PROVE  \E u \in Threads : Covers(u, p)'
    BY DEF NoneStranded
  <2>1. CASE pending /\ prio <= p
    BY <2>1 DEF Covers, TypeOK
  <2>2. CASE \E u \in Threads : Covers(u, p)
    <3>1. PICK u \in Threads : Covers(u, p)
      BY <2>2
    <3>2. u # t
      BY <3>1 DEF Covers
    <3>3. Covers(u, p)'
      BY <3>1, <3>2 DEF Covers, TypeOK
    <3>. QED  BY <3>3
  <2>. QED  BY <2>1, <2>2 DEF NoneStranded
<1>. QED  BY <1>1, <1>2, <1>3

\* The head of the loop moves a pass back only, and takes over the announced
\* priority before it withdraws it.
LEMMA ScanIInv == ASSUME IInv, NEW t \in Threads, Scan(t) PROVE IInv'
<1> USE EventAssumption DEF IInv
<1>0. /\ prio \in Int /\ start[t] \in Int /\ cur[t] \in Int
      /\ 0 <= prio /\ start[t] < PrioNr /\ start[t] <= cur[t]
      /\ start[t] < cur[t] \/ start[t] < prio
  BY DEF Scan, TypeOK, StartBelow
<1>a. \/ /\ prio <= start[t]
         /\ start' = [start EXCEPT ![t] = prio]
         /\ cur' = [cur EXCEPT ![t] = prio]
         /\ prio' = prio + 1
      \/ UNCHANGED <<start, cur, prio>>
  BY DEF Scan
<1>b. /\ start' \in [Threads -> 0 .. PrioNr] /\ cur' \in [Threads -> 0 .. PrioNr]
      /\ prio' \in 0 .. PrioNr /\ start'[t] < PrioNr /\ cur'[t] < PrioNr
  <2>1. CASE UNCHANGED <<start, cur, prio>>
    BY <1>0, <2>1 DEF Scan, TypeOK
  <2>2. CASE prio <= start[t] /\ start' = [start EXCEPT ![t] = prio]
             /\ cur' = [cur EXCEPT ![t] = prio] /\ prio' = prio + 1
    <3>1. prio \in 0 .. PrioNr /\ prio + 1 \in 0 .. PrioNr /\ prio < PrioNr
      BY <1>0, <2>2
    <3>. QED  BY <2>2, <3>1 DEF TypeOK
  <2>. QED  BY <1>a, <2>1, <2>2
<1>1. TypeOK'
  BY <1>b DEF Scan, TypeOK
<1>2. StartBelow'
  <2>1. pending' => prio' < PrioNr
    BY <1>0, <1>a DEF Scan, TypeOK, StartBelow
  <2>2. start'[t] <= cur'[t] /\ pc'[t] = "drain"
    BY <1>0, <1>a DEF Scan, TypeOK
  <2>3. ASSUME NEW u \in Threads, u # t
        PROVE  pc'[u] = pc[u] /\ start'[u] = start[u] /\ cur'[u] = cur[u] /\ pc[u] # "loop"
    BY <1>a, <2>3 DEF Scan, TypeOK
  <2>. QED  BY <1>b, <2>1, <2>2, <2>3 DEF StartBelow
<1>3. NoneStranded'
  <2>. SUFFICES ASSUME NEW p \in Prios, queue[p] # <<>>
                PROVE  (pending /\ prio <= p)' \/ \E u \in Threads : Covers(u, p)'
    BY DEF NoneStranded, Scan
  <2>0. p \in Int
    BY DEF Prios
  <2>1. CASE pending /\ prio <= p
    BY <2>0, <2>1 DEF Covers, TypeOK, Scan
  <2>2. CASE \E u \in Threads : Covers(u, p)
    <3>1. PICK u \in Threads : Covers(u, p)
      BY <2>2
    <3>2. cur'[u] <= cur[u] /\ cur[u] \in Int /\ cur'[u] \in Int
      <4>1. CASE u = t
        BY <1>0, <1>a, <4>1 DEF TypeOK
      <4>2. CASE u # t
        BY <1>a, <4>2 DEF TypeOK
      <4>. QED  BY <4>1, <4>2
    <3>3. pc'[u] # "off"
      BY <3>1 DEF Covers, TypeOK, Scan
    <3>4. Covers(u, p)'
      BY <2>0, <3>1, <3>2, <3>3 DEF Covers
    <3>. QED  BY <3>4
  <2>. QED  BY <2>1, <2>2 DEF NoneStranded
<1>. QED  BY <1>1, <1>2, <1>3

\* Within a pass, only an empty queue is left behind.
LEMMA PassIInv == ASSUME IInv, NEW t \in Threads,
                         Deliver(t) \/ Handled(t) \/ Advance(t) \/ Return(t)
                  PROVE  IInv'
<1> USE EventAssumption DEF IInv
<1>1. CASE Deliver(t)
  <2>1. cur[t] \in Prios
    BY <1>1 DEF Deliver, TypeOK, Prios
  <2>2. TypeOK'
    BY <1>1, <2>1 DEF Deliver, TypeOK
  <2>3. StartBelow'
    BY <1>1 DEF Deliver, TypeOK, StartBelow
  <2>4. ASSUME NEW p \in Prios, queue'[p] # <<>> PROVE queue[p] # <<>>
    BY <1>1, <2>1, <2>4 DEF Deliver, TypeOK
  <2>5. \A p \in Prios, u \in Threads : Covers(u, p) => Covers(u, p)'
    BY <1>1 DEF Deliver, Covers, TypeOK
  <2>6. NoneStranded'
    BY <1>1, <2>4, <2>5 DEF Deliver, NoneStranded
  <2>. QED  BY <2>2, <2>3, <2>6
<1>2. CASE Handled(t)
  BY <1>2 DEF Handled, TypeOK, StartBelow, NoneStranded, Covers
<1>3. CASE Advance(t)
  <2>1. cur[t] \in Prios /\ cur[t] \in Int
    BY <1>3 DEF Advance, TypeOK, Prios
  <2>2. TypeOK'
    <3>1. cur[t] + 1 \in 0 .. PrioNr
      BY <2>1 DEF Prios
    <3>2. cur' \in [Threads -> 0 .. PrioNr]
      BY <1>3, <3>1 DEF Advance, TypeOK
    <3>. QED  BY <1>3, <3>2 DEF Advance, TypeOK
  <2>3. StartBelow'
    BY <1>3 DEF Advance, TypeOK, StartBelow
  <2>4. ASSUME NEW p \in Prios, queue[p] # <<>>, NEW u \in Threads, Covers(u, p)
        PROVE  Covers(u, p)'
    BY <1>3, <2>1, <2>4 DEF Advance, Covers, TypeOK, Prios
  <2>5. NoneStranded'
    BY <1>3, <2>4 DEF Advance, NoneStranded
  <2>. QED  BY <2>2, <2>3, <2>5
<1>4. CASE Return(t)
  <2>1. TypeOK' /\ StartBelow'
    BY <1>4 DEF Return, TypeOK, StartBelow
  <2>2. ASSUME NEW p \in Prios, NEW u \in Threads, Covers(u, p) PROVE Covers(u, p)'
    BY <1>4, <2>2 DEF Return, Covers, TypeOK, Prios
  <2>3. NoneStranded'
    BY <1>4, <2>2 DEF Return, NoneStranded
  <2>. QED  BY <2>1, <2>3
<1>. QED  BY <1>1, <1>2, <1>3, <1>4

\* Every step of the listener preserves the invariant.
LEMMA NextIInv == IInv /\ [Next]_vars => IInv'
<1>. SUFFICES ASSUME IInv, [Next]_vars PROVE IInv'
  OBVIOUS
<1>1. CASE UNCHANGED vars
  BY <1>1 DEF vars, IInv, TypeOK, StartBelow, NoneStranded, Covers
<1>2. ASSUME NEW e \in Events, Send(e) PROVE IInv'
  BY <1>2, SendIInv
<1>3. ASSUME NEW t \in Threads, Notify(t) \/ Pass(t) PROVE IInv'
  BY <1>3, NotifyIInv, ScanIInv, PassIInv DEF Pass
<1>. QED  BY <1>1, <1>2, <1>3 DEF Next

\* The inductive invariant holds in every reachable state.
THEOREM Invariant == Spec => []IInv
  BY InitIInv, NextIInv, PTL DEF Spec

\* local_event_listner_notify never indexes its table outside the priorities.
THEOREM TypeCorrect == Spec => []TypeOK
  BY Invariant, PTL DEF IInv

\* However many passes overlap, local_event_send and
\* local_event_listner_notify strand no event.
THEOREM NoEventStranded == Spec => []NoneStranded
  BY Invariant, PTL DEF IInv

\* The restart of the scan serves the urgent events first.
THEOREM UrgencyTheorem == Spec => UrgentFirst
<1> DEFINE A == \A t \in Threads :
                  pc[t] = "loop" /\ pc'[t] = "drain" =>
                      \A p \in Prios : p <= start'[t] /\ p < cur'[t] /\ queue[p] # <<>> =>
                          \E u \in Threads \ {t} : Covers(u, p)
<1>1. ASSUME IInv, Next PROVE A
  <2>. SUFFICES ASSUME NEW t \in Threads, pc[t] = "loop", pc'[t] = "drain",
                       NEW p \in Prios, p <= start'[t], p < cur'[t], queue[p] # <<>>
                PROVE  \E u \in Threads \ {t} : Covers(u, p)
    OBVIOUS
  <2>1. Scan(t)
    BY <1>1 DEF Next, Send, Notify, Pass, Scan, Deliver, Handled, Advance, Return, IInv, TypeOK
  <2>2. p \in Int /\ prio \in Int /\ start[t] \in Int /\ cur[t] \in Int /\ start[t] <= cur[t]
    BY <1>1 DEF IInv, TypeOK, StartBelow, Prios
  <2>3. ~ (pending /\ prio <= p)
    BY <1>1, <2>1, <2>2 DEF Scan, IInv, TypeOK
  <2>4. ~ Covers(t, p)
    BY <1>1, <2>1, <2>2 DEF Scan, IInv, TypeOK, Covers
  <2>. QED  BY <1>1, <2>3, <2>4 DEF IInv, NoneStranded
<1>2. IInv /\ [Next]_vars => [A]_vars
  BY <1>1
<1>3. Spec => [][A]_vars
  BY <1>2, Invariant, PTL DEF Spec
<1>. QED  BY <1>3 DEF UrgentFirst
=============================================================================
