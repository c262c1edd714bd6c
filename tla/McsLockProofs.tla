---------------------------- MODULE McsLockProofs ----------------------------
(***************************************************************************)
(* Proofs about the ticket lock of McsLock, for every finite set of        *)
(* threads and every word size larger than it.                             *)
(***************************************************************************)
EXTENDS McsLock, FiniteSetTheorems, TLAPS

\* The holder's number is the one on display, and the number it is about to
\* store is the successor of that.
HolderServed == \A t \in Lockers : /\ mpc[t] = "held" => drawn[t] = cntr
                                   /\ mpc[t] = "store" => drawn[t] = Inc(cntr)

\* TicketsInLine in the three parts that the steps disturb separately.
Distinct == \A s, t \in InLine : Number(s) = Number(t) => s = t
Below == \A t \in InLine : Ahead(Number(t)) < Ahead(ticket)
NoGap == \A k \in 0 .. Ahead(ticket) - 1 : \E t \in InLine : Ahead(Number(t)) = k

IInv == McsTypeOK /\ HolderServed /\ Distinct /\ Below /\ NoGap /\ HolderNotPreemptable

-----------------------------------------------------------------------------
\* Ahead counts from 0 to W - 1 around the ring, and tells numbers apart.
LEMMA AheadType == ASSUME McsTypeOK, NEW n \in Word
                   PROVE  Ahead(n) \in Word
BY McsAssumption DEF Ahead, Word, McsTypeOK

LEMMA AheadInjective == ASSUME McsTypeOK, NEW m \in Word, NEW n \in Word, Ahead(m) = Ahead(n)
                        PROVE  m = n
BY McsAssumption DEF Ahead, Word, McsTypeOK

LEMMA NumberType == ASSUME McsTypeOK, NEW t \in Lockers
                    PROVE  Number(t) \in Word
BY DEF Number, McsTypeOK

(***************************************************************************)
(* The pigeonhole of the wrap: while one thread is out of line, the line   *)
(* has room for one more ticket.                                           *)
(***************************************************************************)
LEMMA RoomForOne == ASSUME McsTypeOK, NoGap, NEW t \in Lockers, t \notin InLine
                    PROVE  Ahead(ticket) < W - 1
<1> DEFINE K == 0 .. Ahead(ticket) - 1
           Others == Lockers \ {t}
           who == [k \in K |-> CHOOSE s \in InLine : Ahead(Number(s)) = k]
<1>1. Ahead(ticket) \in Nat
  BY AheadType DEF McsTypeOK, Word
<1>2. \A k \in K : who[k] \in InLine /\ Ahead(Number(who[k])) = k
  BY DEF NoGap
<1>3. InLine \subseteq Others
  BY DEF InLine
<1>4. who \in Injection(K, Others)
  <2>1. who \in [K -> Others]
    BY <1>2, <1>3
  <2>2. \A j, k \in K : who[j] = who[k] => j = k
    BY <1>2
  <2> HIDE DEF who, K, Others
  <2> QED BY <2>1, <2>2 DEF Injection, IsInjective
<1>5. /\ IsFiniteSet(Others)
      /\ Cardinality(Others) = Cardinality(Lockers) - 1
  BY McsAssumption, FS_RemoveElement
<1>6. Cardinality(K) <= Cardinality(Others)
  <2> HIDE DEF who, K, Others
  <2> QED BY <1>4, <1>5, FS_Injection
<1>7. Cardinality(K) = Ahead(ticket)
  BY <1>1, FS_Interval
<1>8. Cardinality(Lockers) \in Nat
  BY McsAssumption, FS_CardinalityType
<1> QED BY <1>1, <1>5, <1>6, <1>7, <1>8, McsAssumption

-----------------------------------------------------------------------------
LEMMA InitIInv == McsInit => IInv
<1> SUFFICES ASSUME McsInit PROVE IInv
  OBVIOUS
<1>1. McsTypeOK
  BY McsAssumption DEF McsInit, McsTypeOK, Word
<1>2. InLine = {}
  BY DEF McsInit, InLine
<1>3. Ahead(ticket) = 0
  BY DEF McsInit, Ahead
<1>4. HolderServed /\ HolderNotPreemptable
  BY DEF McsInit, HolderServed, HolderNotPreemptable
<1>5. Distinct /\ Below
  BY <1>2 DEF Distinct, Below
<1>6. NoGap
  BY <1>3 DEF NoGap
<1> QED BY <1>1, <1>4, <1>5, <1>6 DEF IInv

\* A new ticket goes to the end of the line.
LEMMA DrawTicketIInv == ASSUME IInv, NEW t \in Lockers, DrawTicket(t)
                        PROVE  IInv'
<1> USE DEF IInv
<1>1. t \notin InLine
  BY DEF DrawTicket, InLine
<1>2. Ahead(ticket) < W - 1
  BY <1>1, RoomForOne
<1>3. McsTypeOK'
  BY McsAssumption DEF McsTypeOK, DrawTicket, Inc, Word
<1>4. InLine' = InLine \cup {t}
  BY DEF InLine, DrawTicket, McsTypeOK
<1>5. \A n \in Word : Ahead(n)' = Ahead(n)
  BY DEF Ahead, DrawTicket
<1>6. \A s \in InLine : Number(s)' = Number(s)
  BY <1>1 DEF Number, DrawTicket, McsTypeOK, InLine
<1>7. Number(t)' = ticket
  BY DEF Number, DrawTicket, McsTypeOK
<1>8. ticket \in Word /\ Ahead(ticket)' = Ahead(ticket) + 1
  BY <1>2, McsAssumption DEF McsTypeOK, DrawTicket, Inc, Ahead, Word
<1>9. ASSUME NEW s \in InLine PROVE Number(s) \in Word /\ Number(s) # ticket
  <2>1. Number(s) \in Word
    BY NumberType DEF InLine
  <2>2. Ahead(Number(s)) < Ahead(ticket)
    BY DEF Below
  <2>3. Ahead(ticket) \in Word
    BY AheadType DEF McsTypeOK
  <2> QED BY <2>1, <2>2, <2>3 DEF Word
<1>10. Distinct'
  BY <1>4, <1>6, <1>7, <1>9 DEF Distinct
<1>11. Ahead(ticket) \in Word
  BY AheadType DEF McsTypeOK
<1>12. \A s \in InLine' : Ahead(Number(s))' < Ahead(ticket)'
  <2>1. ASSUME NEW s \in InLine PROVE Ahead(Number(s))' = Ahead(Number(s))
    BY <1>6, <1>9 DEF Ahead, DrawTicket
  <2>2. ASSUME NEW s \in InLine PROVE Ahead(Number(s))' < Ahead(ticket)'
    <3>1. Ahead(Number(s)) < Ahead(ticket)
      BY DEF Below
    <3>2. Ahead(Number(s)) \in Word
      BY <1>9, AheadType
    <3> QED BY <2>1, <3>1, <3>2, <1>8, <1>11 DEF Word
  <2>3. Ahead(Number(t))' = Ahead(ticket)
    BY <1>7 DEF Ahead, DrawTicket
  <2> QED BY <1>4, <1>8, <1>11, <2>2, <2>3 DEF Word
<1>13. NoGap'
  <2> SUFFICES ASSUME NEW k \in (0 .. Ahead(ticket) - 1)'
               PROVE  \E s \in InLine' : Ahead(Number(s))' = k
    BY DEF NoGap
  <2>1. k \in 0 .. Ahead(ticket)
    BY <1>8, <1>11 DEF Word
  <2>2. CASE k = Ahead(ticket)
    <3>1. Ahead(Number(t))' = Ahead(ticket)
      BY <1>7 DEF Ahead, DrawTicket
    <3> QED BY <2>2, <3>1, <1>4
  <2>3. CASE k # Ahead(ticket)
    <3>1. PICK s \in InLine : Ahead(Number(s)) = k
      BY <2>1, <2>3, <1>11 DEF NoGap, Word
    <3>2. Ahead(Number(s))' = Ahead(Number(s))
      BY <1>6 DEF Ahead, DrawTicket
    <3> QED BY <3>1, <3>2, <1>4
  <2> QED BY <2>2, <2>3
<1>14. HolderServed'
  BY DEF HolderServed, DrawTicket, McsTypeOK, Inc
<1>15. HolderNotPreemptable'
  BY DEF HolderNotPreemptable, DrawTicket, McsTypeOK
<1> QED BY <1>3, <1>10, <1>12, <1>13, <1>14, <1>15 DEF Below

\* Steps that leave the line and the counters as they are.
LEMMA SameLine == ASSUME IInv, InLine' = InLine, cntr' = cntr, ticket' = ticket,
                         \A s \in InLine : Number(s)' = Number(s)
                  PROVE  (Distinct /\ Below /\ NoGap)'
<1>1. \A s \in InLine : Ahead(Number(s))' = Ahead(Number(s))
  BY DEF Ahead
<1>2. Ahead(ticket)' = Ahead(ticket)
  BY DEF Ahead
<1>3. Distinct'
  BY DEF IInv, Distinct
<1>4. Below'
  BY <1>1, <1>2 DEF IInv, Below
<1>5. NoGap'
  BY <1>1, <1>2 DEF IInv, NoGap
<1> QED BY <1>3, <1>4, <1>5

LEMMA EnterIInv == ASSUME IInv, NEW t \in Lockers, McsEnter(t)
                   PROVE  IInv'
<1>1. McsTypeOK'
  <2>1. locks[t] = 0
    BY DEF IInv, McsTypeOK, HolderNotPreemptable, McsEnter
  <2> QED BY <2>1 DEF IInv, McsTypeOK, McsEnter
<1>2. InLine' = InLine /\ \A s \in InLine : Number(s)' = Number(s)
  BY DEF IInv, McsTypeOK, McsEnter, InLine, Number
<1>3. (Distinct /\ Below /\ NoGap)'
  BY <1>2, SameLine DEF McsEnter
<1>4. HolderServed'
  BY DEF IInv, McsTypeOK, HolderServed, McsEnter, Inc
<1>5. HolderNotPreemptable'
  BY DEF IInv, McsTypeOK, HolderNotPreemptable, McsEnter
<1> QED BY <1>1, <1>3, <1>4, <1>5 DEF IInv

LEMMA ReadNextIInv == ASSUME IInv, NEW t \in Lockers, ReadNext(t)
                      PROVE  IInv'
<1>1. McsTypeOK'
  BY McsAssumption DEF IInv, McsTypeOK, ReadNext, Inc, Word
<1>2. InLine' = InLine /\ \A s \in InLine : Number(s)' = Number(s)
  BY DEF IInv, McsTypeOK, ReadNext, InLine, Number, HolderServed
<1>3. (Distinct /\ Below /\ NoGap)'
  BY <1>2, SameLine DEF ReadNext
<1>4. HolderServed'
  BY DEF IInv, McsTypeOK, HolderServed, ReadNext, Inc
<1>5. HolderNotPreemptable'
  BY DEF IInv, McsTypeOK, HolderNotPreemptable, ReadNext
<1> QED BY <1>1, <1>3, <1>4, <1>5 DEF IInv

LEMMA LeaveIInv == ASSUME IInv, NEW t \in Lockers, Leave(t)
                   PROVE  IInv'
<1>1. McsTypeOK'
  <2>1. locks[t] = 1
    BY DEF IInv, McsTypeOK, HolderNotPreemptable, Leave
  <2> QED BY <2>1 DEF IInv, McsTypeOK, Leave
<1>2. InLine' = InLine /\ \A s \in InLine : Number(s)' = Number(s)
  BY DEF IInv, McsTypeOK, Leave, InLine, Number
<1>3. (Distinct /\ Below /\ NoGap)'
  BY <1>2, SameLine DEF Leave
<1>4. HolderServed'
  BY DEF IInv, McsTypeOK, HolderServed, Leave, Inc
<1>5. HolderNotPreemptable'
  <2>1. locks[t] = 1
    BY DEF IInv, McsTypeOK, HolderNotPreemptable, Leave
  <2> QED BY <2>1 DEF IInv, McsTypeOK, HolderNotPreemptable, Leave
<1> QED BY <1>1, <1>3, <1>4, <1>5 DEF IInv

\* The holder and whoever displays its number are one thread.
LEMMA ExclusionFromTickets == IInv => MutualExclusion
<1> SUFFICES ASSUME IInv, NEW s \in McsHolding, NEW t \in McsHolding PROVE s = t
  BY DEF MutualExclusion
<1>1. s \in InLine /\ t \in InLine
  BY DEF McsHolding, InLine
<1>2. Number(s) = cntr /\ Number(t) = cntr
  BY DEF IInv, McsHolding, HolderServed, Number
<1> QED BY <1>1, <1>2 DEF IInv, Distinct

\* The store moves everybody else one place forward.
LEMMA StoreNextIInv == ASSUME IInv, NEW t \in Lockers, StoreNext(t)
                       PROVE  IInv'
<1>1. McsTypeOK'
  BY DEF IInv, McsTypeOK, StoreNext
<1>2. cntr' = Inc(cntr) /\ ticket' = ticket
  BY DEF IInv, HolderServed, StoreNext
<1>3. t \in InLine /\ Number(t) = cntr
  BY DEF InLine, Number, StoreNext
<1>4. InLine' = InLine \ {t}
  BY DEF IInv, McsTypeOK, InLine, StoreNext
<1>5. \A s \in InLine' : mpc[s] # "store" /\ mpc[s] # "held"
  <2>1. \A s \in InLine' : s \in Lockers /\ s # t
    BY <1>4 DEF InLine
  <2>2. t \in McsHolding
    BY DEF McsHolding, StoreNext
  <2> QED BY <2>1, <2>2, ExclusionFromTickets DEF MutualExclusion, McsHolding
<1>6. \A s \in InLine' : Number(s)' = Number(s)
  BY <1>4, <1>5 DEF IInv, McsTypeOK, InLine, Number, StoreNext
<1>7. \A n \in Word : n # cntr => Ahead(n)' = Ahead(n) - 1
  BY <1>2, McsAssumption DEF IInv, McsTypeOK, Ahead, Inc, Word
<1>8. \A s \in InLine' : Number(s) \in Word /\ Number(s) # cntr
  BY <1>3, <1>4, NumberType DEF IInv, Distinct, InLine
<1>9. ASSUME NEW s \in InLine'
      PROVE  Ahead(Number(s))' = Ahead(Number(s)) - 1 /\ Ahead(Number(s)) \in Word
  <2>1. Number(s)' = Number(s) /\ Number(s) \in Word /\ Number(s) # cntr
    BY <1>6, <1>8
  <2>2. Ahead(Number(s)) \in Word
    BY <2>1, AheadType DEF IInv
  <2>3. Ahead(Number(s))' = Ahead(Number(s)) - 1
    BY <1>2, <2>1, McsAssumption DEF IInv, McsTypeOK, Ahead, Inc, Word
  <2> QED BY <2>2, <2>3
<1>10. Ahead(ticket)' = Ahead(ticket) - 1 /\ Ahead(ticket) \in Word
  <2>1. Ahead(Number(t)) < Ahead(ticket)
    BY <1>3 DEF IInv, Below
  <2>2. Ahead(Number(t)) = 0
    BY <1>3 DEF IInv, McsTypeOK, Ahead, Word
  <2>3. ticket # cntr
    BY <2>1, <2>2 DEF IInv, McsTypeOK, Ahead, Word
  <2>4. ticket \in Word /\ Ahead(ticket) \in Word
    BY AheadType DEF IInv, McsTypeOK
  <2> QED BY <1>2, <2>3, <2>4, McsAssumption DEF IInv, McsTypeOK, Ahead, Inc, Word
<1>11. Distinct'
  BY <1>4, <1>6 DEF IInv, Distinct
<1>12. Below'
  <2> SUFFICES ASSUME NEW s \in InLine' PROVE Ahead(Number(s))' < Ahead(ticket)'
    BY DEF Below
  <2>1. Ahead(Number(s)) < Ahead(ticket)
    BY <1>4 DEF IInv, Below
  <2> QED BY <1>9, <1>10, <2>1 DEF Word
<1>13. NoGap'
  <2> SUFFICES ASSUME NEW k \in (0 .. Ahead(ticket) - 1)'
               PROVE  \E s \in InLine' : Ahead(Number(s))' = k
    BY DEF NoGap
  <2>1. k + 1 \in 0 .. Ahead(ticket) - 1 /\ k \in Nat
    BY <1>10 DEF Word
  <2>2. PICK s \in InLine : Ahead(Number(s)) = k + 1
    BY <2>1 DEF IInv, NoGap
  <2>3. s # t
    BY <1>3, <2>1, <2>2 DEF IInv, McsTypeOK, Ahead, Word
  <2> QED BY <1>4, <1>9, <2>1, <2>2, <2>3
<1>14. HolderServed'
  BY <1>4, <1>5 DEF IInv, McsTypeOK, HolderServed, StoreNext, InLine
<1>15. HolderNotPreemptable'
  BY DEF IInv, McsTypeOK, HolderNotPreemptable, StoreNext
<1> QED BY <1>1, <1>11, <1>12, <1>13, <1>14, <1>15 DEF IInv

-----------------------------------------------------------------------------
LEMMA NextIInv == IInv /\ [McsNext]_mcsVars => IInv'
<1> SUFFICES ASSUME IInv, [McsNext]_mcsVars PROVE IInv'
  OBVIOUS
<1>1. CASE UNCHANGED mcsVars
  BY <1>1 DEF mcsVars, IInv, McsTypeOK, HolderServed, Distinct, Below, NoGap,
              HolderNotPreemptable, InLine, Number, Ahead, Inc
<1>2. ASSUME NEW t \in Lockers, McsStep(t) PROVE IInv'
  BY <1>2, DrawTicketIInv, EnterIInv, ReadNextIInv, StoreNextIInv, LeaveIInv DEF McsStep
<1> QED BY <1>1, <1>2 DEF McsNext

\* The inductive invariant holds throughout: TypeOK with the ring of tickets.
THEOREM Invariant == McsSpec => []IInv
BY InitIInv, NextIInv, PTL DEF McsSpec

\* mcs_lock and mcs_unlock keep their words within the machine word and the
\* lock count of a thread at 0 or 1.
THEOREM TypeCorrect == McsSpec => []McsTypeOK
<1>1. IInv => McsTypeOK
  BY DEF IInv
<1> QED BY <1>1, Invariant, PTL

\* Mutual exclusion of mcs_lock / mcs_unlock, for every number of threads
\* below the number of ticket values, through any number of wraps.
THEOREM Exclusion == McsSpec => []MutualExclusion
BY Invariant, ExclusionFromTickets, PTL

\* The tickets in line are exactly those between cntr and ticket.
THEOREM TicketsTheorem == McsSpec => []TicketsInLine
<1>1. IInv => TicketsInLine
  <2> SUFFICES ASSUME IInv PROVE TicketsInLine
    OBVIOUS
  <2>1. ASSUME NEW t \in InLine PROVE Ahead(Number(t)) \in 0 .. Ahead(ticket) - 1
    <3>1. Number(t) \in Word /\ ticket \in Word
      BY NumberType DEF IInv, InLine, McsTypeOK
    <3>2. Ahead(Number(t)) \in Word /\ Ahead(ticket) \in Word
      BY <3>1, AheadType DEF IInv
    <3>3. Ahead(Number(t)) < Ahead(ticket)
      BY DEF IInv, Below
    <3> QED BY <3>2, <3>3 DEF Word
  <2> QED BY <2>1 DEF IInv, Distinct, NoGap, TicketsInLine
<1> QED BY <1>1, Invariant, PTL

\* The assertions on locks_count in mcs_unlock hold, and a thread that has
\* drawn a ticket has its interrupts masked until it has left.
THEOREM NotPreemptable == McsSpec => []HolderNotPreemptable
<1>1. IInv => HolderNotPreemptable
  BY DEF IInv
<1> QED BY <1>1, Invariant, PTL

\* The lock is granted in the order of the tickets.
THEOREM FirstComeFirstServed == McsSpec => Fifo
<1> DEFINE A == \A t \in Lockers :
                  (mpc[t] = "spin" /\ mpc'[t] = "held") =>
                      \A s \in InLine \ {t} : Ahead(Number(s)) > Ahead(Number(t))
<1>1. IInv /\ [McsNext]_mcsVars => [A]_mcsVars
  <2> SUFFICES ASSUME IInv, McsNext, NEW t \in Lockers, mpc[t] = "spin", mpc'[t] = "held",
                      NEW s \in InLine \ {t}
               PROVE  Ahead(Number(s)) > Ahead(Number(t))
    OBVIOUS
  <2>1. McsEnter(t)
    BY DEF IInv, McsTypeOK, McsNext, McsStep, DrawTicket, McsEnter, ReadNext, StoreNext, Leave
  <2>2. t \in InLine /\ Number(t) = cntr
    BY <2>1 DEF McsEnter, InLine, Number
  <2>3. Number(s) \in Word /\ Number(s) # cntr
    BY <2>2, NumberType DEF IInv, Distinct, InLine
  <2> QED BY <2>2, <2>3, McsAssumption DEF IInv, McsTypeOK, Ahead, Word
<1>2. McsSpec => [][A]_mcsVars
  BY <1>1, Invariant, PTL DEF McsSpec
<1> QED BY <1>2 DEF Fifo
=============================================================================
