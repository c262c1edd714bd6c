---------------------------- MODULE RWLockProofs -----------------------------
(***************************************************************************)
(* Proofs about the read-write lock, for every finite set of threads and   *)
(* every share of them that come through the system call.                  *)
(***************************************************************************)
EXTENDS RWLock, FiniteSetTheorems, TLAPS

\* A thread is in a wait queue exactly while it sleeps in it, once.
Queued == /\ rdq = At("rd_wait")
          /\ \A i \in 1 .. Len(wrq) : pc[wrq[i]] = "wr_wait"
          /\ \A i, j \in 1 .. Len(wrq) : wrq[i] = wrq[j] => i = j

\* With a writer, the count is -1; without, the number of readers.
Counted == /\ At("wr") # {} => count = -1 /\ At("rd") = {}
           /\ At("wr") = {} => count = Cardinality(At("rd"))

IInv == TypeOK /\ Queued /\ Exclusion /\ Counted /\ NoneForgotten

-----------------------------------------------------------------------------
LEMMA AtFinite == ASSUME NEW l
                  PROVE  /\ IsFiniteSet(At(l))
                         /\ Cardinality(At(l)) \in 0 .. Cardinality(Threads)
<1>1. At(l) \subseteq Threads
  BY DEF At
<1> QED BY <1>1, RWAssumption, FS_Subset, FS_CardinalityType

\* The readers gain one, or lose one.
LEMMA OneMore == ASSUME NEW t \in Threads, t \notin At("rd"), At("rd")' = At("rd") \cup {t}
                 PROVE  Cardinality(At("rd")') = Cardinality(At("rd")) + 1
BY AtFinite, FS_AddElement

LEMMA OneLess == ASSUME NEW t \in Threads, t \in At("rd"), At("rd")' = At("rd") \ {t}
                 PROVE  Cardinality(At("rd")') = Cardinality(At("rd")) - 1
BY AtFinite, FS_RemoveElement

\* A count of 1 or -1 is that of the only holder.
LEMMA OnlyHolder == ASSUME IInv, NEW t \in Threads, pc[t] \in {"rd", "wr"}, count \in {1, -1}
                    PROVE  \A u \in Threads : pc[u] \in {"rd", "wr"} => u = t
<1>1. CASE At("wr") # {}
  BY <1>1 DEF IInv, Counted, Exclusion, At
<1>2. CASE At("wr") = {}
  <2>1. count = Cardinality(At("rd")) /\ t \in At("rd")
    BY <1>2 DEF IInv, Counted, At
  <2>2. Cardinality(At("rd")) = 1
    BY <2>1, AtFinite
  <2>3. PICK x : At("rd") = {x}
    BY <2>2, AtFinite, FS_Singleton
  <2> QED BY <2>1, <2>3, <1>2 DEF At
<1> QED BY <1>1, <1>2

LEMMA InitIInv == Init => IInv
<1> SUFFICES ASSUME Init PROVE IInv
  OBVIOUS
<1>2. Cardinality({}) = 0 /\ Cardinality(Threads) \in Nat
  BY FS_EmptySet, FS_CardinalityType, RWAssumption
<1>3. TypeOK
  <2>1. 0 \in -1 .. Cardinality(Threads)
    BY <1>2
  <2>2. <<>> \in Seq(Threads)
    OBVIOUS
  <2> QED BY <2>1, <2>2 DEF Init, TypeOK
<1>4. At("rd") = {} /\ At("wr") = {} /\ At("rd_wait") = {}
  BY DEF Init, At
<1>5. Queued
  BY <1>4 DEF Init, Queued
<1>6. Counted
  BY <1>2, <1>4 DEF Init, Counted
<1>7. Exclusion /\ NoneForgotten
  BY DEF Init, Exclusion, NoneForgotten
<1> QED BY <1>3, <1>5, <1>6, <1>7 DEF IInv

-----------------------------------------------------------------------------
\* Steps of a thread that neither takes nor leaves the lock.
LEMMA QuietIInv == ASSUME IInv, NEW t \in Threads,
                          SysDestroy(t) \/ Destroy(t) \/ Free(t)
                   PROVE  IInv'
<1> USE DEF IInv
<1>1. PICK l \in {"out", "destroy", "free"} : /\ pc[t] \in {"out", "destroy", "free"}
                                              /\ pc' = [pc EXCEPT ![t] = l]
  BY DEF SysDestroy, Destroy, Free, Goto, Enter
<1>2. UNCHANGED <<count, rdq, wrq>> /\ asked' \in BOOLEAN /\ freed' \in BOOLEAN
  BY DEF SysDestroy, Destroy, Free, TypeOK
<1>3. At("rd")' = At("rd") /\ At("wr")' = At("wr") /\ At("rd_wait")' = At("rd_wait")
  BY <1>1 DEF At, TypeOK
<1>4. TypeOK'
  BY <1>1, <1>2 DEF TypeOK
<1>5. Queued'
  BY <1>1, <1>2, <1>3 DEF Queued, TypeOK
<1>6. Exclusion'
  BY <1>1 DEF Exclusion, TypeOK
<1>7. Counted'
  BY <1>2, <1>3 DEF Counted
<1> QED BY <1>2, <1>4, <1>5, <1>6, <1>7 DEF NoneForgotten

\* A reader enters.
LEMMA ReaderIn == ASSUME IInv, NEW t \in Threads, Enter(t), count >= 0, wrq = <<>>,
                         count' = count + 1, Goto(t, "rd"), UNCHANGED <<rdq, wrq, asked, freed>>
                  PROVE  IInv'
<1> USE DEF IInv
<1>1. pc' = [pc EXCEPT ![t] = "rd"] /\ pc[t] = "out"
  BY DEF Goto, Enter
<1>2. At("rd")' = At("rd") \cup {t} /\ At("wr")' = At("wr") /\ At("rd_wait")' = At("rd_wait") /\ t \notin At("rd")
  BY <1>1 DEF At, TypeOK
<1>3. At("wr") = {} /\ count = Cardinality(At("rd"))
  BY DEF Counted
<1>4. count' = Cardinality(At("rd")')
  BY <1>2, <1>3, OneMore
<1>5. count' \in -1 .. Cardinality(Threads)
  <2>1. Cardinality(At("rd")') \in 0 .. Cardinality(Threads)
    <3>1. At("rd")' \subseteq Threads
      BY DEF At
    <3> QED BY <3>1, RWAssumption, FS_Subset, FS_CardinalityType
  <2> QED BY <2>1, <1>4, RWAssumption, FS_CardinalityType
<1>6. TypeOK'
  BY <1>1, <1>5 DEF TypeOK
<1>7. Queued'
  BY <1>1, <1>2 DEF Queued, TypeOK
<1>8. Exclusion'
  BY <1>1, <1>3 DEF Exclusion, TypeOK, At
<1>9. Counted'
  BY <1>2, <1>3, <1>4 DEF Counted
<1>10. NoneForgotten'
  BY DEF NoneForgotten
<1> QED BY <1>6, <1>7, <1>8, <1>9, <1>10

\* A writer enters a free lock.
LEMMA WriterIn == ASSUME IInv, NEW t \in Threads, Enter(t), count = 0,
                         count' = count - 1, Goto(t, "wr"), UNCHANGED <<rdq, wrq, asked, freed>>
                  PROVE  IInv'
<1> USE DEF IInv
<1>1. pc' = [pc EXCEPT ![t] = "wr"] /\ pc[t] = "out"
  BY DEF Goto, Enter
<1>2. At("wr") = {} /\ At("rd") = {}
  BY AtFinite, FS_EmptySet DEF Counted
<1>3. At("rd")' = At("rd") /\ At("wr")' = {t} /\ At("rd_wait")' = At("rd_wait")
  BY <1>1, <1>2 DEF At, TypeOK
<1>4. TypeOK'
  BY <1>1, RWAssumption, FS_CardinalityType DEF TypeOK
<1>5. Queued'
  BY <1>1, <1>3 DEF Queued, TypeOK
<1>6. Exclusion'
  BY <1>1, <1>2 DEF Exclusion, TypeOK, At
<1>7. Counted'
  BY <1>2, <1>3 DEF Counted
<1>8. NoneForgotten'
  BY DEF NoneForgotten
<1> QED BY <1>4, <1>5, <1>6, <1>7, <1>8

\* A writer goes to sleep.
LEMMA WriterWaits == ASSUME IInv, NEW t \in Threads, Enter(t), count # 0,
                            wrq' = Append(wrq, t), Goto(t, "wr_wait"),
                            UNCHANGED <<count, rdq, asked, freed>>
                     PROVE  IInv'
<1> USE DEF IInv
<1>1. pc' = [pc EXCEPT ![t] = "wr_wait"] /\ pc[t] = "out"
  BY DEF Goto, Enter
<1>2. At("rd")' = At("rd") /\ At("wr")' = At("wr") /\ At("rd_wait")' = At("rd_wait")
  BY <1>1 DEF At, TypeOK
<1>3. TypeOK'
  BY <1>1 DEF TypeOK
<1>4. Queued'
  <2>1. wrq \in Seq(Threads) /\ DOMAIN pc = Threads
    BY DEF TypeOK
  <2>2. /\ Len(wrq') = Len(wrq) + 1
        /\ wrq'[Len(wrq) + 1] = t
        /\ \A i \in 1 .. Len(wrq) : wrq'[i] = wrq[i] /\ wrq[i] \in Threads /\ wrq[i] # t
    BY <2>1, <1>1 DEF Queued
  <2>3. \A i \in 1 .. Len(wrq') : pc'[wrq'[i]] = "wr_wait"
    BY <2>1, <2>2, <1>1 DEF Queued
  <2>4. \A i, j \in 1 .. Len(wrq') : wrq'[i] = wrq'[j] => i = j
    BY <2>1, <2>2 DEF Queued
  <2> QED BY <2>3, <2>4, <1>2 DEF Queued
<1>5. Exclusion'
  BY <1>1 DEF Exclusion, TypeOK
<1>6. Counted'
  BY <1>2 DEF Counted
<1>7. NoneForgotten'
  BY DEF NoneForgotten, TypeOK
<1> QED BY <1>3, <1>4, <1>5, <1>6, <1>7

\* A reader goes to sleep.
LEMMA ReaderWaits == ASSUME IInv, NEW t \in Threads, Enter(t), ~ (count >= 0 /\ wrq = <<>>),
                            rdq' = rdq \cup {t}, Goto(t, "rd_wait"),
                            UNCHANGED <<count, wrq, asked, freed>>
                     PROVE  IInv'
<1> USE DEF IInv
<1>1. pc' = [pc EXCEPT ![t] = "rd_wait"] /\ pc[t] = "out"
  BY DEF Goto, Enter
<1>2. /\ At("rd")' = At("rd") /\ At("wr")' = At("wr")
      /\ At("rd_wait")' = At("rd_wait") \cup {t}
  BY <1>1 DEF At, TypeOK
<1>3. TypeOK'
  BY <1>1 DEF TypeOK
<1>4. Queued'
  BY <1>1, <1>2 DEF Queued, TypeOK
<1>5. Exclusion'
  BY <1>1 DEF Exclusion, TypeOK
<1>6. Counted'
  BY <1>2 DEF Counted
<1>7. NoneForgotten'
  <2>1. count = -1 \/ wrq # <<>>
    <3>1. count \in -1 .. Cardinality(Threads) /\ Cardinality(Threads) \in Nat
      BY RWAssumption, FS_CardinalityType DEF TypeOK
    <3> QED BY <3>1
  <2> QED BY <2>1 DEF NoneForgotten
<1> QED BY <1>3, <1>4, <1>5, <1>6, <1>7

-----------------------------------------------------------------------------
LEMMA UnlockReaderIInv == ASSUME IInv, NEW t \in Threads, UnlockReader(t)
                          PROVE  IInv'
<1> USE DEF IInv
<1>1. /\ pc' = [pc EXCEPT ![t] = After(t)] /\ After(t) \in {"out", "destroy"}
      /\ pc[t] \in {"rd", "wr"}
      /\ count > 1 /\ count' = count - 1 /\ UNCHANGED <<rdq, wrq, asked, freed>>
  BY DEF UnlockReader, Goto, After
<1>2. At("wr") = {} /\ pc[t] = "rd" /\ count = Cardinality(At("rd"))
  BY <1>1 DEF Counted, At
<1>3. /\ At("rd")' = At("rd") \ {t} /\ t \in At("rd") /\ At("wr")' = At("wr")
      /\ At("rd_wait")' = At("rd_wait")
  BY <1>1, <1>2 DEF At, TypeOK
<1>4. count' = Cardinality(At("rd")')
  BY <1>1, <1>2, <1>3, OneLess
<1>5. TypeOK'
  BY <1>1, RWAssumption, FS_CardinalityType DEF TypeOK
<1>6. Queued'
  BY <1>1, <1>2, <1>3 DEF Queued, TypeOK
<1>7. Exclusion'
  BY <1>1, <1>2 DEF Exclusion, TypeOK
<1>8. Counted'
  BY <1>2, <1>3, <1>4 DEF Counted
<1>9. NoneForgotten'
  BY <1>1 DEF NoneForgotten
<1> QED BY <1>5, <1>6, <1>7, <1>8, <1>9

\* The lock goes from its only holder to the first writer.
LEMMA UnlockToWriterIInv == ASSUME IInv, NEW t \in Threads, UnlockToWriter(t)
                            PROVE  IInv'
<1> USE DEF IInv
<1> DEFINE h == Head(wrq)
<1>1. /\ h \in Threads /\ pc[h] = "wr_wait" /\ h # t
      /\ \A i \in 1 .. Len(Tail(wrq)) : /\ Tail(wrq)[i] = wrq[i + 1] /\ i + 1 \in 1 .. Len(wrq)
                                        /\ wrq[i + 1] # h /\ wrq[i + 1] \in Threads
  <2>1. wrq \in Seq(Threads) /\ wrq # <<>> /\ pc[t] \in {"rd", "wr"}
    BY DEF TypeOK, UnlockToWriter
  <2>2. h = wrq[1] /\ 1 \in 1 .. Len(wrq) /\ h \in Threads
    BY <2>1
  <2>3. pc[h] = "wr_wait" /\ h # t
    BY <2>1, <2>2 DEF Queued
  <2>4. \A i \in 1 .. Len(Tail(wrq)) : Tail(wrq)[i] = wrq[i + 1] /\ i + 1 \in 1 .. Len(wrq) /\ i + 1 # 1
    BY <2>1
  <2>5. \A i \in 1 .. Len(Tail(wrq)) : wrq[i + 1] # h /\ wrq[i + 1] \in Threads
    BY <2>1, <2>2, <2>4 DEF Queued
  <2> QED BY <2>2, <2>3, <2>4, <2>5
<1> HIDE DEF h
<1>2. /\ pc' = [pc EXCEPT ![t] = After(t), ![h] = "wr"] /\ After(t) \in {"out", "destroy"}
      /\ pc[t] \in {"rd", "wr"} /\ count \in {1, -1}
      /\ count' = -1 /\ wrq' = Tail(wrq) /\ wrq # <<>> /\ UNCHANGED <<rdq, asked, freed>>
  BY DEF UnlockToWriter, After, h
<1>3. /\ pc'[t] = After(t) /\ pc'[h] = "wr"
      /\ \A u \in Threads \ {t, h} : pc'[u] = pc[u]
  BY <1>1, <1>2 DEF TypeOK
<1>4. \A u \in Threads : pc[u] \in {"rd", "wr"} => u = t
  BY <1>2, OnlyHolder
<1>5. \A u \in Threads : pc'[u] \in {"rd", "wr"} => u = h
  BY <1>1, <1>2, <1>3, <1>4
<1>6. TypeOK'
  BY <1>1, <1>2, RWAssumption, FS_CardinalityType DEF TypeOK
<1>7. Queued'
  <2>1. At("rd_wait")' = At("rd_wait")
    BY <1>1, <1>2, <1>3 DEF At
  <2>2. ASSUME NEW i \in 1 .. Len(wrq') PROVE pc'[wrq'[i]] = "wr_wait"
    <3>1. wrq'[i] = wrq[i + 1] /\ i + 1 \in 1 .. Len(wrq) /\ wrq[i + 1] \in Threads \ {h}
      BY <1>1, <1>2
    <3>2. pc[wrq[i + 1]] = "wr_wait"
      BY <3>1 DEF Queued
    <3>3. wrq[i + 1] # t
      BY <3>2, <1>2
    <3> QED BY <3>1, <3>2, <3>3, <1>3
  <2>3. \A i, j \in 1 .. Len(wrq') : wrq'[i] = wrq'[j] => i = j
    BY <1>1, <1>2 DEF Queued, TypeOK
  <2> QED BY <2>1, <2>2, <2>3, <1>2 DEF Queued
<1>8. Exclusion'
  BY <1>5 DEF Exclusion
<1>9. Counted'
  <2>1. At("wr")' # {} /\ At("rd")' = {}
    BY <1>1, <1>3, <1>5 DEF At
  <2> QED BY <2>1, <1>2 DEF Counted
<1>10. NoneForgotten'
  BY <1>2 DEF NoneForgotten
<1> QED BY <1>6, <1>7, <1>8, <1>9, <1>10

\* The lock goes from its only holder to all the waiting readers.
LEMMA UnlockToReadersIInv == ASSUME IInv, NEW t \in Threads, UnlockToReaders(t)
                             PROVE  IInv'
<1> USE DEF IInv
<1>1. /\ After(t) \in {"out", "destroy"}
      /\ pc[t] \in {"rd", "wr"} /\ count \in {1, -1} /\ t \notin rdq
      /\ count' = Cardinality(rdq) /\ rdq' = {} /\ wrq = <<>>
      /\ UNCHANGED <<wrq, asked, freed>>
  BY DEF UnlockToReaders, After, Queued, At
<1>2. \A u \in Threads : pc'[u] = IF u = t THEN After(t) ELSE IF u \in rdq THEN "rd" ELSE pc[u]
  BY DEF UnlockToReaders
<1>3. \A u \in Threads : pc[u] \in {"rd", "wr"} => u = t
  BY <1>1, OnlyHolder
<1>4. \A u \in Threads : pc'[u] # "wr" /\ (pc'[u] = "rd" <=> u \in rdq)
  BY <1>1, <1>2, <1>3
<1>5. At("wr")' = {} /\ At("rd")' = rdq /\ At("rd_wait")' = {}
  <2>1. At("wr")' = {} /\ At("rd")' = rdq
    BY <1>4 DEF At, TypeOK
  <2>2. \A u \in Threads : pc'[u] # "rd_wait"
    BY <1>1, <1>2 DEF Queued, At
  <2> QED BY <2>1, <2>2 DEF At
<1>6. TypeOK'
  <2>1. Cardinality(rdq) \in -1 .. Cardinality(Threads)
    <3>1. rdq \subseteq Threads
      BY DEF TypeOK
    <3> QED BY <3>1, RWAssumption, FS_Subset, FS_CardinalityType
  <2>2. pc' \in [Threads -> {"out", "rd_wait", "wr_wait", "rd", "wr", "destroy", "free"}]
    BY <1>1 DEF UnlockToReaders, TypeOK
  <2> QED BY <2>1, <2>2, <1>1 DEF TypeOK
<1>7. Queued'
  BY <1>1, <1>5 DEF Queued
<1>8. Exclusion'
  BY <1>4 DEF Exclusion
<1>9. Counted'
  BY <1>1, <1>5 DEF Counted
<1>10. NoneForgotten'
  BY <1>1 DEF NoneForgotten
<1> QED BY <1>6, <1>7, <1>8, <1>9, <1>10

-----------------------------------------------------------------------------
LEMMA NextIInv == IInv /\ [Next]_vars => IInv'
<1> SUFFICES ASSUME IInv, [Next]_vars PROVE IInv'
  OBVIOUS
<1>1. CASE UNCHANGED vars
  BY <1>1 DEF vars, IInv, TypeOK, Queued, Exclusion, Counted, NoneForgotten, At
<1>2. ASSUME NEW t \in Threads, WrLock(t) PROVE IInv'
  <2>1. CASE count = 0
    BY <1>2, <2>1, WriterIn DEF WrLock
  <2>2. CASE count # 0
    BY <1>2, <2>2, WriterWaits DEF WrLock
  <2> QED BY <2>1, <2>2
<1>3. ASSUME NEW t \in Threads, RdLock(t) PROVE IInv'
  <2>1. CASE count >= 0 /\ wrq = <<>>
    BY <1>3, <2>1, ReaderIn DEF RdLock
  <2>2. CASE ~ (count >= 0 /\ wrq = <<>>)
    BY <1>3, <2>2, ReaderWaits DEF RdLock
  <2> QED BY <2>1, <2>2
<1>4. ASSUME NEW t \in Threads, TryWrLock(t) PROVE IInv'
  BY <1>4, WriterIn DEF TryWrLock
<1>5. ASSUME NEW t \in Threads, TryRdLock(t) PROVE IInv'
  BY <1>5, ReaderIn DEF TryRdLock
<1>6. ASSUME NEW t \in Threads, Unlock(t) PROVE IInv'
  BY <1>6, UnlockReaderIInv, UnlockToWriterIInv, UnlockToReadersIInv DEF Unlock
<1> QED BY <1>1, <1>2, <1>3, <1>4, <1>5, <1>6, QuietIInv DEF Next, Step

THEOREM Invariant == Safety => []IInv
BY InitIInv, NextIInv, PTL DEF Safety

\* Type correctness: the count never leaves -1 .. the number of threads.
THEOREM TypeCorrect == Safety => []TypeOK
<1>1. IInv => TypeOK
  BY DEF IInv
<1> QED BY <1>1, Invariant, PTL

\* Exclusion: rwlock.c never lets a writer hold the lock beside another holder.
THEOREM ExclusionTheorem == Safety => []Exclusion
<1>1. IInv => Exclusion
  BY DEF IInv
<1> QED BY <1>1, Invariant, PTL

\* The count that rwlock_unlock decides by is the number of readers, or -1.
THEOREM CountTheorem == Safety => []CountExact
<1>1. IInv => CountExact
  BY DEF IInv, Counted, CountExact
<1> QED BY <1>1, Invariant, PTL

\* Nobody sleeps beside a free lock, and readers sleep for writers only.
THEOREM NoneForgottenTheorem == Safety => []NoneForgotten
<1>1. IInv => NoneForgotten
  BY DEF IInv
<1> QED BY <1>1, Invariant, PTL

\* Writer priority, for every step: rwlock.c gives the lock to a reader only
\* when no writer waits.
THEOREM PriorityTheorem == Safety => WriterPriority
<1> DEFINE A == (\E t \in Threads : pc[t] # "rd" /\ pc'[t] = "rd") => wrq = <<>>
<1>1. TypeOK /\ [Next]_vars => [A]_vars
  <2> SUFFICES ASSUME TypeOK, NEW t \in Threads, pc[t] # "rd", pc'[t] = "rd",
                      NEW u \in Threads,
                      \/ WrLock(u) \/ RdLock(u) \/ TryWrLock(u) \/ TryRdLock(u)
                      \/ Unlock(u) \/ SysDestroy(u) \/ Destroy(u) \/ Free(u)
               PROVE  wrq = <<>>
    BY DEF Next, Step
  <2>1. CASE WrLock(u) \/ TryWrLock(u) \/ SysDestroy(u) \/ Destroy(u) \/ Free(u)
    <3>1. PICK l : l # "rd" /\ pc' = [pc EXCEPT ![u] = l]
      BY <2>1 DEF WrLock, TryWrLock, SysDestroy, Destroy, Free, Goto
    <3> QED BY <3>1 DEF TypeOK
  <2>2. CASE RdLock(u) \/ TryRdLock(u)
    BY <2>2 DEF RdLock, TryRdLock, Goto, TypeOK
  <2>3. CASE UnlockReader(u)
    BY <2>3 DEF UnlockReader, Goto, After, TypeOK
  <2>4. CASE UnlockToWriter(u)
    <3>1. Head(wrq) \in Threads /\ After(u) # "rd"
      BY <2>4 DEF UnlockToWriter, After, TypeOK
    <3>2. pc' = [pc EXCEPT ![u] = After(u), ![Head(wrq)] = "wr"]
      BY <2>4 DEF UnlockToWriter
    <3> QED BY <3>1, <3>2 DEF TypeOK
  <2>5. CASE UnlockToReaders(u)
    BY <2>5 DEF UnlockToReaders
  <2> QED BY <2>1, <2>2, <2>3, <2>4, <2>5 DEF Unlock
<1>2. Safety => [][A]_vars
  <2> HIDE DEF A
  <2> QED BY <1>1, TypeCorrect, PTL DEF Safety
<1> QED BY <1>2 DEF WriterPriority
=============================================================================
