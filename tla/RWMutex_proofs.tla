---------------------------- MODULE RWMutex_proofs ----------------------------
(***************************************************************************)
(* Proofs about RWMutex, for any finite sets of readers and writers.       *)
(*                                                                         *)
(* IInv is the inductive invariant: the types, no reader counted, the      *)
(* count of pending writers, nobody stranded.  A writer that has to wait   *)
(* does so because of a writer (nothing ever counts a reader), so that     *)
(* NobodyStranded needs the second part; unlock chooses its condition by   *)
(* the count, so that it needs the third.                                  *)
(***************************************************************************)
EXTENDS RWMutex, FiniteSetTheorems, TLAPS

NoReaderCounted == mReaderCount = 0

IInv == TypeOK /\ NoReaderCounted /\ PendingCounted /\ NobodyStranded

\* The steps leave the types alone, and the count of readers at zero.
LEMMA TypeStep ==
  ASSUME TypeOK, NoReaderCounted, PendingCounted, [Next]_vars
  PROVE  TypeOK' /\ NoReaderCounted'
<1> USE DEF TypeOK, NoReaderCounted, PC, at, moves
<1>1. ASSUME NEW t \in Readers, readlock(t)
      PROVE  TypeOK' /\ NoReaderCounted'
  BY <1>1 DEF readlock, Thread
<1>2. ASSUME NEW t \in Writers, writelockPends(t)
      PROVE  TypeOK' /\ NoReaderCounted'
  BY <1>2 DEF writelockPends, Thread
<1>3. ASSUME NEW t \in Writers, writelockPendsAgain(t)
      PROVE  TypeOK' /\ NoReaderCounted'
  BY <1>3 DEF writelockPendsAgain, Thread
<1>4. ASSUME NEW t \in Writers, writelockEnters(t)
      PROVE  TypeOK' /\ NoReaderCounted'
  <2>1. t \in Thread
    BY DEF Thread
  <2>2. CASE at(t, "idle")
    BY <1>4, <2>1, <2>2 DEF writelockEnters
  <2>3. CASE at(t, "writeWoken")
    <3>1. IsFiniteSet(PendingWriters) /\ t \in PendingWriters
      BY <2>1, <2>3, FS_Subset, RWMutexAssumption DEF PendingWriters
    <3>2. mPendingWriterCount # 0
      BY <3>1, FS_EmptySet DEF PendingCounted
    <3> QED
      BY <1>4, <2>1, <2>3, <3>2 DEF writelockEnters
  <2> QED
    BY <1>4, <2>2, <2>3 DEF writelockEnters
<1>5. ASSUME NEW t \in Thread, unlock(t), mWriterHasLock
      PROVE  TypeOK' /\ NoReaderCounted'
  <2>1. unlockWriter(t)
    BY <1>5 DEF unlock, unlockReader
  <2>2. pc' \in [Thread -> PC]
    BY <2>1 DEF unlockWriter, unlockAndSignal, unlockAndBroadcast, WaitingWriters
  <2>3. asserted' \in BOOLEAN /\ mWriterHasLock' \in BOOLEAN
    BY <2>1 DEF unlockWriter
  <2>4. readUnlocked' \in BOOLEAN
    BY <1>5 DEF unlock
  <2>5. mReaderCount' = mReaderCount /\ mPendingWriterCount' = mPendingWriterCount
    BY <2>1 DEF unlockWriter
  <2> QED
    BY <2>2, <2>3, <2>4, <2>5
<1>6. ASSUME NEW t \in Thread, unlock(t), ~mWriterHasLock
      PROVE  TypeOK' /\ NoReaderCounted'
  BY <1>6 DEF unlock, unlockWriter, unlockReader
<1>7. CASE UNCHANGED vars
  BY <1>7 DEF vars
<1> QED
  BY <1>1, <1>2, <1>3, <1>4, <1>5, <1>6, <1>7 DEF Next, writelock

\* A step leaves the set of pending writers alone, or adds or takes out a
\* writer, as the count does.
LEMMA PendingStep ==
  ASSUME TypeOK, NoReaderCounted, PendingCounted, [Next]_vars
  PROVE  PendingCounted'
<1>1. IsFiniteSet(PendingWriters)
  BY FS_Subset, RWMutexAssumption DEF PendingWriters
<1> DEFINE Same == PendingWriters' = PendingWriters
                   /\ mPendingWriterCount' = mPendingWriterCount
<1> USE DEF TypeOK, PC, at, moves
<1>2. ASSUME NEW t \in Readers, readlock(t)
      PROVE  Same
  BY <1>2 DEF readlock, Thread, PendingWriters
<1>3. ASSUME NEW t \in Writers, writelockPends(t)
      PROVE  PendingCounted'
  <2>1. t \in Thread /\ t \notin PendingWriters
    BY <1>3 DEF writelockPends, Thread, PendingWriters
  <2>2. PendingWriters' = PendingWriters \cup {t}
    BY <1>3, <2>1 DEF writelockPends, PendingWriters
  <2>3. Cardinality(PendingWriters \cup {t}) = Cardinality(PendingWriters) + 1
    BY <1>1, <2>1, FS_AddElement
  <2> QED
    BY <1>3, <2>2, <2>3 DEF writelockPends, PendingCounted
<1>4. ASSUME NEW t \in Writers, writelockPendsAgain(t)
      PROVE  Same
  BY <1>4 DEF writelockPendsAgain, Thread, PendingWriters
<1>5. ASSUME NEW t \in Writers, writelockEnters(t), at(t, "idle")
      PROVE  Same
  BY <1>5 DEF writelockEnters, Thread, PendingWriters
<1>6. ASSUME NEW t \in Writers, writelockEnters(t), at(t, "writeWoken")
      PROVE  PendingCounted'
  <2>1. t \in Thread /\ t \in PendingWriters
    BY <1>6 DEF Thread, PendingWriters
  <2>2. PendingWriters' = PendingWriters \ {t}
    BY <1>6, <2>1 DEF writelockEnters, PendingWriters
  <2>3. Cardinality(PendingWriters \ {t}) = Cardinality(PendingWriters) - 1
    BY <1>1, <2>1, FS_RemoveElement
  <2> QED
    BY <1>6, <2>2, <2>3 DEF writelockEnters, PendingCounted
<1>7. ASSUME NEW t \in Thread, unlock(t), unlockWriter(t), unlockAndSignal(t)
      PROVE  Same
  BY <1>7 DEF unlock, unlockWriter, unlockAndSignal, WaitingWriters, PendingWriters
<1>8. ASSUME NEW t \in Thread, unlock(t), unlockWriter(t), unlockAndBroadcast(t)
      PROVE  Same
  BY <1>8 DEF unlock, unlockWriter, unlockAndBroadcast, PendingWriters
<1>9. ASSUME NEW t \in Thread, unlock(t), unlockReader(t)
      PROVE  Same
  BY <1>9 DEF unlock, unlockReader, NoReaderCounted, PendingWriters
<1>10. CASE UNCHANGED vars
  BY <1>10 DEF vars, PendingCounted, PendingWriters
<1>11. ASSUME NEW t \in Thread, unlock(t)
       PROVE  Same
  BY <1>7, <1>8, <1>9, <1>11 DEF unlock, unlockWriter
<1>12. Same => PendingCounted'
  BY DEF PendingCounted
<1> QED
  BY <1>2, <1>3, <1>4, <1>5, <1>6, <1>10, <1>11, <1>12
     DEF Next, writelock, writelockEnters

\* The count tells whether there is a pending writer.
LEMMA PendingNonEmpty ==
  ASSUME TypeOK, PendingCounted
  PROVE  mPendingWriterCount > 0 <=> \E w \in Thread : pc[w] \in {"writeWait", "writeWoken"}
<1>1. IsFiniteSet(PendingWriters)
  BY FS_Subset, RWMutexAssumption DEF PendingWriters
<1>2. Cardinality(PendingWriters) = 0 <=> PendingWriters = {}
  BY <1>1, FS_EmptySet
<1>3. PendingWriters = {} <=> ~\E w \in Thread : pc[w] \in {"writeWait", "writeWoken"}
  BY DEF PendingWriters
<1> QED
  BY <1>2, <1>3 DEF TypeOK, PendingCounted

\* Nobody is left behind by a step.
LEMMA StrandedStep ==
  ASSUME IInv, [Next]_vars
  PROVE  NobodyStranded'
<1> USE DEF IInv, TypeOK, NoReaderCounted, PC, at, moves
<1>1. ASSUME NEW t \in Readers, readlock(t)
      PROVE  NobodyStranded'
  <2>1. CASE mWriterHasLock
    BY <1>1, <2>1 DEF readlock, NobodyStranded
  <2>2. CASE ~mWriterHasLock /\ mPendingWriterCount > 0
    <3>1. PICK w \in Thread : pc[w] = "writeWoken"
      BY <2>2, PendingNonEmpty DEF NobodyStranded
    <3> QED
      BY <1>1, <3>1 DEF readlock, NobodyStranded, Thread
  <2>3. CASE ~mWriterHasLock /\ ~(mPendingWriterCount > 0)
    BY <1>1, <2>3 DEF readlock, writersFirst, NobodyStranded, Thread
  <2> QED
    BY <2>1, <2>2, <2>3
<1>2. ASSUME NEW t \in Writers, writelock(t)
      PROVE  NobodyStranded'
  BY <1>2 DEF writelock, writelockPends, writelockPendsAgain, writelockEnters,
              mustWait, NobodyStranded
<1>3. ASSUME NEW t \in Thread, unlock(t), unlockWriter(t), mPendingWriterCount > 0
      PROVE  NobodyStranded'
  <2>1. unlockAndSignal(t)
    BY <1>3 DEF unlockWriter
  <2>2. CASE WaitingWriters = {}
    <3>1. PICK w \in Thread : pc[w] = "writeWoken"
      BY <1>3, <2>2, PendingNonEmpty DEF WaitingWriters
    <3> QED
      BY <1>3, <2>1, <2>2, <3>1 DEF unlock, unlockAndSignal, NobodyStranded
  <2>3. CASE WaitingWriters # {}
    <3>1. PICK w \in WaitingWriters : pc' = [pc EXCEPT ![t] = "idle", ![w] = "writeWoken"]
      BY <2>1, <2>3 DEF unlockAndSignal
    <3> QED
      BY <3>1 DEF WaitingWriters, NobodyStranded
  <2> QED
    BY <2>2, <2>3
<1>4. ASSUME NEW t \in Thread, unlock(t), unlockWriter(t), ~(mPendingWriterCount > 0)
      PROVE  NobodyStranded'
  <2>1. \A w \in Thread : pc[w] # "writeWait"
    BY <1>4, PendingNonEmpty
  <2>2. unlockAndBroadcast(t)
    BY <1>4 DEF unlockWriter
  <2>3. \A u \in Thread : pc'[u] \notin {"readWait", "writeWait"}
    BY <2>1, <2>2 DEF unlockAndBroadcast
  <2> QED
    BY <2>3 DEF NobodyStranded
<1>5. ASSUME NEW t \in Thread, unlock(t), unlockReader(t)
      PROVE  NobodyStranded'
  BY <1>5 DEF unlock, unlockReader, NobodyStranded
<1>6. CASE UNCHANGED vars
  BY <1>6 DEF vars, NobodyStranded
<1> QED
  BY <1>1, <1>2, <1>3, <1>4, <1>5, <1>6 DEF Next, unlock

\* The inductive invariant.
THEOREM Invariant == Spec => []IInv
<1>1. Init => IInv
  <2> SUFFICES ASSUME Init PROVE IInv
    OBVIOUS
  <2>1. TypeOK /\ NoReaderCounted /\ NobodyStranded
    BY DEF Init, TypeOK, PC, NoReaderCounted, NobodyStranded, at
  <2>2. PendingWriters = {}
    BY DEF Init, PendingWriters
  <2> QED
    BY <2>1, <2>2, FS_EmptySet DEF Init, IInv, PendingCounted
<1>2. IInv /\ [Next]_vars => IInv'
  BY TypeStep, PendingStep, StrandedStep DEF IInv
<1> QED
  BY <1>1, <1>2, PTL DEF Spec

\* The variables keep their types; above all the unsigned count of pending
\* writers never goes below zero.
THEOREM TypeCorrect == Spec => []TypeOK
BY Invariant, PTL DEF IInv

\* The count of pending writers is the number of writers that wait or were woken.
THEOREM PendingCorrect == Spec => []PendingCounted
BY Invariant, PTL DEF IInv

\* Whoever is blocked while no writer has the lock has a woken writer before it.
THEOREM StrandedCorrect == Spec => []NobodyStranded
BY Invariant, PTL DEF IInv

--------------------------------------------------------------------------------
(* Until a read lock is unlocked the lock excludes writers. *)

LEMMA ExcludeStep ==
  ASSUME IInv, WritersExclude, [Next]_vars
  PROVE  WritersExclude'
<1> USE DEF IInv, TypeOK, NoReaderCounted, PC, at, moves
<1>1. ASSUME NEW t \in Readers, readlock(t)
      PROVE  WritersExclude'
  BY <1>1 DEF readlock, WritersExclude, Thread
<1>2. ASSUME NEW t \in Writers, writelock(t)
      PROVE  WritersExclude'
  BY <1>2 DEF writelock, writelockPends, writelockPendsAgain, writelockEnters,
              mustWait, WritersExclude, Thread
<1>3. ASSUME NEW t \in Thread, unlock(t), at(t, "reading") \/ readUnlocked
      PROVE  WritersExclude'
  BY <1>3 DEF unlock, WritersExclude
<1>4. ASSUME NEW t \in Thread, unlock(t), ~at(t, "reading"), ~readUnlocked
      PROVE  WritersExclude'
  <2>1. mWriterHasLock /\ \A u \in Thread : pc[u] = "writing" => u = t
    BY <1>4 DEF unlock, WritersExclude
  <2>2. unlockWriter(t)
    BY <1>4, <2>1 DEF unlock, unlockReader
  <2>3. \A u \in Thread : pc'[u] # "writing"
    BY <2>1, <2>2 DEF unlockWriter, unlockAndSignal, unlockAndBroadcast, WaitingWriters
  <2>4. mWriterHasLock' = FALSE /\ asserted' = FALSE
    BY <1>4, <2>2 DEF unlockWriter, WritersExclude
  <2> QED
    BY <2>3, <2>4 DEF WritersExclude
<1>5. CASE UNCHANGED vars
  BY <1>5 DEF vars, WritersExclude
<1> QED
  BY <1>1, <1>2, <1>3, <1>4, <1>5 DEF Next

\* Until the first read lock is unlocked at most one writer is in the lock, the
\* flag is set while one is, and no assert of unlock has failed.
THEOREM WritersCorrect == Spec => []WritersExclude
<1>1. Init => WritersExclude
  BY DEF Init, WritersExclude, at
<1>2. IInv /\ WritersExclude /\ [Next]_vars => WritersExclude'
  BY ExcludeStep
<1> QED
  BY <1>1, <1>2, Invariant, PTL DEF Spec

================================================================================
