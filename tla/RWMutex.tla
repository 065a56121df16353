------------------------------- MODULE RWMutex -------------------------------
(***************************************************************************)
(* Util::RWMutex of libutil, in the Windows build: a readers-writer lock   *)
(* made of a mutex and two condition variables, writers before readers.    *)
(*                                                                         *)
(* Every method holds mMutex from its first statement to its return,       *)
(* except while it waits on a condition; the code between two such points  *)
(* is one action.  A condition wakes a thread only when it is signalled    *)
(* (Condition and its runs look into that); a woken thread competes for    *)
(* mMutex again with everybody else, and then repeats its test.            *)
(***************************************************************************)
EXTENDS Naturals, FiniteSets

CONSTANTS Readers,    \* threads that call readlock
          Writers     \* threads that call writelock or lock

Thread == Readers \cup Writers

ASSUME RWMutexAssumption == IsFiniteSet(Thread)

VARIABLES mReaderCount, mWriterHasLock, mPendingWriterCount,
          pc,         \* where a thread is: see PC
          asserted,   \* an assert of unlock has failed (a release build goes on)
  readUnlocked  \* history: a thread has unlocked its read lock

vars == <<mReaderCount, mWriterHasLock, mPendingWriterCount, pc, asserted, readUnlocked>>

\* readWait and writeWait: blocked in the condition; ...Woken: signalled, on
\* the way to test again; reading, writing: the lock call has returned.
PC == {"idle", "readWait", "readWoken", "reading",
       "writeWait", "writeWoken", "writing"}

TypeOK ==
  /\ mReaderCount \in Nat
  /\ mWriterHasLock \in BOOLEAN
  /\ mPendingWriterCount \in Nat
  /\ pc \in [Thread -> PC]
  /\ asserted \in BOOLEAN
  /\ readUnlocked \in BOOLEAN

Init ==
  /\ mReaderCount = 0
  /\ mWriterHasLock = FALSE
  /\ mPendingWriterCount = 0
  /\ pc = [t \in Thread |-> "idle"]
  /\ asserted = FALSE
  /\ readUnlocked = FALSE

at(t, place) == pc[t] = place
moves(t, place) == pc' = [pc EXCEPT ![t] = place]

--------------------------------------------------------------------------------
(* readlock.  The count of readers is not touched. *)

writersFirst == mWriterHasLock \/ mPendingWriterCount > 0

readlock(t) ==
  /\ at(t, "idle") \/ at(t, "readWoken")
  /\ moves(t, IF writersFirst THEN "readWait" ELSE "reading")
  /\ UNCHANGED <<mReaderCount, mWriterHasLock, mPendingWriterCount, asserted, readUnlocked>>

--------------------------------------------------------------------------------
(* writelock.  A writer that has to wait is pending until it has the lock. *)

\* Fault: a writer waits for readers only.
mustWaitForReaders == mReaderCount > 0

mustWait == mWriterHasLock \/ mReaderCount > 0

writelockPends(t) ==
  /\ at(t, "idle")
  /\ mustWait
  /\ mPendingWriterCount' = mPendingWriterCount + 1
  /\ moves(t, "writeWait")
  /\ UNCHANGED <<mReaderCount, mWriterHasLock, asserted, readUnlocked>>

\* Fault: a woken writer that waits again is counted again.
writelockCountsTwice(t) ==
  /\ at(t, "writeWoken")
  /\ mustWait
  /\ mPendingWriterCount' = mPendingWriterCount + 1
  /\ moves(t, "writeWait")
  /\ UNCHANGED <<mReaderCount, mWriterHasLock, asserted, readUnlocked>>

writelockPendsAgain(t) ==
  /\ at(t, "writeWoken")
  /\ mustWait
  /\ moves(t, "writeWait")
  /\ UNCHANGED <<mReaderCount, mWriterHasLock, mPendingWriterCount, asserted, readUnlocked>>

\* Pending for the time of the call only, or since an earlier wait.
writelockEnters(t) ==
  /\ at(t, "idle") \/ at(t, "writeWoken")
  /\ ~mustWait
  /\ mWriterHasLock' = TRUE
  /\ mPendingWriterCount' = IF at(t, "idle") THEN mPendingWriterCount
                            ELSE mPendingWriterCount - 1
  /\ moves(t, "writing")
  /\ UNCHANGED <<mReaderCount, asserted, readUnlocked>>

writelock(t) ==
  writelockPends(t) \/ writelockPendsAgain(t) \/ writelockEnters(t)

--------------------------------------------------------------------------------
(* unlock serves readers and writers: it goes by the state of the lock,    *)
(* not by what the caller holds.                                           *)

WaitingWriters == {t \in Thread : at(t, "writeWait")}

\* mPendingWriteCondition.signal in an unlock by t: one waiting writer, if any.
unlockAndSignal(t) ==
  \/ \E w \in WaitingWriters :
        pc' = [pc EXCEPT ![t] = "idle", ![w] = "writeWoken"]
  \/ /\ WaitingWriters = {}
     /\ moves(t, "idle")

\* mReadCondition.broadcast in an unlock by t.
unlockAndBroadcast(t) ==
  pc' = [u \in Thread |-> IF u = t THEN "idle"
                          ELSE IF at(u, "readWait") THEN "readWoken"
                          ELSE pc[u]]

\* Fault: readers before writers, although they test for pending writers.
unlockWriterReadersFirst(t) ==
  /\ mWriterHasLock
  /\ mWriterHasLock' = FALSE
  /\ asserted' = (asserted \/ mReaderCount # 0)
  /\ IF \E u \in Thread : at(u, "readWait")
       THEN unlockAndBroadcast(t) ELSE unlockAndSignal(t)
  /\ UNCHANGED <<mReaderCount, mPendingWriterCount>>

unlockWriter(t) ==
  /\ mWriterHasLock
  /\ mWriterHasLock' = FALSE
  /\ asserted' = (asserted \/ mReaderCount # 0)
  /\ IF mPendingWriterCount > 0 THEN unlockAndSignal(t) ELSE unlockAndBroadcast(t)
  /\ UNCHANGED <<mReaderCount, mPendingWriterCount>>

\* The last reader signals a writer; without a reader the assert at the end
\* of unlock is reached.
unlockReader(t) ==
  /\ ~mWriterHasLock
  /\ IF mReaderCount # 0
       THEN /\ mReaderCount' = mReaderCount - 1
            /\ IF mReaderCount' = 0 /\ mPendingWriterCount > 0
                 THEN unlockAndSignal(t) ELSE moves(t, "idle")
            /\ UNCHANGED asserted
       ELSE /\ asserted' = TRUE
            /\ moves(t, "idle")
            /\ UNCHANGED mReaderCount
  /\ UNCHANGED <<mWriterHasLock, mPendingWriterCount>>

unlock(t) ==
  /\ at(t, "reading") \/ at(t, "writing")
  /\ unlockWriter(t) \/ unlockReader(t)
  /\ readUnlocked' = (readUnlocked \/ at(t, "reading"))

--------------------------------------------------------------------------------
Next ==
  \/ \E t \in Readers : readlock(t)
  \/ \E t \in Writers : writelock(t)
  \/ \E t \in Thread : unlock(t)

Spec == Init /\ [][Next]_vars

--------------------------------------------------------------------------------
(* Properties. *)

PendingWriters == {t \in Thread : pc[t] \in {"writeWait", "writeWoken"}}

\* The pending count is the number of writers that wait or were woken and have
\* not entered: every path through the loop of writelock gives back what it took.
PendingCounted == mPendingWriterCount = Cardinality(PendingWriters)

\* Nobody waits for a lock that nobody will hand over: when no writer has it and
\* somebody is blocked in a condition, a woken writer is on its way to the lock,
\* whose own unlock hands it on.  It covers the choice unlock makes between
\* signal and broadcast, and a reader's unlock that releases a writer's lock.
NobodyStranded ==
  (~mWriterHasLock /\ \E t \in Thread : pc[t] \in {"readWait", "writeWait"})
     => \E w \in Thread : at(w, "writeWoken")

\* What a lock is for, among writers: at most one of them at a time, and only
\* while the flag says so; no assert fails.  It holds, with readers in the lock or
\* without, until the first of them calls unlock.
WritersExclude ==
  ~readUnlocked =>
    /\ mWriterHasLock <=> \E t \in Thread : at(t, "writing")
    /\ \A t, u \in Thread : at(t, "writing") /\ at(u, "writing") => t = u
    /\ ~asserted

\* The assert at the end of unlock, "assert(false)" after the branches of a
\* writer and of a reader: whoever calls unlock after readlock or writelock has
\* returned finds something to unlock.
UnlockFindsLock == ~asserted

================================================================================
