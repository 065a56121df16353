----------------------------- MODULE Fifo_proofs -----------------------------
(***************************************************************************)
(* Proofs about Fifo, for any finite set of threads and any ways to use    *)
(* the queue.                                                              *)
(*                                                                         *)
(* The queue uses its condition as the interface allows, so that what      *)
(* ConditionUse_proofs proves holds here.  WokenInv is the invariant that  *)
(* rules out a lost wake-up without timeouts: as long as a thread is       *)
(* blocked that nobody signalled, there are as many wake-ups under way as  *)
(* messages.  SoleInv rules it out for one consumer that uses them.        *)
(***************************************************************************)
EXTENDS Fifo, ConditionUse_proofs

Waiting == {"out", "enter", "blocked", "leave", "normalise", "drain", "relock"}
Adding == {"out", "signal", "signalGate", "release"}

\* Where a method can be in the condition, and when it holds the mutex.
CallInv ==
  \A t \in Threads :
    /\ call[t] = "idle" => at[t] = "out" /\ mtx # t
    /\ call[t] = "add" => at[t] \in Adding /\ mtx = t
    /\ call[t] \in {"getNext", "getNextMs"} =>
         at[t] \in Waiting /\ (at[t] \in {"out", "enter"} => mtx = t)
    /\ timed[t] => call[t] = "getNextMs"
    /\ at[t] = "enter" => mFifo = 0

FInv == TypeOK /\ CInv /\ CallInv /\ mSize = mFifo

\* No wait has timed out.
NoTimeout ==
  /\ ~late /\ m_gone = 0
  /\ \A t \in Threads : at[t] # "normalise" /\ (at[t] = "leave" => ret[t])

\* Without timeouts in use none does.
UntimedInv ==
  use.timed = {} => NoTimeout /\ \A t \in Threads : call[t] # "getNextMs"

\* Then m_blocked counts the blocked threads that no token is meant for.
BlockedCounted == Cardinality(In("blocked")) = m_blocked + Tokens /\ m_gone = 0

\* The threads that will look at the queue, or signal one that will.
Active ==
  {t \in Threads : \/ call[t] = "getNext" /\ at[t] \notin {"enter", "blocked"}
                   \/ call[t] = "add" /\ at[t] \in {"signal", "signalGate"}}

WokenInv ==
  use.timed = {} /\ m_blocked # 0 => mFifo <= Tokens + Cardinality(Active)

\* One thread alone calls getNext, with timeouts or without.
Sole(c) == use.consumers \subseteq {c} /\ use.timed \subseteq {c}

\* A token is in the queue of the condition, or about to be put there.
Pending == m_queue > 0 \/ \E s \in Threads : signals[s] > 0

\* What the counters mean with one consumer.  A token may be left over when it
\* times out, yet none is ever missing.
SoleFor(c) ==
  /\ \A s \in Threads : call[s] \in {"getNext", "getNextMs"} => s = c
  /\ m_waiting # 0 =>
       m_waiting = 1 /\ m_blocked = 0 /\ m_gone = 0 /\ at[c] \in {"blocked", "leave"}
  /\ m_waiting = 0 =>
       m_blocked = IF at[c] \in {"blocked", "leave"} THEN m_gone + 1 ELSE m_gone
  /\ at[c] = "blocked" /\ m_waiting # 0 => Pending
  /\ at[c] = "blocked" /\ mFifo > 0 =>
       Pending \/ \E s \in Threads : at[s] \in {"signal", "signalGate"}

SoleInv == \A c \in Threads : Sole(c) => SoleFor(c)

(***************************************************************************)
(* The queue and its condition.                                            *)
(***************************************************************************)

\* Where a thread goes in a step of the condition, and what becomes of the mutex.
LEMMA Moves ==
  ASSUME ConditionTypeOK, NEW t \in Threads, inCondition(t)
  PROVE  /\ at' \in [Threads -> Place] /\ UNCHANGED timed
         /\ \A s \in Threads : s # t => at'[s] = at[s]
         /\ \/ at[t] = "enter" /\ at'[t] = "blocked" /\ mtx' = None
            \/ at[t] = "blocked" /\ at'[t] = "leave" /\ mtx' = mtx
            \/ /\ at[t] \in {"leave", "normalise", "drain"} /\ mtx' = mtx
               /\ at'[t] \in {"normalise", "drain", "relock"}
            \/ at[t] = "relock" /\ at'[t] = "out" /\ mtx = None /\ mtx' = t
            \/ at[t] = "signal" /\ at'[t] \in {"signalGate", "release", "out"} /\ mtx' = mtx
            \/ at[t] = "signalGate" /\ at'[t] \in {"release", "out"} /\ mtx' = mtx
            \/ at[t] = "release" /\ at'[t] = "out" /\ mtx' = mtx
            \/ at[t] \in {"broadcast", "broadcastGate"}
<1> USE DEF goes, ConditionTypeOK, counters, locals
<1>1. CASE enterWait(t) \/ wake(t) \/ timeout(t) \/ relock(t)
  BY <1>1 DEF enterWait, wake, timeout, relock, Place
<1>2. CASE leaveSignalled(t)
  BY <1>2 DEF leaveSignalled, Place
<1>3. CASE leaveUnsignalled(t) \/ normalise(t) \/ takeBack(t) \/ openGate(t)
  BY <1>3 DEF leaveUnsignalled, normalise, takeBack, openGate, Place
<1>4. CASE signal(t)
  BY <1>4 DEF signal, signalMore, signalFirst, closeGate, share, Place
<1>5. CASE broadcast(t)
  BY <1>5 DEF broadcast, signalMore, signalFirst, closeGate, share, Place
<1>6. CASE releaseQueue(t)
  BY <1>6 DEF releaseQueue, Place
<1> QED
  BY <1>1, <1>2, <1>3, <1>4, <1>5, <1>6 DEF inCondition, wait, timedWait

\* Every step of the queue is one of its condition's legal uses, or leaves it alone.
LEMMA UsesCondition ==
  ASSUME TypeOK, CallInv, [Next]_vars
  PROVE  [UseNext]_conditionVars
<1>1. ASSUME NEW t \in Threads, begin(t) \/ goesOn(t)
      PROVE  caller(t) \/ inCondition(t) \/ UNCHANGED conditionVars
  <2>1. CASE add(t)
    BY <1>1, <2>1 DEF add, enters, caller, beginSignal
  <2>2. CASE clear(t)
    BY <2>2 DEF clear
  <2>3. CASE getNextBegins(t)
    <3>1. call[t] = "idle" /\ mtx = None /\ mtx' = t
          /\ UNCHANGED <<counters, m_mutex, at, locals, history>>
      BY <2>3 DEF getNextBegins, enters
    <3> QED
      BY <3>1 DEF CallInv, caller, lock
  <2>4. CASE addReturns(t) \/ take(t) \/ giveUp(t)
    <3>1. /\ mtx' = None /\ timed' = [timed EXCEPT ![t] = FALSE] /\ at[t] = "out"
          /\ UNCHANGED <<counters, m_mutex, at, ret, was_gone, signals, history>>
      BY <2>4 DEF addReturns, take, giveUp, returns, testing
    <3>2. mtx = t
      BY <2>4 DEF addReturns, take, giveUp, testing, CallInv
    <3> QED
      BY <3>1, <3>2 DEF caller, unlock
  <2>5. CASE await(t)
    <3>1. /\ mtx = t /\ goes(t, "out", "enter")
          /\ timed' = [timed EXCEPT ![t] = call[t] = "getNextMs"]
          /\ UNCHANGED <<mtx, counters, m_mutex, ret, was_gone, signals, history>>
      BY <2>5 DEF await, testing
    <3> QED
      BY <3>1 DEF caller, beginWait
  <2>6. CASE inCondition(t) /\ UNCHANGED fifoVars
    BY <2>6
  <2> QED
    BY <1>1, <2>1, <2>2, <2>3, <2>4, <2>5, <2>6 DEF begin, goesOn, getNext
<1>2. CASE Next
  BY <1>1, <1>2 DEF Next, UseNext
<1>3. CASE UNCHANGED vars
  BY <1>3 DEF vars
<1> QED
  BY <1>2, <1>3

\* The places of the methods and the mutex, after a step.
LEMMA CallStep ==
  ASSUME TypeOK, ConditionTypeOK', CallInv, mSize = mFifo, [Next]_vars
  PROVE  TypeOK' /\ CallInv' /\ mSize' = mFifo'
<1> USE ConditionAssumption, FifoAssumption DEF TypeOK, ConditionTypeOK, CallInv, Waiting, Adding
<1>1. ASSUME NEW t \in Threads, add(t)
      PROVE  TypeOK' /\ CallInv' /\ mSize' = mFifo'
  BY <1>1 DEF add, enters, goes, counters, locals
<1>2. ASSUME NEW t \in Threads, addReturns(t)
      PROVE  TypeOK' /\ CallInv' /\ mSize' = mFifo'
  BY <1>2 DEF addReturns, returns, counters
<1>3. ASSUME NEW t \in Threads, clear(t)
      PROVE  TypeOK' /\ CallInv' /\ mSize' = mFifo'
  BY <1>3 DEF clear, conditionVars, counters, locals
<1>4. ASSUME NEW t \in Threads, getNextBegins(t)
      PROVE  TypeOK' /\ CallInv' /\ mSize' = mFifo'
  BY <1>4 DEF getNextBegins, enters, counters, locals
<1>5. ASSUME NEW t \in Threads, take(t) \/ giveUp(t)
      PROVE  TypeOK' /\ CallInv' /\ mSize' = mFifo'
  BY <1>5 DEF take, giveUp, testing, returns, counters
<1>6. ASSUME NEW t \in Threads, await(t)
      PROVE  TypeOK' /\ CallInv' /\ mSize' = mFifo'
  BY <1>6 DEF await, testing, goes, fifoVars, counters
<1>7. ASSUME NEW t \in Threads, inCondition(t), UNCHANGED fifoVars
      PROVE  TypeOK' /\ CallInv' /\ mSize' = mFifo'
  <2>1. TypeOK' /\ mSize' = mFifo'
    BY <1>7 DEF fifoVars
  <2>2. CallInv'
    BY <1>7, Moves DEF fifoVars
  <2> QED
    BY <2>1, <2>2
<1>8. CASE UNCHANGED vars
  BY <1>8 DEF vars, fifoVars, conditionVars, counters, locals
<1> QED
  BY <1>1, <1>2, <1>3, <1>4, <1>5, <1>6, <1>7, <1>8 DEF Next, begin, goesOn, getNext

LEMMA FifoInit == ASSUME Init PROVE FInv /\ CountInv /\ UntimedInv /\ WokenInv
<1>1. CInv /\ CountInv
  BY CInvInit, CountInit DEF Init
<1>2. TypeOK /\ mSize = mFifo
  BY <1>1, FifoAssumption DEF Init, TypeOK, CInv
<1>3. CallInv /\ UntimedInv
  BY ConditionAssumption DEF Init, ConditionInit, CallInv, UntimedInv, NoTimeout
<1>4. WokenInv
  BY DEF Init, ConditionInit, WokenInv
<1> QED
  BY <1>1, <1>2, <1>3, <1>4 DEF FInv

LEMMA FifoStep ==
  ASSUME FInv, [Next]_vars
  PROVE  FInv' /\ (CountInv => CountInv')
<1>1. [UseNext]_conditionVars
  BY UsesCondition DEF FInv
<1>2. CInv' /\ (CountInv => CountInv')
  BY <1>1, CInvStep, CInvStutter, CountStep, CountStutter DEF FInv, UseNext
<1>3. ConditionTypeOK'
  BY <1>2 DEF CInv
<1> QED
  BY <1>2, <1>3, CallStep DEF FInv

LEMMA UntimedCounts ==
  ASSUME ConditionTypeOK, CountInv, NoTimeout
  PROVE  BlockedCounted
<1>1. Unwoken = In("blocked")
  BY DEF Unwoken, In, NoTimeout
<1>2. Tokens \in Nat /\ m_blocked \in Nat
  BY PromisedFinite, WordFacts DEF Tokens, ConditionTypeOK
<1> QED
  BY <1>1, <1>2 DEF CountInv, Counted, NoTimeout, BlockedCounted

\* In the condition a thread without a timeout leaves when it was woken.
LEMMA UntimedInCondition ==
  ASSUME CInv, CountInv, NoTimeout, NEW t \in Threads, ~timed[t], inCondition(t)
  PROVE  NoTimeout'
<1> USE DEF NoTimeout, CInv, ConditionTypeOK
<1>1. Counted
  BY DEF CountInv
<1>2. ~timeout(t) /\ ~normalise(t)
  BY DEF timeout, normalise, goes
<1>3. ~leaveUnsignalled(t)
  <2> SUFFICES ASSUME leaveUnsignalled(t) PROVE FALSE
    OBVIOUS
  <2>1. m_waiting = 0 /\ at[t] = "leave" /\ ret[t]
    BY DEF leaveUnsignalled, goes
  <2> QED
    BY <1>1, <2>1, Quiet DEF Woken
<1>4. ASSUME NEW from, NEW to \in Place \ {"normalise", "leave"}, goes(t, from, to),
             m_gone' = 0, UNCHANGED ret
      PROVE  m_gone' = 0 /\ \A s \in Threads : at'[s] # "normalise" /\ (at'[s] = "leave" => ret'[s])
  BY <1>4, GoesFacts
<1>5. ~(leaveSignalled(t) /\ ~ret[t])
  BY DEF leaveSignalled, goes
<1>6. ~late'
  BY <1>5 DEF inCondition
<1>7. CASE enterWait(t)
  BY <1>4, <1>6, <1>7 DEF enterWait, locals, Place
<1>8. CASE wake(t)
  <2>1. goes(t, "blocked", "leave") /\ ret' = [ret EXCEPT ![t] = TRUE] /\ m_gone' = m_gone
    BY <1>8 DEF wake
  <2>2. \A s \in Threads : at'[s] # "normalise" /\ (at'[s] = "leave" => ret'[s])
    BY <2>1, GoesFacts DEF Place
  <2> QED
    BY <1>6, <2>1, <2>2
<1>9. CASE leaveSignalled(t)
  <2>1. PICK to \in {"relock", "drain"} : goes(t, "leave", to)
    BY <1>9 DEF leaveSignalled
  <2>2. m_gone' = 0 /\ UNCHANGED ret
    BY <1>9, <2>1 DEF leaveSignalled, goneAfter, goes
  <2> QED
    BY <1>4, <1>6, <2>1, <2>2 DEF Place
<1>10. CASE takeBack(t)
  BY <1>6, <1>10 DEF takeBack
<1>11. CASE openGate(t) \/ relock(t)
  <2>1. PICK from \in {"drain", "relock"}, to \in {"relock", "out"} : goes(t, from, to)
    BY <1>11 DEF openGate, relock
  <2>2. m_gone' = 0 /\ UNCHANGED ret
    BY <1>11 DEF openGate, relock, counters, locals
  <2> QED
    BY <1>4, <1>6, <2>1, <2>2 DEF Place
<1>12. CASE signal(t) \/ broadcast(t)
  <2>1. PICK from \in Place, to \in {"out", "release", "signalGate", "broadcastGate"} :
          goes(t, from, to)
    BY <1>12 DEF signal, broadcast, signalMore, signalFirst, closeGate, Place
  <2>2. m_gone' = 0
    BY <1>12 DEF signal, broadcast, signalMore, signalFirst, closeGate, counters
  <2>3. UNCHANGED ret
    BY <1>12 DEF signal, broadcast, signalMore, signalFirst, closeGate, locals
  <2> QED
    BY <1>4, <1>6, <2>1, <2>2, <2>3 DEF Place
<1>13. CASE releaseQueue(t)
  BY <1>4, <1>6, <1>13 DEF releaseQueue, Place
<1> QED
  BY <1>2, <1>3, <1>7, <1>8, <1>9, <1>10, <1>11, <1>12, <1>13 DEF inCondition, wait, timedWait

\* Without timeouts in use nobody begins a wait with one.
LEMMA UntimedStep ==
  ASSUME FInv, CountInv, UntimedInv, [Next]_vars
  PROVE  UntimedInv'
<1> SUFFICES ASSUME use'.timed = {}
             PROVE  NoTimeout' /\ \A t \in Threads : call'[t] # "getNextMs"
  BY DEF UntimedInv
<1> USE DEF FInv, TypeOK, UntimedInv
<1>1. use' = use
  BY DEF Next, vars, begin, goesOn, add, clear, getNextBegins, addReturns, getNext, take, await,
     giveUp, fifoVars
<1>2. NoTimeout /\ \A t \in Threads : call[t] # "getNextMs" /\ ~timed[t]
  BY <1>1 DEF CallInv
<1>3. ASSUME NEW t \in Threads, begin(t) \/ goesOn(t)
      PROVE  NoTimeout' /\ \A s \in Threads : call'[s] # "getNextMs"
  <2>1. CASE addReturns(t) \/ take(t) \/ giveUp(t)
    BY <1>2, <2>1 DEF addReturns, take, giveUp, returns, NoTimeout, counters, history
  <2>2. CASE clear(t)
    BY <1>2, <2>2 DEF clear, conditionVars, NoTimeout, counters, locals, history
  <2>3. CASE getNextBegins(t)
    BY <1>1, <1>2, <2>3 DEF getNextBegins, enters, NoTimeout, counters, locals, history
  <2>4. CASE add(t) \/ await(t)
    <3>1. PICK to \in {"signal", "enter"} : goes(t, "out", to)
      BY <2>4 DEF add, await
    <3>2. UNCHANGED <<m_gone, ret, late>>
      BY <2>4 DEF add, await, counters, locals, history
    <3>3. \A s \in Threads : at'[s] # "normalise" /\ (at'[s] = "leave" => ret'[s])
      BY <1>2, <3>1, <3>2, GoesFacts DEF NoTimeout, Place, ConditionTypeOK
    <3>4. \A s \in Threads : call'[s] # "getNextMs"
      BY <1>2, <2>4 DEF add, enters, await, fifoVars
    <3> QED
      BY <1>2, <3>2, <3>3, <3>4 DEF NoTimeout
  <2>5. CASE inCondition(t) /\ UNCHANGED fifoVars
    <3>1. NoTimeout'
      BY <1>2, <2>5, UntimedInCondition
    <3> QED
      BY <1>2, <2>5, <3>1 DEF fifoVars
  <2> QED
    BY <1>3, <2>1, <2>2, <2>3, <2>4, <2>5 DEF begin, goesOn, getNext
<1>4. CASE UNCHANGED vars
  BY <1>2, <1>4 DEF vars, fifoVars, conditionVars, NoTimeout, counters, locals, history
<1> QED
  BY <1>3, <1>4 DEF Next

(***************************************************************************)
(* No wake-up is lost.                                                     *)
(***************************************************************************)

\* The number of active threads when one becomes active or ceases to be.
LEMMA ActiveCount ==
  ASSUME NEW t \in Threads
  PROVE  /\ Cardinality(Active) \in Nat /\ Cardinality(Active') \in Nat
         /\ t \notin Active /\ Active' = Active \cup {t}
              => Cardinality(Active') = Cardinality(Active) + 1
         /\ t \in Active /\ Active' = Active \ {t}
              => Cardinality(Active') = Cardinality(Active) - 1
<1>1. IsFiniteSet(Active) /\ IsFiniteSet(Active')
  BY FS_Subset, ConditionAssumption DEF Active
<1> QED
  BY <1>1, FS_CardinalityType, FS_AddElement, FS_RemoveElement

\* Tokens and m_blocked share the blocked threads, unless a wait times out.
LEMMA TokensBlocked ==
  ASSUME ConditionTypeOK, ConditionTypeOK', BlockedCounted, BlockedCounted', NEW t \in Threads
  PROVE  /\ Tokens \in Nat /\ Tokens' \in Nat
         /\ In("blocked")' = In("blocked") => Tokens' + m_blocked' = Tokens + m_blocked
<1>1. Cardinality(Promised) \in Nat
  BY PromisedFinite DEF ConditionTypeOK
<1>2. (Cardinality(Promised) \in Nat)'
  <2>1. (signals \in [Threads -> 0..Word-1])'
    BY DEF ConditionTypeOK
  <2> QED
    BY <2>1, PromisedFinite, PTL
<1>3. Tokens \in Nat /\ Tokens' \in Nat
  BY <1>1, <1>2 DEF Tokens, ConditionTypeOK
<1>4. ASSUME In("blocked")' = In("blocked")
      PROVE  Tokens' + m_blocked' = Tokens + m_blocked
  <2>1. m_blocked' + Tokens' = m_blocked + Tokens
    BY <1>4 DEF BlockedCounted
  <2>2. m_blocked \in Int /\ m_blocked' \in Int
    BY DEF ConditionTypeOK
  <2> QED
    BY <1>3, <2>1, <2>2 DEF Tokens
<1> QED
  BY <1>3, <1>4

\* A step of the condition leaves as many wake-ups under way as there are messages.
LEMMA WokenInCondition ==
  ASSUME FInv, FInv', BlockedCounted, BlockedCounted', NoTimeout, WokenInv,
         \A s \in Threads : call[s] # "getNextMs", use.timed = {}, m_blocked' # 0,
         NEW t \in Threads, inCondition(t), UNCHANGED fifoVars
  PROVE  mFifo' <= Tokens' + Cardinality(Active')
<1> USE DEF FInv, TypeOK, fifoVars
<1>1. /\ at' \in [Threads -> Place]
      /\ \A s \in Threads : s # t => at'[s] = at[s]
      /\ at[t] \in Waiting \/ at[t] \in Adding
  BY Moves DEF CallInv, ConditionTypeOK, Waiting, Adding
<1>2. m_blocked # 0 => mFifo <= Tokens + Cardinality(Active)
  BY DEF WokenInv
<1>3. /\ Tokens \in Nat /\ Tokens' \in Nat
      /\ In("blocked")' = In("blocked") => Tokens' + m_blocked' = Tokens + m_blocked
  BY TokensBlocked
<1>4. /\ Cardinality(Active) \in Nat /\ Cardinality(Active') \in Nat
      /\ t \notin Active /\ Active' = Active \cup {t}
           => Cardinality(Active') = Cardinality(Active) + 1
      /\ t \in Active /\ Active' = Active \ {t}
           => Cardinality(Active') = Cardinality(Active) - 1
  BY ActiveCount
<1>5. m_blocked \in Nat /\ m_blocked' \in Nat /\ mFifo \in Nat /\ mFifo' = mFifo
  BY FifoAssumption DEF ConditionTypeOK
<1>6. CASE at[t] = "enter"
  BY <1>3, <1>4, <1>5, <1>6 DEF CallInv
<1>7. CASE at[t] = "blocked"
  <2>1. wake(t)
    BY <1>7 DEF inCondition, wait, timedWait, enterWait, leaveSignalled, leaveUnsignalled,
       takeBack, openGate, relock, timeout, normalise, signal, broadcast, signalMore, signalFirst,
       closeGate, releaseQueue, goes, CallInv
  <2>2. m_queue' = m_queue - 1 /\ UNCHANGED <<m_blocked, signals>> /\ m_queue > 0
    BY <2>1 DEF wake
  <2>3. Tokens' = Tokens - 1
    <3>1. Promised' = Promised /\ Cardinality(Promised) \in Nat
      BY <2>2, PromisedStays DEF ConditionTypeOK
    <3> QED
      BY <2>2, <3>1 DEF Tokens, ConditionTypeOK
  <2>4. t \notin Active /\ Active' = Active \cup {t}
    BY <1>1, <1>7, <2>1 DEF wake, goes, Active, CallInv, Waiting, Adding, ConditionTypeOK
  <2> QED
    BY <1>2, <1>3, <1>4, <1>5, <2>2, <2>3, <2>4
<1>8. CASE at[t] \in {"leave", "normalise", "drain", "relock"}
  <2>1. In("blocked")' = In("blocked") /\ Active' = Active
    BY <1>1, <1>8, Moves DEF In, Active, CallInv, Waiting, Adding
  <2>2. m_blocked' = m_blocked
    BY <1>8 DEF NoTimeout, inCondition, wait, timedWait, enterWait, leaveSignalled, blockedAfter,
       leaveUnsignalled, wake, takeBack, openGate, relock, timeout, normalise, signal, broadcast,
       signalMore, signalFirst, closeGate, releaseQueue, goes, counters
  <2> QED
    BY <1>2, <1>3, <1>4, <1>5, <2>1, <2>2
<1>9. CASE at[t] \in {"signal", "signalGate", "release"}
  <2>1. In("blocked")' = In("blocked") /\ call[t] = "add"
    BY <1>1, <1>9, Moves DEF In, CallInv, Waiting
  <2>2. signal(t) \/ releaseQueue(t)
    BY <1>9 DEF inCondition, wait, timedWait, enterWait, leaveSignalled,
       leaveUnsignalled, wake, takeBack, openGate, relock, timeout, normalise, broadcast,
       signalMore, signalFirst, closeGate, goes
  <2>3. CASE m_blocked' = m_blocked /\ Active' = Active
    BY <1>2, <1>3, <1>4, <1>5, <2>1, <2>3
  <2>4. CASE m_blocked' < m_blocked /\ t \in Active /\ Active' = Active \ {t}
    <3>1. Tokens' >= Tokens + 1
      BY <1>3, <1>5, <2>1, <2>4 DEF Tokens
    <3> QED
      BY <1>2, <1>3, <1>4, <1>5, <2>4, <3>1
  <2>5. CASE releaseQueue(t)
    <3>1. m_blocked' = m_blocked /\ Active' = Active
      BY <1>1, <2>1, <2>5 DEF releaseQueue, goes, Active, ConditionTypeOK
    <3> QED
      BY <2>3, <3>1
  <2>6. CASE signalFirst(t, "signal", "signalGate")
    <3>1. m_blocked' = m_blocked /\ Active' = Active
      BY <1>1, <2>1, <2>6 DEF signalFirst, goes, counters, Active, ConditionTypeOK
    <3> QED
      BY <2>3, <3>1
  <2>7. CASE signalMore(t, "signal", FALSE)
    <3>1. m_blocked' = m_blocked - 1 /\ goes(t, "signal", "release")
      BY <1>5, <2>7 DEF signalMore, share
    <3>2. t \in Active /\ Active' = Active \ {t}
      BY <1>1, <2>1, <3>1 DEF goes, Active, ConditionTypeOK
    <3> QED
      BY <1>5, <2>4, <3>1, <3>2
  <2>8. CASE closeGate(t, "signalGate", FALSE)
    <3>1. m_blocked' = m_blocked - 1 /\ goes(t, "signalGate", "release")
      BY <1>5, <2>8 DEF closeGate, share, BlockedCounted
    <3>2. t \in Active /\ Active' = Active \ {t}
      BY <1>1, <2>1, <3>1 DEF goes, Active, ConditionTypeOK
    <3> QED
      BY <1>5, <2>4, <3>1, <3>2
  <2> QED
    BY <2>2, <2>5, <2>6, <2>7, <2>8 DEF signal
<1>10. at[t] # "out"
  BY DEF inCondition, wait, timedWait, enterWait, leaveSignalled, leaveUnsignalled, wake,
     takeBack, openGate, relock, timeout, normalise, signal, broadcast, signalMore, signalFirst,
     closeGate, releaseQueue, goes
<1> QED
  BY <1>1, <1>6, <1>7, <1>8, <1>9, <1>10 DEF Waiting, Adding

LEMMA WokenStep ==
  ASSUME FInv, FInv', CountInv, CountInv', UntimedInv, UntimedInv', WokenInv, [Next]_vars
  PROVE  WokenInv'
<1> SUFFICES ASSUME use'.timed = {}, m_blocked' # 0
             PROVE  mFifo' <= Tokens' + Cardinality(Active')
  BY DEF WokenInv
<1> USE DEF FInv, TypeOK
<1>1. use' = use
  BY DEF Next, vars, begin, goesOn, add, clear, getNextBegins, addReturns, getNext, take, await,
     giveUp, fifoVars
<1>2. NoTimeout /\ NoTimeout' /\ \A s \in Threads : call[s] # "getNextMs"
  BY <1>1 DEF UntimedInv
<1>9. BlockedCounted /\ BlockedCounted'
  <2>1. BlockedCounted
    BY <1>2, UntimedCounts
  <2>2. ConditionTypeOK' /\ CountInv' /\ NoTimeout' => BlockedCounted'
    BY UntimedCounts, PTL
  <2> QED
    BY <1>2, <2>1, <2>2
<1>3. mFifo \in Nat /\ mFifo' \in Nat
  BY FifoAssumption
<1>4. m_blocked # 0 => mFifo <= Tokens + Cardinality(Active)
  BY <1>1 DEF WokenInv
<1>5. ASSUME NEW t \in Threads, UNCHANGED <<m_blocked, m_queue, signals>>,
             \/ mFifo' <= mFifo /\ Active' = Active
             \/ mFifo' <= mFifo + 1 /\ t \notin Active /\ Active' = Active \cup {t}
             \/ mFifo' <= mFifo - 1 /\ t \in Active /\ Active' = Active \ {t}
             \/ mFifo' = 0
      PROVE  mFifo' <= Tokens' + Cardinality(Active')
  <2>1. Promised' = Promised /\ Cardinality(Promised) \in Nat /\ m_queue \in Nat
    BY <1>5, PromisedStays DEF ConditionTypeOK
  <2>2. m_queue' + Cardinality(Promised') = m_queue + Cardinality(Promised)
    BY <1>5, <2>1
  <2>3. Cardinality(Active) \in Nat /\ Cardinality(Active') \in Nat
    BY ActiveCount
  <2>4. CASE mFifo' <= mFifo /\ Active' = Active
    BY <1>3, <1>4, <1>5, <2>1, <2>2, <2>3, <2>4 DEF Tokens
  <2>5. CASE mFifo' <= mFifo + 1 /\ t \notin Active /\ Active' = Active \cup {t}
    <3>1. Cardinality(Active') = Cardinality(Active) + 1
      BY <2>5, ActiveCount
    <3> QED
      BY <1>3, <1>4, <1>5, <2>1, <2>2, <2>3, <2>5, <3>1 DEF Tokens
  <2>6. CASE mFifo' <= mFifo - 1 /\ t \in Active /\ Active' = Active \ {t}
    <3>1. Cardinality(Active') = Cardinality(Active) - 1
      BY <2>6, ActiveCount
    <3> QED
      BY <1>3, <1>4, <1>5, <2>1, <2>2, <2>3, <2>6, <3>1 DEF Tokens
  <2>7. CASE mFifo' = 0
    BY <2>1, <2>2, <2>3, <2>7 DEF Tokens
  <2> QED
    BY <1>5, <2>4, <2>5, <2>6, <2>7
<1>6. ASSUME NEW t \in Threads, begin(t) \/ goesOn(t)
      PROVE  mFifo' <= Tokens' + Cardinality(Active')
  <2>1. CASE add(t)
    <3>1. /\ call[t] = "idle" /\ call' = [call EXCEPT ![t] = "add"] /\ goes(t, "out", "signal")
          /\ mFifo' = mFifo + 1 /\ UNCHANGED <<m_blocked, m_queue, signals>>
      BY <2>1 DEF add, enters, counters, locals
    <3>2. t \notin Active /\ Active' = Active \cup {t}
      BY <3>1 DEF Active, goes, ConditionTypeOK
    <3> QED
      BY <1>3, <1>5, <3>1, <3>2
  <2>2. CASE addReturns(t)
    <3>1. /\ call[t] = "add" /\ at[t] = "out" /\ call' = [call EXCEPT ![t] = "idle"]
          /\ UNCHANGED <<mFifo, at, m_blocked, m_queue, signals>>
      BY <2>2 DEF addReturns, returns, counters
    <3>2. Active' = Active
      BY <3>1 DEF Active
    <3> QED
      BY <1>3, <1>5, <3>1, <3>2
  <2>3. CASE clear(t)
    BY <1>5, <2>3 DEF clear, conditionVars, counters, locals
  <2>4. CASE getNextBegins(t)
    <3>1. /\ call[t] = "idle" /\ at[t] = "out" /\ call' = [call EXCEPT ![t] = "getNext"]
          /\ UNCHANGED <<mFifo, at, m_blocked, m_queue, signals>>
      BY <1>1, <2>4 DEF getNextBegins, enters, counters, locals, CallInv
    <3>2. t \notin Active /\ Active' = Active \cup {t}
      BY <3>1 DEF Active
    <3>3. mFifo' <= mFifo + 1
      BY <1>3, <3>1
    <3> QED
      BY <1>5, <3>1, <3>2, <3>3
  <2>5. CASE take(t)
    <3>1. /\ call[t] = "getNext" /\ at[t] = "out" /\ call' = [call EXCEPT ![t] = "idle"]
          /\ mFifo' = mFifo - 1 /\ UNCHANGED <<at, m_blocked, m_queue, signals>>
      BY <1>2, <2>5 DEF take, testing, returns, counters
    <3>2. t \in Active /\ Active' = Active \ {t}
      BY <3>1 DEF Active
    <3>3. mFifo' <= mFifo - 1
      BY <1>3, <3>1
    <3> QED
      BY <1>5, <3>1, <3>2, <3>3
  <2>6. CASE await(t)
    <3>1. mFifo' = 0 /\ UNCHANGED <<m_blocked, m_queue, signals>>
      BY <2>6 DEF await, fifoVars, counters
    <3> QED
      BY <1>5, <3>1
  <2>7. CASE giveUp(t)
    BY <1>2, <2>7 DEF giveUp
  <2>8. CASE inCondition(t) /\ UNCHANGED fifoVars
    BY <1>1, <1>2, <1>9, <2>8, WokenInCondition
  <2> QED
    BY <1>6, <2>1, <2>2, <2>3, <2>4, <2>5, <2>6, <2>7, <2>8 DEF begin, goesOn, getNext
<1>7. CASE UNCHANGED vars
  <2>1. UNCHANGED <<mFifo, m_blocked, Tokens, Active>>
    BY <1>7 DEF vars, fifoVars, conditionVars, counters, locals, Tokens, Promised, Active
  <2> QED
    BY <1>4, <2>1 DEF Tokens
<1> QED
  BY <1>6, <1>7 DEF Next

(***************************************************************************)
(* One consumer, with timeouts.                                            *)
(***************************************************************************)

LEMMA SoleInit == ASSUME Init PROVE SoleInv
BY DEF Init, ConditionInit, SoleInv, SoleFor

\* A step of the condition by the consumer.
LEMMA ConsumerInCondition ==
  ASSUME FInv, FInv', SoleInv, NEW c \in Threads, Sole(c),
         call[c] \in {"getNext", "getNextMs"}, inCondition(c), UNCHANGED fifoVars
  PROVE  SoleFor(c)'
<1>1. SoleFor(c)
  BY DEF SoleInv
<1> SUFFICES
      /\ m_waiting' # 0 =>
           m_waiting' = 1 /\ m_blocked' = 0 /\ m_gone' = 0 /\ at'[c] \in {"blocked", "leave"}
      /\ m_waiting' = 0 =>
           m_blocked' = IF at'[c] \in {"blocked", "leave"} THEN m_gone' + 1 ELSE m_gone'
      /\ at'[c] = "blocked" => m_waiting' = 0 /\ mFifo' = 0
  BY <1>1 DEF SoleFor, fifoVars
<1> USE DEF FInv, CInv, TypeOK, ConditionTypeOK, fifoVars, goes, counters, locals
<1> USE DEF SoleFor
<1>2. CASE enterWait(c)
  <2>1. m_waiting = 0 /\ m_gone + 1 < Word /\ m_gone \in Nat
    BY <1>2, ConditionAssumption DEF enterWait, GateInv, BoundInv, GoneLimit
  <2>2. m_blocked = m_gone /\ m_blocked' = m_gone + 1
    BY <1>1, <1>2, <2>1, ConditionAssumption DEF enterWait
  <2> QED
    BY <1>2, <2>1, <2>2 DEF enterWait, CallInv
<1>3. CASE wake(c) \/ timeout(c)
  BY <1>1, <1>3 DEF wake, timeout
<1>4. CASE leaveSignalled(c)
  BY <1>1, <1>4 DEF leaveSignalled, blockedAfter, goneAfter
<1>5. CASE leaveUnsignalled(c)
  BY <1>1, <1>5 DEF leaveUnsignalled
<1>6. CASE normalise(c)
  <2>1. m_waiting = 0 /\ m_blocked = m_gone
    BY <1>1, <1>6 DEF normalise
  <2> QED
    BY <1>6, <2>1, ConditionAssumption DEF normalise
<1>7. CASE takeBack(c) \/ openGate(c) \/ relock(c)
  BY <1>1, <1>7 DEF takeBack, openGate, relock
<1> QED
  BY <1>2, <1>3, <1>4, <1>5, <1>6, <1>7 DEF inCondition, wait, timedWait, signal, broadcast,
     signalMore, signalFirst, closeGate, releaseQueue, CallInv, Waiting

\* A step of the condition by a producer: with the consumer blocked it ends in a
\* token for it.
LEMMA ProducerInCondition ==
  ASSUME FInv, FInv', SoleInv, NEW c \in Threads, Sole(c),
         NEW t \in Threads, call[t] = "add", inCondition(t), UNCHANGED fifoVars
  PROVE  SoleFor(c)'
<1> USE DEF FInv, CInv, TypeOK, ConditionTypeOK, fifoVars, goes, counters, locals
<1>1. SoleFor(c) /\ (c # t => at'[c] = at[c])
  BY Moves DEF SoleInv
<1> USE <1>1 DEF SoleFor
<1>2. at[t] \in {"out", "signal", "signalGate", "release"}
  BY DEF CallInv, Adding
<1>3. CASE signalMore(t, "signal", FALSE)
  <2>1. m_waiting' = m_waiting /\ UNCHANGED <<m_blocked, m_gone, m_queue>>
        /\ signals' = [signals EXCEPT ![t] = 0] /\ at' = [at EXCEPT ![t] = "out"]
        /\ at[t] = "signal" /\ m_waiting # 0
    BY <1>1, <1>3, ConditionAssumption DEF signalMore
  <2>2. Pending => Pending'
    <3>1. signals[t] = 0
      BY <2>1 DEF ReleaseInv
    <3> QED
      BY <2>1, <3>1 DEF Pending
  <2> QED
    BY <1>1, <2>1, <2>2
<1>4. CASE signalFirst(t, "signal", "signalGate")
  BY <1>1, <1>4 DEF signalFirst, Pending
<1>5. CASE closeGate(t, "signalGate", FALSE)
  <2>1. m_waiting = 0
    BY <1>5 DEF closeGate, GateInv
  <2>2. CASE at[c] \in {"blocked", "leave"}
    <3>1. m_blocked' = 0 /\ m_gone' = 0 /\ m_waiting' = 1 /\ signals' = [signals EXCEPT ![t] = 1]
          /\ at' = [at EXCEPT ![t] = "release"] /\ at[t] = "signalGate"
      BY <1>1, <1>5, <2>1, <2>2 DEF closeGate, share
    <3>2. Pending'
      BY <3>1 DEF Pending
    <3> QED
      BY <2>2, <3>1, <3>2
  <2>3. CASE at[c] \notin {"blocked", "leave"}
    <3>1. m_blocked = m_gone
      BY <1>1, <2>1, <2>3
    <3>2. at' = [at EXCEPT ![t] = "out"] /\ UNCHANGED <<m_blocked, m_gone, m_waiting>>
      <4>1. ~(m_blocked > m_gone)
        BY <3>1
      <4> QED
        BY <1>5, <4>1, ZenonT(30) DEF closeGate
    <3> QED
      BY <2>1, <2>3, <3>1, <3>2
  <2> QED
    BY <2>2, <2>3
<1>6. CASE releaseQueue(t)
  <2>1. Pending => Pending'
    <3>1. CASE m_queue > 0
      BY <1>6, <3>1 DEF releaseQueue, Pending
    <3>2. CASE signals[t] > 0
      BY <1>6, <3>2 DEF releaseQueue, Pending
    <3>3. ASSUME NEW s \in Threads, s # t, signals[s] > 0
          PROVE  Pending'
      BY <1>6, <3>3 DEF releaseQueue, Pending
    <3> QED
      BY <3>1, <3>2, <3>3 DEF Pending
  <2> QED
    BY <1>1, <1>6, <2>1 DEF releaseQueue
<1> QED
  BY <1>2, <1>3, <1>4, <1>5, <1>6 DEF inCondition, wait, timedWait, enterWait, wake, timeout,
     leaveSignalled, leaveUnsignalled, normalise, takeBack, openGate, relock, signal, broadcast,
     signalMore, signalFirst, closeGate

LEMMA SoleStep ==
  ASSUME FInv, FInv', SoleInv, [Next]_vars
  PROVE  SoleInv'
<1> SUFFICES ASSUME NEW c \in Threads, Sole(c)'
             PROVE  SoleFor(c)'
  BY DEF SoleInv
<1> USE DEF FInv, TypeOK
<1>1. use' = use /\ Sole(c)
  BY DEF Next, vars, begin, goesOn, add, clear, getNextBegins, addReturns, getNext, take, await,
     giveUp, fifoVars, Sole
<1>2. SoleFor(c)
  BY <1>1 DEF SoleInv
<1>3. ASSUME UNCHANGED <<m_blocked, m_gone, m_waiting, m_queue, signals, at>>,
             mFifo' > 0 => mFifo > 0,
             \A s \in Threads : call'[s] \in {"getNext", "getNextMs"} => s = c
      PROVE  SoleFor(c)'
  BY <1>2, <1>3 DEF SoleFor, Pending
<1>4. ASSUME NEW t \in Threads, begin(t) \/ goesOn(t)
      PROVE  SoleFor(c)'
  <2>1. CASE add(t)
    <3>1. /\ at[t] = "out" /\ at' = [at EXCEPT ![t] = "signal"]
          /\ call' = [call EXCEPT ![t] = "add"]
          /\ UNCHANGED <<m_blocked, m_gone, m_waiting, m_queue, signals>>
      BY <2>1 DEF add, enters, goes, counters, locals
    <3> QED
      BY <1>2, <3>1 DEF SoleFor, Pending, ConditionTypeOK
  <2>2. CASE addReturns(t) \/ take(t) \/ giveUp(t)
    <3>1. /\ call' = [call EXCEPT ![t] = "idle"]
          /\ UNCHANGED <<m_blocked, m_gone, m_waiting, m_queue, signals, at>>
      BY <2>2 DEF addReturns, take, giveUp, returns, counters
    <3>2. mFifo' > 0 => mFifo > 0
      BY <2>2, FifoAssumption DEF addReturns, take, giveUp
    <3> QED
      BY <1>2, <1>3, <3>1, <3>2 DEF SoleFor
  <2>3. CASE clear(t)
    BY <1>2, <1>3, <2>3 DEF clear, conditionVars, counters, locals, SoleFor
  <2>4. CASE getNextBegins(t)
    <3>1. t = c /\ UNCHANGED <<mFifo, m_blocked, m_gone, m_waiting, m_queue, signals, at>>
      BY <1>1, <2>4 DEF getNextBegins, Sole, counters, locals
    <3>2. \A s \in Threads : s # t => call'[s] = call[s]
      BY <2>4 DEF getNextBegins, enters
    <3> QED
      BY <1>2, <1>3, <3>1, <3>2 DEF SoleFor
  <2>5. CASE await(t)
    <3>1. /\ at[t] = "out" /\ at' = [at EXCEPT ![t] = "enter"]
          /\ UNCHANGED <<call, mFifo, m_blocked, m_gone, m_waiting, m_queue, signals>>
      BY <2>5 DEF await, goes, counters, fifoVars
    <3> QED
      BY <1>2, <3>1 DEF SoleFor, Pending, ConditionTypeOK
  <2>6. CASE inCondition(t) /\ UNCHANGED fifoVars
    <3>1. call[t] \in {"getNext", "getNextMs"} => t = c
      BY <1>2 DEF SoleFor
    <3>2. at[t] # "out"
      BY <2>6, Moves
    <3>3. call[t] \in {"add", "getNext", "getNextMs"}
      BY <3>2 DEF CallInv
    <3> QED
      BY <1>1, <2>6, <3>1, <3>3, ConsumerInCondition, ProducerInCondition
  <2> QED
    BY <1>4, <2>1, <2>2, <2>3, <2>4, <2>5, <2>6 DEF begin, goesOn, getNext
<1>5. CASE UNCHANGED vars
  BY <1>2, <1>3, <1>5 DEF vars, fifoVars, conditionVars, counters, locals, SoleFor
<1> QED
  BY <1>4, <1>5 DEF Next

(***************************************************************************)
(* Theorems.                                                               *)
(***************************************************************************)

QueueInv == FInv /\ CountInv /\ UntimedInv /\ WokenInv /\ SoleInv

\* The inductive invariants hold.
THEOREM Invariants == Spec => []QueueInv
<1>1. Init => QueueInv
  BY FifoInit, SoleInit DEF QueueInv
<1>2. QueueInv /\ [Next]_vars => QueueInv'
  <2> SUFFICES ASSUME QueueInv, [Next]_vars
               PROVE  QueueInv'
    OBVIOUS
  <2>1. FInv' /\ CountInv' /\ UntimedInv'
    BY FifoStep, UntimedStep DEF QueueInv
  <2>2. WokenInv' /\ SoleInv'
    BY <2>1, WokenStep, SoleStep DEF QueueInv
  <2> QED
    BY <2>1, <2>2 DEF QueueInv
<1> QED
  BY <1>1, <1>2, PTL DEF Spec

\* The queue and its condition keep their types; no message is taken from an
\* empty queue, whoever was woken for it.
THEOREM TypeCorrect == Spec => []TypeOK
<1>1. QueueInv => TypeOK
  BY DEF QueueInv, FInv
<1> QED
  BY <1>1, Invariants, PTL

\* The queue uses its condition only as the interface allows: it implements
\* the condition under every legal use.
THEOREM ConditionUsed == Spec => UseSpec
<1>1. QueueInv /\ [Next]_vars => [UseNext]_conditionVars
  BY UsesCondition DEF QueueInv, FInv
<1>2. Init => ConditionInit
  BY DEF Init
<1> QED
  BY <1>1, <1>2, Invariants, PTL DEF Spec, UseSpec

\* "It will wait if no messages are available": without timeouts in use, for any
\* number of producers and consumers, or with one consumer, nobody is left waiting
\* beside a message with nothing under way that would wake it.  With a timeout
\* among several consumers it is not so (README, findings).
THEOREM StrandedCorrect ==
  Spec => []((use.timed = {} \/ \E c \in Threads : Sole(c)) => NobodyStranded)
<1>1. ASSUME FInv, CountInv, UntimedInv, WokenInv, use.timed = {}
      PROVE  NobodyStranded
  <2> USE DEF FInv, TypeOK
  <2> SUFFICES ASSUME \A s \in Threads : call[s] = "idle" \/ (at[s] = "blocked" /\ m_queue = 0),
                      mFifo > 0, NEW t \in Threads, call[t] = "getNext"
               PROVE  FALSE
    BY DEF NobodyStranded
  <2>1. BlockedCounted
    BY <1>1, UntimedCounts DEF UntimedInv
  <2>2. Active = {}
    BY <1>1 DEF Active, CallInv, Adding
  <2>3. m_queue = 0 /\ Promised = {}
    <3>1. \A s \in Threads : signals[s] = 0
      BY <1>1 DEF CInv, ReleaseInv, CallInv
    <3> QED
      BY <3>1 DEF Promised
  <2>4. Tokens = 0 /\ Cardinality(Active) = 0
    BY <2>2, <2>3, FS_EmptySet DEF Tokens
  <2>5. Cardinality(In("blocked")) # 0
    <3>1. t \in In("blocked") /\ IsFiniteSet(In("blocked"))
      BY FS_Subset, ConditionAssumption DEF In
    <3> QED
      BY <3>1, FS_EmptySet
  <2>6. m_blocked # 0
    BY <2>1, <2>4, <2>5 DEF BlockedCounted
  <2> QED
    BY <1>1, <2>4, <2>6, FifoAssumption DEF WokenInv
<1>2. ASSUME FInv, SoleInv, NEW c \in Threads, Sole(c)
      PROVE  NobodyStranded
  <2> USE DEF FInv, TypeOK
  <2> SUFFICES ASSUME \A s \in Threads : call[s] = "idle" \/ (at[s] = "blocked" /\ m_queue = 0),
                      mFifo > 0, NEW t \in Threads, call[t] = "getNext"
               PROVE  FALSE
    BY DEF NobodyStranded
  <2>1. SoleFor(c) /\ t = c /\ at[c] = "blocked" /\ m_queue = 0
    BY <1>2 DEF SoleInv, SoleFor
  <2>2. \A s \in Threads : signals[s] = 0 /\ at[s] \notin {"signal", "signalGate"}
    BY <1>2 DEF CInv, ReleaseInv, CallInv
  <2> QED
    BY <2>1, <2>2 DEF SoleFor, Pending
<1>3. QueueInv => ((use.timed = {} \/ \E c \in Threads : Sole(c)) => NobodyStranded)
  BY <1>1, <1>2 DEF QueueInv
<1> QED
  BY <1>3, Invariants, PTL
================================================================================
