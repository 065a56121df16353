------------------------- MODULE ConditionUse_proofs -------------------------
(***************************************************************************)
(* Proofs about Condition under every legal use, for any finite set of     *)
(* threads and any width of the counters that can count them.              *)
(*                                                                         *)
(* CInv is the inductive invariant of the gate and of the counters.  It    *)
(* holds with timeouts, when the counters may be wrong: an arithmetic      *)
(* operation that leaves 0..Word-1 needs a sum that is too large, and      *)
(* while the gate is closed that sum only shrinks.  OpenInv says that      *)
(* a closed gate can be opened again, CountInv what the counters mean as   *)
(* long as no wait that timed out has left during a signal.                *)
(***************************************************************************)
EXTENDS ConditionUse, FiniteSetTheorems, TLAPS

\* Places with m_mutex held while the gate is awaited.
Holding == {"normalise", "signalGate", "broadcastGate"}

MutexHeld == \A t \in Threads : at[t] \in Holding <=> m_mutex = t

\* When the gate is closed, with the last thread to leave named.
GateInv ==
  /\ m_gate = 0 <=> m_waiting # 0 \/ \E t \in Threads : at[t] = "drain"
  /\ \A s, t \in Threads : at[s] = "drain" /\ at[t] = "drain" => s = t
  /\ \A t \in Threads : at[t] = "drain" => m_waiting = 0

\* While the gate is closed the counters share what m_blocked was when it was
\* closed; while it is open m_gone is settled in time.
BoundInv ==
  /\ m_waiting # 0 => /\ m_waiting + m_blocked + m_gone < Word
                      /\ m_gone # 0 => m_blocked = 0
  /\ m_waiting = 0 => /\ m_gone <= GoneLimit
                      /\ m_gone = GoneLimit => \E t \in Threads : at[t] = "normalise"

\* Only a thread about to release tokens has some.
ReleaseInv == \A t \in Threads : at[t] # "release" => signals[t] = 0

CInv == ConditionTypeOK /\ MutexHeld /\ GateInv /\ BoundInv /\ ReleaseInv

\* A signal under way can come to its end: nobody keeps m_mutex meanwhile, and those
\* m_waiting counts can be woken.  m_blocked counts threads that wait; only what
\* normalise makes of it after a wrap does not.
OpenInv ==
  /\ \A t \in Threads : at[t] \in Holding => m_waiting = 0
  /\ m_waiting # 0 => m_waiting <= Tokens + Cardinality(In("leave"))
  /\ ~wrapped => m_waiting + m_blocked <=
                   Cardinality(In("blocked")) + Cardinality(In("leave"))
                     + (IF m_waiting = 0 THEN m_gone ELSE 0)

\* What the counters mean, and that there is nothing to take back.
Counted ==
  /\ m_waiting = Tokens + Cardinality(Woken)
  /\ Cardinality(Unwoken) = (m_blocked - m_gone) + Tokens
  /\ m_waiting # 0 => m_gone = 0

Drained == \A t \in Threads : at[t] = "drain" => was_gone[t] = 0

\* All holds until a wait that timed out leaves during a signal.
CountInv == ~late => Counted /\ Drained /\ ~wrapped

(***************************************************************************)
(* Helpers.                                                                *)
(***************************************************************************)

\* What the width of the counters comes to.
LEMMA WordFacts ==
  /\ Word \in Nat /\ Word > 2
  /\ GoneLimit \in Nat /\ 0 < GoneLimit /\ GoneLimit < Word
BY ConditionAssumption DEF GoneLimit

\* A thread that goes from one place to another leaves the others where they are.
LEMMA GoesFacts ==
  ASSUME at \in [Threads -> Place], NEW t \in Threads, NEW from, NEW to \in Place,
         goes(t, from, to)
  PROVE  /\ at' \in [Threads -> Place]
         /\ at[t] = from /\ at'[t] = to
         /\ \A s \in Threads : s # t => at'[s] = at[s]
BY DEF goes

\* The promised tokens of one thread are counted by its signals.
LEMMA PromisedCount ==
  ASSUME signals \in [Threads -> 0..Word-1], NEW t \in Threads, NEW n \in 0..Word-1,
         signals' = [signals EXCEPT ![t] = n]
  PROVE  /\ Cardinality(Promised) \in Nat /\ signals[t] <= Cardinality(Promised)
         /\ Cardinality(Promised') = Cardinality(Promised) - signals[t] + n
<1> DEFINE own(k) == {t} \X (1..k)
           others == UNION {{s} \X (1..signals[s]) : s \in Threads \ {t}}
<1>1. signals[t] \in Nat /\ n \in Nat
  BY WordFacts
<1>2. ASSUME NEW k \in Nat
      PROVE  IsFiniteSet(own(k)) /\ Cardinality(own(k)) = k
  <2>1. IsFiniteSet(1..k) /\ Cardinality(1..k) = k
    <3>1. 1 \in Int /\ k \in Int
      OBVIOUS
    <3>2. IsFiniteSet(1..k) /\ Cardinality(1..k) = IF 1 > k THEN 0 ELSE k - 1 + 1
      BY <3>1, FS_Interval, Zenon
    <3> QED
      BY <3>2
  <2>2. IsFiniteSet({t}) /\ Cardinality({t}) = 1
    BY FS_Singleton
  <2>3. IsFiniteSet(own(k)) /\ Cardinality(own(k)) = Cardinality({t}) * Cardinality(1..k)
    BY <2>1, <2>2, FS_Product
  <2> QED
    BY <2>1, <2>2, <2>3
<1>3. Promised = others \cup own(signals[t]) /\ others \cap own(signals[t]) = {}
  BY DEF Promised
<1>4. Promised' = others \cup own(n) /\ others \cap own(n) = {}
  BY DEF Promised
<1>5. IsFiniteSet(others)
  <2>1. others \subseteq Threads \X (0..Word-1)
    BY WordFacts
  <2>2. IsFiniteSet(0..Word-1)
    BY FS_Interval, WordFacts
  <2>3. IsFiniteSet(Threads \X (0..Word-1))
    BY <2>2, FS_Product, ConditionAssumption
  <2> QED
    BY <2>1, <2>3, FS_Subset
<1>6. Cardinality(others) \in Nat
  BY <1>5, FS_CardinalityType
<1> HIDE DEF own, others
<1>7. ASSUME NEW k \in Nat, others \cap own(k) = {}
      PROVE  Cardinality(others \cup own(k)) = Cardinality(others) + k
  <2>1. Cardinality(others \cup own(k))
          = Cardinality(others) + Cardinality(own(k)) - Cardinality(others \cap own(k))
    BY <1>2, <1>5, FS_Union
  <2>2. Cardinality(others \cap own(k)) = 0
    BY <1>7, FS_EmptySet
  <2> QED
    BY <1>2, <1>6, <2>1, <2>2
<1> QED
  BY <1>1, <1>3, <1>4, <1>6, <1>7

LEMMA PromisedFinite ==
  ASSUME signals \in [Threads -> 0..Word-1]
  PROVE  IsFiniteSet(Promised) /\ Cardinality(Promised) \in Nat
<1>1. Promised \subseteq Threads \X (0..Word-1)
  BY WordFacts DEF Promised
<1>2. IsFiniteSet(0..Word-1)
  BY FS_Interval, WordFacts
<1>3. IsFiniteSet(Threads \X (0..Word-1))
  BY <1>2, FS_Product, ConditionAssumption
<1> QED
  BY <1>1, <1>3, FS_Subset, FS_CardinalityType

LEMMA PromisedStays ==
  ASSUME signals \in [Threads -> 0..Word-1], NEW t \in Threads, UNCHANGED signals
  PROVE  Promised' = Promised /\ Cardinality(Promised) \in Nat
BY PromisedFinite DEF Promised

(***************************************************************************)
(* The gate and the bounds of the counters, step by step.                  *)
(***************************************************************************)

\* The parts of CInv when only places change, none of them one CInv is about.
LEMMA CInvElsewhere ==
  ASSUME CInv, NEW t \in Threads, NEW from, NEW to,
         from \notin Holding \cup {"drain", "release"}, to \in Place \ (Holding \cup {"drain"}),
         goes(t, from, to),
         ConditionTypeOK',
         UNCHANGED <<m_gate, m_mutex, m_blocked, m_gone, m_waiting>>,
         \A s \in Threads : s # t => signals'[s] = signals[s],
         to # "release" => signals'[t] = signals[t]
  PROVE  CInv'
<1> USE GoesFacts DEF CInv, ConditionTypeOK
<1>1. MutexHeld'
  BY DEF MutexHeld, Holding
<1>2. GateInv'
  BY DEF GateInv
<1>3. BoundInv'
  BY DEF BoundInv, GoneLimit, Holding
<1>4. ReleaseInv'
  BY DEF ReleaseInv
<1> QED
  BY <1>1, <1>2, <1>3, <1>4

LEMMA CInvCaller ==
  ASSUME CInv, NEW t \in Threads, caller(t)
  PROVE  CInv'
<1>1. ConditionTypeOK
  BY DEF CInv
<1>2. CASE lock(t) \/ unlock(t)
  <2>1. /\ mtx' \in {None, t} /\ timed' \in [Threads -> BOOLEAN]
        /\ UNCHANGED <<m_gate, m_queue, m_mutex, m_blocked, m_gone, m_waiting, at, ret, was_gone,
                       signals, history>>
    BY <1>1, <1>2 DEF lock, unlock, counters, locals, ConditionTypeOK
  <2>2. ConditionTypeOK'
    BY <1>1, <2>1 DEF ConditionTypeOK, history
  <2>3. MutexHeld' /\ GateInv'
    BY <2>1 DEF CInv, MutexHeld, GateInv
  <2>4. BoundInv' /\ ReleaseInv'
    BY <2>1 DEF CInv, BoundInv, ReleaseInv, GoneLimit
  <2> QED
    BY <2>2, <2>3, <2>4 DEF CInv
<1>3. ASSUME NEW to \in {"enter", "signal", "broadcast"}, goes(t, "out", to),
             mtx' \in {mtx, t}, timed' \in [Threads -> BOOLEAN],
             UNCHANGED <<counters, m_mutex, ret, was_gone, signals, history>>
      PROVE  CInv'
  <2>1. at' \in [Threads -> Place]
    BY <1>1, <1>3, GoesFacts DEF ConditionTypeOK, Place
  <2>2. ConditionTypeOK'
    BY <1>1, <1>3, <2>1 DEF ConditionTypeOK, counters, history
  <2> QED
    BY <1>3, <2>2, CInvElsewhere DEF Holding, Place, counters
<1>4. CASE beginWait(t)
  BY <1>1, <1>3, <1>4 DEF beginWait, ConditionTypeOK
<1>5. CASE beginSignal(t)
  BY <1>1, <1>3, <1>5 DEF beginSignal, ConditionTypeOK, locals
<1> QED
  BY <1>2, <1>4, <1>5 DEF caller

LEMMA CInvWait ==
  ASSUME CInv, NEW t \in Threads, late' \in BOOLEAN, wrapped' \in BOOLEAN,
         enterWait(t) \/ wake(t) \/ timeout(t) \/ relock(t)
  PROVE  CInv'
<1> USE WordFacts DEF CInv
<1>1. CASE enterWait(t)
  <2>1. ConditionTypeOK'
    BY <1>1, GoesFacts DEF enterWait, ConditionTypeOK, Place, locals
  <2>2. m_waiting = 0
    BY <1>1 DEF enterWait, GateInv
  <2>3. MutexHeld' /\ GateInv' /\ ReleaseInv'
    BY <1>1, GoesFacts DEF enterWait, ConditionTypeOK, Place, locals, MutexHeld, Holding,
       GateInv, ReleaseInv
  <2>4. BoundInv'
    BY <1>1, <2>2, GoesFacts DEF enterWait, ConditionTypeOK, Place, BoundInv, GoneLimit
  <2> QED
    BY <2>1, <2>3, <2>4
<1>2. ASSUME NEW from \in {"blocked", "relock"}, NEW to \in {"leave", "out"},
             goes(t, from, to), mtx' \in {mtx, t}, m_queue' \in Nat, ret' \in [Threads -> BOOLEAN],
             UNCHANGED <<m_gate, m_blocked, m_gone, m_waiting, m_mutex, timed, was_gone, signals>>
      PROVE  CInv'
  <2>1. at' \in [Threads -> Place]
    BY <1>2, GoesFacts DEF ConditionTypeOK, Place
  <2>2. ConditionTypeOK'
    BY <1>2, <2>1 DEF ConditionTypeOK
  <2> QED
    BY <1>2, <2>2, CInvElsewhere DEF Holding, Place
<1>3. CASE wake(t)
  BY <1>2, <1>3 DEF wake, ConditionTypeOK
<1>4. CASE timeout(t)
  BY <1>2, <1>4 DEF timeout, ConditionTypeOK, counters
<1>5. CASE relock(t)
  BY <1>2, <1>5 DEF relock, ConditionTypeOK, counters, locals
<1> QED
  BY <1>1, <1>3, <1>4, <1>5

\* What a thread that leaves under a signal makes of the counters.
LEMMA LeaveCounts ==
  ASSUME CInv, NEW t \in Threads, m_waiting # 0
  PROVE  /\ blockedAfter(t) \in 0..m_blocked /\ goneAfter(t) \in 0..Word-1
         /\ m_waiting - 1 + blockedAfter(t) + goneAfter(t) < Word
         /\ goneAfter(t) # 0 => blockedAfter(t) = 0
BY WordFacts DEF CInv, ConditionTypeOK, BoundInv, blockedAfter, goneAfter

LEMMA CInvLeaveSignalled ==
  ASSUME CInv, NEW t \in Threads, late' \in BOOLEAN, wrapped' \in BOOLEAN, leaveSignalled(t)
  PROVE  CInv'
<1> USE WordFacts, LeaveCounts DEF CInv
<1>1. /\ m_waiting # 0 /\ m_gate = 0 /\ m_mutex = None
      /\ m_waiting' = m_waiting - 1 /\ m_blocked' = blockedAfter(t)
      /\ \A s \in Threads : at[s] # "drain"
  BY DEF GateInv, ConditionTypeOK, leaveSignalled
<1>2. CASE m_waiting' # 0
  <2>1. /\ goes(t, "leave", "relock") /\ m_gone' = goneAfter(t)
        /\ UNCHANGED <<mtx, m_queue, timed, ret, m_gate, m_mutex, was_gone, signals>>
    BY <1>2 DEF leaveSignalled
  <2>2. ConditionTypeOK'
    BY <1>1, <2>1, GoesFacts DEF ConditionTypeOK, Place
  <2>3. MutexHeld' /\ ReleaseInv' /\ GateInv'
    <3>1. MutexHeld'
      BY <1>1, <2>1, GoesFacts DEF ConditionTypeOK, Place, MutexHeld, Holding
    <3>2. ReleaseInv'
      BY <2>1, GoesFacts DEF ConditionTypeOK, Place, ReleaseInv
    <3>3. GateInv'
      BY <1>1, <1>2, <2>1, GoesFacts DEF ConditionTypeOK, Place, GateInv
    <3> QED
      BY <3>1, <3>2, <3>3
  <2>4. BoundInv'
    BY <1>1, <1>2, <2>1 DEF BoundInv, ConditionTypeOK
  <2> QED
    BY <2>2, <2>3, <2>4
<1>3. CASE m_waiting' = 0 /\ m_blocked' # 0
  <2>1. /\ goes(t, "leave", "relock") /\ m_gone' = goneAfter(t) /\ m_gate' = m_gate + 1
        /\ UNCHANGED <<mtx, m_queue, timed, ret, m_mutex, was_gone, signals>>
    BY <1>3 DEF leaveSignalled
  <2>2. ConditionTypeOK'
    BY <1>1, <2>1, GoesFacts DEF ConditionTypeOK, Place
  <2>3. MutexHeld' /\ ReleaseInv' /\ GateInv'
    <3>1. MutexHeld'
      BY <1>1, <2>1, GoesFacts DEF ConditionTypeOK, Place, MutexHeld, Holding
    <3>2. ReleaseInv'
      BY <2>1, GoesFacts DEF ConditionTypeOK, Place, ReleaseInv
    <3>3. GateInv'
      BY <1>1, <1>3, <2>1, GoesFacts DEF ConditionTypeOK, Place, GateInv
    <3> QED
      BY <3>1, <3>2, <3>3
  <2>4. BoundInv'
    BY <1>1, <1>3, <2>1 DEF BoundInv, ConditionTypeOK, GoneLimit
  <2> QED
    BY <2>2, <2>3, <2>4
<1>4. CASE m_waiting' = 0 /\ m_blocked' = 0
  <2>1. /\ goes(t, "leave", "drain") /\ m_gone' = 0
        /\ was_gone' = [was_gone EXCEPT ![t] = m_gone]
        /\ UNCHANGED <<mtx, m_queue, timed, ret, m_gate, m_mutex, signals>>
    BY <1>4 DEF leaveSignalled
  <2>2. ConditionTypeOK'
    BY <1>1, <2>1, GoesFacts DEF ConditionTypeOK, Place
  <2>3. MutexHeld' /\ ReleaseInv' /\ GateInv'
    <3>1. MutexHeld'
      BY <1>1, <2>1, GoesFacts DEF ConditionTypeOK, Place, MutexHeld, Holding
    <3>2. ReleaseInv'
      BY <2>1, GoesFacts DEF ConditionTypeOK, Place, ReleaseInv
    <3>3. GateInv'
      BY <1>1, <1>4, <2>1, GoesFacts DEF ConditionTypeOK, Place, GateInv
    <3> QED
      BY <3>1, <3>2, <3>3
  <2>4. BoundInv'
    BY <1>1, <1>4, <2>1 DEF BoundInv, ConditionTypeOK, GoneLimit
  <2> QED
    BY <2>2, <2>3, <2>4
<1> QED
  BY <1>2, <1>3, <1>4

\* No signal is under way: m_gone grows, up to its limit.
LEMMA CInvLeaveUnsignalled ==
  ASSUME CInv, NEW t \in Threads, late' \in BOOLEAN, wrapped' \in BOOLEAN,
         leaveUnsignalled(t) \/ normalise(t)
  PROVE  CInv'
<1> USE WordFacts DEF CInv
<1>1. CASE leaveUnsignalled(t)
  <2>1. /\ m_waiting = 0 /\ m_mutex = None /\ m_gone < GoneLimit
        /\ \A s \in Threads : at[s] \notin Holding
    BY <1>1, ConditionAssumption DEF leaveUnsignalled, MutexHeld, BoundInv, Holding, ConditionTypeOK
  <2>2. PICK to \in {"normalise", "relock"} :
          /\ goes(t, "leave", to)
          /\ m_mutex' = (IF to = "normalise" THEN t ELSE None)
          /\ m_gone' = GoneLimit <=> to = "normalise"
    BY <1>1, <2>1 DEF leaveUnsignalled
  <2>3. UNCHANGED <<mtx, m_gate, m_queue, m_blocked, m_waiting, locals>> /\ m_gone' = m_gone + 1
    BY <1>1 DEF leaveUnsignalled
  <2>4. at' \in [Threads -> Place] /\ at[t] = "leave" /\ at'[t] = to
        /\ \A s \in Threads : s # t => at'[s] = at[s]
    BY <2>2, GoesFacts DEF ConditionTypeOK, Place
  <2>5. ConditionTypeOK'
    BY <2>1, <2>2, <2>3, <2>4 DEF ConditionTypeOK, locals
  <2>6. MutexHeld'
    BY <2>1, <2>2, <2>4, ConditionAssumption DEF MutexHeld, Holding
  <2>7. GateInv' /\ ReleaseInv'
    BY <2>2, <2>3, <2>4 DEF GateInv, ReleaseInv, locals
  <2>8. BoundInv'
    BY <2>1, <2>2, <2>3, <2>4 DEF BoundInv, ConditionTypeOK, GoneLimit
  <2> QED
    BY <2>5, <2>6, <2>7, <2>8
<1>2. CASE normalise(t)
  <2>1. m_waiting = 0 /\ m_mutex = t /\ m_mutex' = None
    BY <1>2 DEF normalise, goes, GateInv, MutexHeld, Holding
  <2>2. /\ goes(t, "normalise", "relock") /\ m_gone' = 0 /\ m_blocked' \in 0..Word-1
        /\ UNCHANGED <<mtx, m_gate, m_queue, m_waiting, locals>>
    BY <1>2 DEF normalise, ConditionTypeOK
  <2>3. at' \in [Threads -> Place] /\ at[t] = "normalise" /\ at'[t] = "relock"
        /\ \A s \in Threads : s # t => at'[s] = at[s]
    BY <2>2, GoesFacts DEF ConditionTypeOK, Place
  <2>4. ConditionTypeOK'
    BY <2>1, <2>2, <2>3 DEF ConditionTypeOK, locals
  <2>5. MutexHeld'
    BY <2>1, <2>3, ConditionAssumption DEF MutexHeld, Holding
  <2>6. GateInv' /\ ReleaseInv'
    BY <2>2, <2>3 DEF GateInv, ReleaseInv, locals
  <2>7. BoundInv'
    BY <2>1, <2>2 DEF BoundInv
  <2> QED
    BY <2>4, <2>5, <2>6, <2>7
<1> QED
  BY <1>1, <1>2

\* The last one to leave takes tokens back and opens the gate.
LEMMA CInvDrain ==
  ASSUME CInv, NEW t \in Threads, late' \in BOOLEAN, wrapped' \in BOOLEAN, takeBack(t) \/ openGate(t)
  PROVE  CInv'
<1> USE WordFacts DEF CInv
<1>1. CASE takeBack(t)
  <2>1. ConditionTypeOK'
    BY <1>1 DEF takeBack, ConditionTypeOK
  <2>2. UNCHANGED <<m_gate, m_blocked, m_gone, m_waiting, m_mutex, at, signals>>
    BY <1>1 DEF takeBack
  <2>3. MutexHeld' /\ GateInv' /\ ReleaseInv'
    BY <2>2 DEF MutexHeld, GateInv, ReleaseInv
  <2>4. BoundInv'
    BY <2>2 DEF BoundInv, GoneLimit
  <2> QED
    BY <2>1, <2>3, <2>4
<1>2. CASE openGate(t)
  <2>1. /\ goes(t, "drain", "relock") /\ m_gate' = m_gate + 1
        /\ UNCHANGED <<mtx, m_queue, m_blocked, m_gone, m_waiting, m_mutex, locals>>
    BY <1>2 DEF openGate
  <2>2. at' \in [Threads -> Place] /\ at[t] = "drain" /\ at'[t] = "relock"
        /\ \A s \in Threads : s # t => at'[s] = at[s]
    BY <2>1, GoesFacts DEF ConditionTypeOK, Place
  <2>3. m_gate = 0 /\ m_waiting = 0 /\ \A s \in Threads : at'[s] # "drain"
    BY <2>2 DEF GateInv, ConditionTypeOK
  <2>4. ConditionTypeOK'
    BY <2>1, <2>2, <2>3 DEF ConditionTypeOK, locals
  <2>5. MutexHeld' /\ ReleaseInv' /\ GateInv'
    BY <2>1, <2>2, <2>3 DEF MutexHeld, Holding, GateInv, ReleaseInv, locals
  <2>6. BoundInv'
    BY <2>1, <2>2 DEF BoundInv, GoneLimit
  <2> QED
    BY <2>4, <2>5, <2>6
<1> QED
  BY <1>1, <1>2

\* signal and broadcast, from the first place to the last.
LEMMA CInvSignalMore ==
  ASSUME CInv, NEW t \in Threads, late' \in BOOLEAN, wrapped' \in BOOLEAN,
         NEW place \in {"signal", "broadcast"}, NEW all \in BOOLEAN,
         signalMore(t, place, all)
  PROVE  CInv'
<1> USE WordFacts DEF CInv
<1> DEFINE n == IF m_blocked = 0 THEN 0 ELSE share(all, m_blocked)
<1>1. m_blocked \in Nat /\ m_waiting \in Nat /\ m_gone \in Nat /\ m_waiting # 0
      /\ m_waiting + m_blocked + m_gone < Word
  BY DEF signalMore, ConditionTypeOK, BoundInv
<1>2. n \in 0..m_blocked
  BY <1>1 DEF share
<1>3. /\ goes(t, place, IF n = 0 THEN "out" ELSE "release")
      /\ m_waiting' = m_waiting + n /\ m_blocked' = m_blocked - n
      /\ signals' = [signals EXCEPT ![t] = n]
      /\ UNCHANGED <<mtx, m_gate, m_queue, m_gone, m_mutex, timed, ret, was_gone>>
  <2>1. m_waiting' = (m_waiting + n) % Word
    BY DEF signalMore
  <2>2. m_waiting + n \in 0..Word-1
    BY <1>1, <1>2
  <2>3. (m_waiting + n) % Word = m_waiting + n
    BY <2>2
  <2> QED
    BY <2>1, <2>3 DEF signalMore
<1> HIDE DEF n
<1>4. at' \in [Threads -> Place] /\ at[t] = place /\ at'[t] = (IF n = 0 THEN "out" ELSE "release")
      /\ \A s \in Threads : s # t => at'[s] = at[s]
  BY <1>3, GoesFacts DEF ConditionTypeOK, Place
<1>5. ConditionTypeOK'
  <2>1. n \in 0..Word-1 /\ m_blocked' \in 0..Word-1 /\ m_waiting' \in 0..Word-1
    BY <1>1, <1>2, <1>3
  <2>2. signals' \in [Threads -> 0..Word-1]
    BY <1>3, <2>1 DEF ConditionTypeOK
  <2> QED
    BY <1>3, <1>4, <2>1, <2>2 DEF ConditionTypeOK
<1>6. MutexHeld' /\ GateInv'
  BY <1>1, <1>2, <1>3, <1>4 DEF MutexHeld, Holding, GateInv
<1>7. ReleaseInv'
  BY <1>1, <1>2, <1>3, <1>4 DEF ReleaseInv, ConditionTypeOK
<1>8. BoundInv'
  BY <1>1, <1>2, <1>3 DEF BoundInv
<1> QED
  BY <1>5, <1>6, <1>7, <1>8

LEMMA CInvSignalFirst ==
  ASSUME CInv, NEW t \in Threads, late' \in BOOLEAN, wrapped' \in BOOLEAN,
         NEW place \in {"signal", "broadcast"}, NEW gatePlace \in {"signalGate", "broadcastGate"},
         signalFirst(t, place, gatePlace)
  PROVE  CInv'
<1> USE WordFacts DEF CInv, signalFirst
<1>1. at' \in [Threads -> Place] /\ at[t] = place /\ at'[t] = gatePlace
      /\ \A s \in Threads : s # t => at'[s] = at[s]
  BY GoesFacts DEF ConditionTypeOK, Place
<1>2. ConditionTypeOK'
  BY <1>1 DEF ConditionTypeOK, counters, locals
<1>3. MutexHeld'
  BY <1>1, ConditionAssumption DEF MutexHeld, Holding
<1>4. GateInv' /\ ReleaseInv' /\ BoundInv'
  BY <1>1 DEF GateInv, ReleaseInv, BoundInv, GoneLimit, counters, locals
<1> QED
  BY <1>2, <1>3, <1>4

LEMMA CInvCloseGate ==
  ASSUME CInv, NEW t \in Threads, late' \in BOOLEAN, wrapped' \in BOOLEAN,
         NEW gatePlace \in {"signalGate", "broadcastGate"}, NEW all \in BOOLEAN,
         closeGate(t, gatePlace, all)
  PROVE  CInv'
<1> USE WordFacts DEF CInv
<1> DEFINE n == share(all, m_blocked - m_gone)
<1>1. /\ m_gate = 1 /\ m_mutex' = None /\ m_waiting = 0
      /\ UNCHANGED <<mtx, m_queue, timed, ret, was_gone>>
      /\ \A s \in Threads : at[s] # "drain"
  BY DEF closeGate, GateInv
<1>2. at[t] = gatePlace /\ m_mutex = t
  BY DEF closeGate, goes, MutexHeld, Holding
<1>3. CASE m_blocked > m_gone
  <2>1. n \in 1..(m_blocked - m_gone)
    BY <1>3 DEF share, ConditionTypeOK
  <2>2. /\ goes(t, gatePlace, "release") /\ m_gate' = 0 /\ m_blocked' = m_blocked - m_gone - n
        /\ m_gone' = 0 /\ m_waiting' = n /\ signals' = [signals EXCEPT ![t] = n]
    BY <1>3 DEF closeGate
  <2> HIDE DEF n
  <2>3. at' \in [Threads -> Place] /\ at[t] = gatePlace /\ at'[t] = "release"
        /\ \A s \in Threads : s # t => at'[s] = at[s]
    BY <2>2, GoesFacts DEF ConditionTypeOK, Place
  <2>4. ConditionTypeOK'
    <3>1. n \in 0..Word-1 /\ m_blocked' \in 0..Word-1 /\ m_gone' \in 0..Word-1
      BY <1>3, <2>1, <2>2 DEF ConditionTypeOK
    <3>2. signals' \in [Threads -> 0..Word-1]
      BY <2>2, <3>1 DEF ConditionTypeOK
    <3> QED
      BY <1>1, <2>2, <2>3, <3>1, <3>2 DEF ConditionTypeOK
  <2>5. MutexHeld'
    BY <1>1, <1>2, <2>3, ConditionAssumption DEF MutexHeld, Holding
  <2>6. GateInv'
    BY <1>1, <2>1, <2>2, <2>3 DEF GateInv
  <2>7. ReleaseInv' /\ BoundInv'
    BY <1>3, <2>1, <2>2, <2>3 DEF ReleaseInv, BoundInv, ConditionTypeOK
  <2> QED
    BY <2>4, <2>5, <2>6, <2>7
<1>4. CASE ~(m_blocked > m_gone)
  <2>1. /\ goes(t, gatePlace, "out")
        /\ UNCHANGED <<m_gate, m_blocked, m_gone, m_waiting, signals>>
    BY <1>4 DEF closeGate
  <2>2. at' \in [Threads -> Place] /\ at[t] = gatePlace /\ at'[t] = "out"
        /\ \A s \in Threads : s # t => at'[s] = at[s]
    BY <2>1, GoesFacts DEF ConditionTypeOK, Place
  <2>3. ConditionTypeOK'
    BY <1>1, <2>1, <2>2 DEF ConditionTypeOK
  <2>4. MutexHeld'
    BY <1>1, <1>2, <2>2, ConditionAssumption DEF MutexHeld, Holding
  <2>5. GateInv' /\ ReleaseInv' /\ BoundInv'
    BY <1>1, <2>1, <2>2 DEF GateInv, ReleaseInv, BoundInv, GoneLimit
  <2> QED
    BY <2>3, <2>4, <2>5
<1> QED
  BY <1>3, <1>4

LEMMA CInvRelease ==
  ASSUME CInv, NEW t \in Threads, late' \in BOOLEAN, wrapped' \in BOOLEAN, releaseQueue(t)
  PROVE  CInv'
<1> USE DEF CInv, releaseQueue
<1>1. at' \in [Threads -> Place] /\ at[t] = "release" /\ at'[t] = "out"
      /\ \A s \in Threads : s # t => at'[s] = at[s]
  BY GoesFacts DEF ConditionTypeOK, Place
<1>2. ConditionTypeOK'
  <2>1. 0 \in 0..Word-1
    BY WordFacts
  <2>2. signals' \in [Threads -> 0..Word-1] /\ m_queue' \in Nat
    BY <2>1, WordFacts DEF ConditionTypeOK
  <2> QED
    BY <1>1, <2>2 DEF ConditionTypeOK
<1>3. MutexHeld' /\ GateInv' /\ BoundInv'
  BY <1>1 DEF MutexHeld, Holding, GateInv, BoundInv, GoneLimit
<1>4. ReleaseInv'
  BY <1>1 DEF ReleaseInv, ConditionTypeOK
<1> QED
  BY <1>2, <1>3, <1>4

\* Every step of a thread, in a call or before one, preserves the invariant.
LEMMA CInvStep ==
  ASSUME CInv, NEW t \in Threads, caller(t) \/ inCondition(t)
  PROVE  CInv'
<1>1. CASE caller(t)
  BY <1>1, CInvCaller
<1>2. CASE inCondition(t)
  <2>1. late' \in BOOLEAN /\ wrapped' \in BOOLEAN
    BY <1>2 DEF inCondition, CInv, ConditionTypeOK
  <2>2. CASE wait(t) \/ timedWait(t)
    BY <2>1, <2>2, CInvWait, CInvLeaveSignalled, CInvLeaveUnsignalled, CInvDrain DEF wait, timedWait
  <2>3. CASE signal(t)
    BY <2>1, <2>3, CInvSignalMore, CInvSignalFirst, CInvCloseGate DEF signal
  <2>4. CASE broadcast(t)
    BY <2>1, <2>4, CInvSignalMore, CInvSignalFirst, CInvCloseGate DEF broadcast
  <2>5. CASE releaseQueue(t)
    BY <2>1, <2>5, CInvRelease
  <2> QED
    BY <1>2, <2>2, <2>3, <2>4, <2>5 DEF inCondition
<1> QED
  BY <1>1, <1>2

LEMMA CInvInit == ASSUME ConditionInit PROVE CInv
<1> USE WordFacts DEF ConditionInit
<1>1. ConditionTypeOK
  <2>1. 0 \in 0..Word-1
    OBVIOUS
  <2>2. at \in [Threads -> Place] /\ timed \in [Threads -> BOOLEAN] /\ ret \in [Threads -> BOOLEAN]
    BY DEF Place
  <2>3. was_gone \in [Threads -> 0..Word-1] /\ signals \in [Threads -> 0..Word-1]
    BY <2>1
  <2> QED
    BY <2>1, <2>2, <2>3 DEF ConditionTypeOK
<1>2. MutexHeld
  BY ConditionAssumption DEF MutexHeld, Holding
<1>3. GateInv /\ BoundInv /\ ReleaseInv
  BY DEF GateInv, BoundInv, ReleaseInv
<1> QED
  BY <1>1, <1>2, <1>3 DEF CInv

LEMMA CInvStutter == CInv /\ UNCHANGED conditionVars => CInv'
BY DEF conditionVars, counters, locals, history, CInv, ConditionTypeOK, MutexHeld, GateInv, BoundInv,
       ReleaseInv, GoneLimit

(***************************************************************************)
(* The invariant of the gate.                                              *)
(***************************************************************************)

\* The inductive invariant holds under every legal use of the condition.
THEOREM GateInvariant == UseSpec => []CInv
<1>1. CInv /\ [UseNext]_conditionVars => CInv'
  BY CInvStep, CInvStutter DEF UseNext
<1> QED
  BY <1>1, CInvInit, PTL DEF UseSpec

(***************************************************************************)
(* The threads that wait and the tokens for them, step by step.            *)
(***************************************************************************)

\* Two sets of threads that differ in one thread at most.
LEMMA MemberCount ==
  ASSUME NEW S \in SUBSET Threads, NEW R \in SUBSET Threads, NEW t \in Threads,
         \A s \in Threads : s # t => (s \in S <=> s \in R)
  PROVE  /\ Cardinality(S) \in Nat /\ Cardinality(R) \in Nat
         /\ Cardinality(R) = Cardinality(S) + (IF t \in R THEN 1 ELSE 0)
                                            - (IF t \in S THEN 1 ELSE 0)
<1>1. IsFiniteSet(S) /\ IsFiniteSet(R)
  BY FS_Subset, ConditionAssumption
<1>2. Cardinality(S) \in Nat /\ Cardinality(R) \in Nat
  BY <1>1, FS_CardinalityType
<1>3. CASE t \in R /\ t \notin S
  <2>1. R = S \cup {t}
    BY <1>3
  <2>2. Cardinality(R) = Cardinality(S) + 1
    BY <1>1, <1>3, <2>1, FS_AddElement
  <2> QED
    BY <1>2, <1>3, <2>2
<1>4. CASE t \in S /\ t \notin R
  <2>1. R = S \ {t}
    BY <1>4
  <2>2. Cardinality(R) = Cardinality(S) - 1
    BY <1>1, <1>4, <2>1, FS_RemoveElement
  <2> QED
    BY <1>2, <1>4, <2>2
<1>5. CASE t \in S <=> t \in R
  <2>1. R = S
    BY <1>5
  <2> QED
    BY <1>2, <1>5, <2>1
<1> QED
  BY <1>3, <1>4, <1>5

\* How many are blocked, about to leave, woken or not after one has moved.
LEMMA WaitersMove ==
  ASSUME CInv, NEW t \in Threads, NEW from, NEW to \in Place, goes(t, from, to),
         \A s \in Threads : s # t => ret'[s] = ret[s]
  PROVE  /\ Cardinality(In("blocked")) \in Nat /\ Cardinality(In("leave")) \in Nat
         /\ Cardinality(Woken) \in Nat /\ Cardinality(Unwoken) \in Nat
         /\ Cardinality(In("blocked")') = Cardinality(In("blocked"))
              + (IF to = "blocked" THEN 1 ELSE 0) - (IF from = "blocked" THEN 1 ELSE 0)
         /\ Cardinality(In("leave")') = Cardinality(In("leave"))
              + (IF to = "leave" THEN 1 ELSE 0) - (IF from = "leave" THEN 1 ELSE 0)
         /\ Cardinality(Woken') = Cardinality(Woken)
              + (IF to = "leave" /\ ret'[t] THEN 1 ELSE 0)
              - (IF from = "leave" /\ ret[t] THEN 1 ELSE 0)
         /\ Cardinality(Unwoken') = Cardinality(Unwoken)
              + (IF to = "blocked" \/ (to = "leave" /\ ~ret'[t]) THEN 1 ELSE 0)
              - (IF from = "blocked" \/ (from = "leave" /\ ~ret[t]) THEN 1 ELSE 0)
<1>1. at[t] = from /\ at'[t] = to /\ \A s \in Threads : s # t => at'[s] = at[s]
  BY GoesFacts DEF CInv, ConditionTypeOK
<1>2. ASSUME NEW place
      PROVE  /\ In(place) \in SUBSET Threads /\ In(place)' \in SUBSET Threads
             /\ \A s \in Threads : s # t => (s \in In(place) <=> s \in In(place)')
             /\ t \in In(place) <=> place = from
             /\ t \in In(place)' <=> place = to
  BY <1>1 DEF In
<1>3. /\ Woken \in SUBSET Threads /\ Woken' \in SUBSET Threads
      /\ \A s \in Threads : s # t => (s \in Woken <=> s \in Woken')
      /\ t \in Woken <=> from = "leave" /\ ret[t]
      /\ t \in Woken' <=> to = "leave" /\ ret'[t]
  BY <1>1 DEF Woken
<1>4. /\ Unwoken \in SUBSET Threads /\ Unwoken' \in SUBSET Threads
      /\ \A s \in Threads : s # t => (s \in Unwoken <=> s \in Unwoken')
      /\ t \in Unwoken <=> from = "blocked" \/ (from = "leave" /\ ~ret[t])
      /\ t \in Unwoken' <=> to = "blocked" \/ (to = "leave" /\ ~ret'[t])
  BY <1>1 DEF Unwoken
<1>5. ASSUME NEW place
      PROVE  /\ Cardinality(In(place)) \in Nat
             /\ Cardinality(In(place)') = Cardinality(In(place))
                  + (IF place = to THEN 1 ELSE 0) - (IF place = from THEN 1 ELSE 0)
  <2>1. /\ Cardinality(In(place)) \in Nat
        /\ Cardinality(In(place)') = Cardinality(In(place))
             + (IF t \in In(place)' THEN 1 ELSE 0) - (IF t \in In(place) THEN 1 ELSE 0)
    BY <1>2, MemberCount
  <2> QED
    BY <1>2, <2>1
<1>6. /\ Cardinality(Woken) \in Nat
      /\ Cardinality(Woken') = Cardinality(Woken)
           + (IF to = "leave" /\ ret'[t] THEN 1 ELSE 0)
           - (IF from = "leave" /\ ret[t] THEN 1 ELSE 0)
  <2>1. /\ Cardinality(Woken) \in Nat
        /\ Cardinality(Woken') = Cardinality(Woken)
             + (IF t \in Woken' THEN 1 ELSE 0) - (IF t \in Woken THEN 1 ELSE 0)
    BY <1>3, MemberCount
  <2> QED
    BY <1>3, <2>1
<1>7. /\ Cardinality(Unwoken) \in Nat
      /\ Cardinality(Unwoken') = Cardinality(Unwoken)
           + (IF to = "blocked" \/ (to = "leave" /\ ~ret'[t]) THEN 1 ELSE 0)
           - (IF from = "blocked" \/ (from = "leave" /\ ~ret[t]) THEN 1 ELSE 0)
  <2>1. /\ Cardinality(Unwoken) \in Nat
        /\ Cardinality(Unwoken') = Cardinality(Unwoken)
             + (IF t \in Unwoken' THEN 1 ELSE 0) - (IF t \in Unwoken THEN 1 ELSE 0)
    BY <1>4, MemberCount
  <2> QED
    BY <1>4, <2>1
<1> QED
  BY <1>5, <1>6, <1>7

\* The same when nobody moves.
LEMMA WaitersStay ==
  ASSUME UNCHANGED <<at, ret>>
  PROVE  In("blocked")' = In("blocked") /\ In("leave")' = In("leave")
         /\ Woken' = Woken /\ Unwoken' = Unwoken
BY DEF In, Woken, Unwoken

\* Tokens are put into the queue, taken out of it, or promised by thread t.
LEMMA TokensMove ==
  ASSUME CInv, NEW t \in Threads, NEW n \in 0..Word-1, m_queue' \in Nat,
         signals' = [signals EXCEPT ![t] = n]
  PROVE  /\ Tokens \in Nat /\ Tokens' \in Nat
         /\ signals[t] \in Nat
         /\ Tokens' = Tokens + (m_queue' - m_queue) + n - signals[t]
<1>1. signals \in [Threads -> 0..Word-1] /\ m_queue \in Nat
  BY DEF CInv, ConditionTypeOK
<1>2. signals' \in [Threads -> 0..Word-1]
  BY <1>1
<1>3. /\ Cardinality(Promised) \in Nat
      /\ Cardinality(Promised') = Cardinality(Promised) - signals[t] + n
  BY <1>1, PromisedCount
<1>4. signals[t] \in Nat /\ n \in Nat
  BY <1>1, WordFacts
<1>5. signals[t] <= Cardinality(Promised)
  BY <1>1, PromisedCount
<1> QED
  BY <1>1, <1>3, <1>4, <1>5 DEF Tokens

LEMMA TokensStay ==
  ASSUME CInv, UNCHANGED signals
  PROVE  /\ Tokens \in Nat
         /\ m_queue' \in Nat => Tokens' = Tokens + (m_queue' - m_queue)
<1>1. Promised' = Promised /\ Cardinality(Promised) \in Nat /\ m_queue \in Nat
  BY PromisedFinite DEF Promised, CInv, ConditionTypeOK
<1> QED
  BY <1>1 DEF Tokens

(***************************************************************************)
(* A signal under way can come to its end.                                 *)
(***************************************************************************)

\* The counts as variables, for the arithmetic.
LEMMA OpenBy ==
  ASSUME NEW t \in Threads, OpenInv,
         \A s \in Threads : at'[s] \in Holding => m_waiting' = 0,
         m_waiting' # 0 => m_waiting' <= Tokens' + Cardinality(In("leave")'),
         ~wrapped => m_waiting' + m_blocked' <=
                       Cardinality(In("blocked")') + Cardinality(In("leave")')
                         + (IF m_waiting' = 0 THEN m_gone' ELSE 0),
         wrapped => wrapped'
  PROVE  OpenInv'
BY DEF OpenInv

\* A step that neither wakes, blocks nor signals anybody.
LEMMA OpenElsewhere ==
  ASSUME CInv, OpenInv, NEW t \in Threads, NEW from, NEW to \in Place,
         from \notin {"blocked", "leave"}, to \notin {"blocked", "leave"},
         goes(t, from, to), to \in Holding => m_waiting = 0, wrapped => wrapped',
         Tokens' = Tokens, UNCHANGED <<m_blocked, m_gone, m_waiting, ret>>
  PROVE  OpenInv'
<1>1. /\ Cardinality(In("blocked")') = Cardinality(In("blocked"))
      /\ Cardinality(In("leave")') = Cardinality(In("leave"))
  BY WaitersMove
<1>2. at'[t] = to /\ \A s \in Threads : s # t => at'[s] = at[s]
  BY GoesFacts DEF CInv, ConditionTypeOK
<1>3. \A s \in Threads : at'[s] \in Holding => m_waiting' = 0
  BY <1>2 DEF OpenInv
<1> QED
  BY <1>1, <1>3 DEF OpenInv

LEMMA OpenUnmoved ==
  ASSUME CInv, OpenInv, wrapped => wrapped', UNCHANGED <<at, ret, m_blocked, m_gone, m_waiting>>,
         m_waiting # 0 => Tokens' = Tokens
  PROVE  OpenInv'
<1>1. In("blocked")' = In("blocked") /\ In("leave")' = In("leave")
  BY WaitersStay
<1> QED
  BY <1>1 DEF OpenInv

LEMMA OpenCaller ==
  ASSUME CInv, OpenInv, NEW t \in Threads, caller(t)
  PROVE  OpenInv'
<1>1. UNCHANGED <<m_blocked, m_gone, m_waiting, ret>> /\ wrapped' = wrapped
  BY DEF caller, lock, unlock, beginWait, beginSignal, counters, locals, history
<1>2. UNCHANGED <<m_queue, signals>>
  BY DEF caller, lock, unlock, beginWait, beginSignal, counters, locals, history
<1>3. Tokens' = Tokens
  BY <1>2 DEF Tokens, Promised
<1>4. CASE lock(t) \/ unlock(t)
  <2>1. at' = at
    BY <1>4 DEF lock, unlock
  <2> QED
    BY <1>1, <1>3, <2>1, OpenUnmoved
<1>5. CASE beginWait(t) \/ beginSignal(t)
  <2>1. PICK to \in {"enter", "signal", "broadcast"} : goes(t, "out", to)
    BY <1>5 DEF beginWait, beginSignal
  <2> QED
    BY <1>1, <1>3, <2>1, OpenElsewhere DEF Place, Holding
<1> QED
  BY <1>4, <1>5 DEF caller

LEMMA OpenWait ==
  ASSUME CInv, OpenInv, NEW t \in Threads, wrapped => wrapped',
         enterWait(t) \/ wake(t) \/ timeout(t)
  PROVE  OpenInv'
<1> USE DEF CInv
<1>1. PICK from \in {"enter", "blocked"}, to \in {"blocked", "leave"} :
        /\ goes(t, from, to)
        /\ from = "enter" <=> to = "blocked"
        /\ \A s \in Threads : s # t => ret'[s] = ret[s]
  <2>1. CASE enterWait(t)
    BY <2>1 DEF enterWait, locals
  <2>2. CASE wake(t) \/ timeout(t)
    BY <2>2 DEF wake, timeout, ConditionTypeOK
  <2> QED
    BY <2>1, <2>2
<1>2. to \in Place
  BY DEF Place
<1>3. /\ Cardinality(In("blocked")) \in Nat /\ Cardinality(In("leave")) \in Nat
      /\ Cardinality(In("blocked")') = Cardinality(In("blocked"))
           + (IF to = "blocked" THEN 1 ELSE 0) - (IF from = "blocked" THEN 1 ELSE 0)
      /\ Cardinality(In("leave")') = Cardinality(In("leave")) + (IF to = "leave" THEN 1 ELSE 0)
  BY <1>1, <1>2, WaitersMove
<1>4. \A s \in Threads : at'[s] \in Holding => at[s] \in Holding
  BY <1>1, <1>2, GoesFacts DEF ConditionTypeOK, Holding
<1>5. Tokens \in Nat /\ m_waiting \in Nat /\ m_blocked \in Nat /\ m_gone \in Nat /\ Word \in Nat
  BY TokensStay, WordFacts, PromisedFinite DEF ConditionTypeOK, Tokens
<1>6. m_waiting' = m_waiting /\ m_gone' = m_gone
  BY DEF enterWait, wake, timeout, counters
<1>7. CASE enterWait(t)
  <2>1. m_waiting = 0
    BY <1>7 DEF enterWait, GateInv
  <2>2. m_blocked' = (m_blocked + 1) % Word /\ from = "enter" /\ to = "blocked"
    BY <1>1, <1>7 DEF enterWait, goes
  <2>3. m_blocked' <= m_blocked + 1
    BY <1>5, <2>2, WordFacts
  <2>4. m_blocked' \in Nat
    BY <1>5, <2>2, WordFacts
  <2>5. ~wrapped => m_waiting' + m_blocked' <=
                      Cardinality(In("blocked")') + Cardinality(In("leave")')
                        + (IF m_waiting' = 0 THEN m_gone' ELSE 0)
    BY <1>3, <1>5, <1>6, <2>1, <2>2, <2>3, <2>4 DEF OpenInv
  <2> QED
    BY <1>4, <1>6, <2>1, <2>5, OpenBy
<1>8. CASE wake(t) \/ timeout(t)
  <2>1. m_blocked' = m_blocked /\ from = "blocked" /\ to = "leave"
    BY <1>1, <1>8 DEF wake, timeout, counters, goes
  <2>2. signals' = signals /\ m_queue \in Nat /\ m_queue' \in Nat
    BY <1>8 DEF wake, timeout, counters, ConditionTypeOK
  <2>3. Tokens' = Tokens + (m_queue' - m_queue)
    BY <2>2, TokensStay
  <2>4. m_waiting' # 0 => m_waiting' <= Tokens' + Cardinality(In("leave")')
    <3>1. CASE wake(t)
      <4>1. m_queue' = m_queue - 1
        BY <3>1 DEF wake
      <4>2. Tokens' = Tokens - 1
        BY <1>5, <2>2, <2>3, <4>1
      <4> QED
        BY <1>3, <1>5, <1>6, <2>1, <4>2 DEF OpenInv
    <3>2. CASE timeout(t)
      <4>1. m_queue' = m_queue
        BY <3>2 DEF timeout, counters
      <4>2. Tokens' = Tokens
        BY <1>5, <2>2, <2>3, <4>1
      <4> QED
        BY <1>3, <1>5, <1>6, <2>1, <4>2 DEF OpenInv
    <3> QED
      BY <1>8, <3>1, <3>2
  <2>5. ~wrapped => m_waiting' + m_blocked' <=
                      Cardinality(In("blocked")') + Cardinality(In("leave")')
                        + (IF m_waiting' = 0 THEN m_gone' ELSE 0)
    BY <1>3, <1>5, <1>6, <2>1 DEF OpenInv
  <2>6. \A s \in Threads : at'[s] \in Holding => m_waiting' = 0
    BY <1>4, <1>6 DEF OpenInv
  <2> QED
    BY <2>4, <2>5, <2>6, OpenBy
<1> QED
  BY <1>7, <1>8

\* One that leaves is one of those m_waiting counts, or m_gone counts it.
LEMMA OpenLeave ==
  ASSUME CInv, OpenInv, NEW t \in Threads, wrapped => wrapped',
         leaveSignalled(t) \/ leaveUnsignalled(t)
  PROVE  OpenInv'
<1> USE DEF CInv
<1>1. PICK to \in {"relock", "drain", "normalise"} :
        /\ goes(t, "leave", to) /\ UNCHANGED <<ret, m_queue, signals>>
        /\ to = "normalise" => m_waiting' = 0
  BY DEF leaveSignalled, leaveUnsignalled, locals
<1>2. to \in Place
  BY DEF Place
<1>3. /\ Cardinality(In("blocked")) \in Nat /\ Cardinality(In("leave")) \in Nat
      /\ Cardinality(In("blocked")') = Cardinality(In("blocked"))
      /\ Cardinality(In("leave")') = Cardinality(In("leave")) - 1
  BY <1>1, <1>2, WaitersMove
<1>4. Tokens' = Tokens /\ Tokens \in Nat
  BY <1>1, PromisedFinite DEF Tokens, Promised, ConditionTypeOK
<1>5. m_waiting \in Nat /\ m_blocked \in Nat /\ m_gone \in Nat
  BY WordFacts DEF ConditionTypeOK
<1>6. m_mutex = None
  BY DEF leaveSignalled, leaveUnsignalled
<1>7. \A s \in Threads : at'[s] \in Holding => m_waiting' = 0
  <2>1. \A s \in Threads : at[s] \notin Holding
    BY <1>6, ConditionAssumption DEF MutexHeld
  <2> QED
    BY <1>1, <1>2, <2>1, GoesFacts DEF ConditionTypeOK, Holding
<1>8. CASE leaveSignalled(t)
  <2>1. m_waiting # 0 /\ m_waiting' = m_waiting - 1 /\ m_blocked' \in 0..m_blocked /\ m_gone' >= 0
    BY <1>5, <1>8, LeaveCounts DEF leaveSignalled
  <2>2. m_gone' \in Nat
    BY <1>5, <1>8, LeaveCounts, WordFacts DEF leaveSignalled
  <2>3. m_waiting' # 0 => m_waiting' <= Tokens' + Cardinality(In("leave")')
    BY <1>3, <1>4, <1>5, <2>1 DEF OpenInv
  <2>4. ~wrapped => m_waiting' + m_blocked' <=
                      Cardinality(In("blocked")') + Cardinality(In("leave")')
                        + (IF m_waiting' = 0 THEN m_gone' ELSE 0)
    BY <1>3, <1>5, <2>1, <2>2 DEF OpenInv
  <2> QED
    BY <1>7, <2>3, <2>4, OpenBy
<1>9. CASE leaveUnsignalled(t)
  <2>1. m_waiting = 0 /\ m_waiting' = 0 /\ m_gone' = m_gone + 1 /\ m_blocked' = m_blocked
    BY <1>9 DEF leaveUnsignalled
  <2>2. ~wrapped => m_waiting' + m_blocked' <=
                      Cardinality(In("blocked")') + Cardinality(In("leave")')
                        + (IF m_waiting' = 0 THEN m_gone' ELSE 0)
    BY <1>3, <1>5, <2>1 DEF OpenInv
  <2> QED
    BY <1>7, <2>1, <2>2, OpenBy
<1> QED
  BY <1>8, <1>9

LEMMA OpenNormalise ==
  ASSUME CInv, OpenInv, NEW t \in Threads, normalise(t),
         wrapped' = (wrapped \/ m_gone > m_blocked)
  PROVE  OpenInv'
<1> USE DEF CInv
<1>1. /\ goes(t, "normalise", "relock") /\ m_waiting' = m_waiting /\ m_gone' = 0
      /\ m_blocked' = (m_blocked - m_gone) % Word /\ UNCHANGED ret
  BY DEF normalise, locals
<1>2. m_waiting = 0
  BY <1>1 DEF goes, OpenInv, Holding
<1>3. /\ Cardinality(In("blocked")) \in Nat /\ Cardinality(In("leave")) \in Nat
      /\ Cardinality(In("blocked")') = Cardinality(In("blocked"))
      /\ Cardinality(In("leave")') = Cardinality(In("leave"))
  BY <1>1, WaitersMove DEF Place
<1>4. m_blocked \in 0..Word-1 /\ m_gone \in 0..Word-1
  BY DEF ConditionTypeOK
<1>5. ASSUME ~wrapped'
      PROVE  m_blocked' <= Cardinality(In("blocked")') + Cardinality(In("leave")')
  <2>1. ~wrapped /\ ~(m_gone > m_blocked)
    BY <1>5
  <2>2. m_blocked - m_gone \in 0..Word-1
    BY <1>4, <2>1, WordFacts
  <2>3. m_blocked' = m_blocked - m_gone
    BY <1>1, <2>2, WordFacts
  <2>4. m_blocked <= Cardinality(In("blocked")) + Cardinality(In("leave")) + m_gone
    BY <1>2, <1>3, <1>4, <2>1, WordFacts DEF OpenInv
  <2> QED
    BY <1>3, <1>4, <2>3, <2>4, WordFacts
<1>6. m_blocked' \in Nat
  BY <1>1, <1>4, WordFacts
<1>7. \A s \in Threads : at'[s] \in Holding => m_waiting' = 0
  BY <1>1, <1>2
<1>8. ~wrapped' => m_waiting' + m_blocked' <=
                     Cardinality(In("blocked")') + Cardinality(In("leave")')
                       + (IF m_waiting' = 0 THEN m_gone' ELSE 0)
  BY <1>1, <1>2, <1>3, <1>5, <1>6
<1> QED
  BY <1>1, <1>2, <1>7, <1>8 DEF OpenInv

\* A signal promises n tokens to threads it takes off m_blocked.
LEMMA OpenPromise ==
  ASSUME CInv, OpenInv, NEW t \in Threads, wrapped => wrapped',
         NEW from \in {"signal", "broadcast", "signalGate", "broadcastGate"},
         NEW to \in {"release", "out"}, goes(t, from, to),
         \A s \in Threads : s # t => at[s] \notin Holding,
         NEW n \in Nat, NEW settled \in Nat, settled + n <= m_blocked, m_waiting + n # 0,
         settled = IF m_waiting = 0 THEN m_gone ELSE 0,
         m_blocked' = m_blocked - settled - n, m_waiting' = m_waiting + n,
         signals' = [signals EXCEPT ![t] = n], UNCHANGED <<m_queue, ret>>
  PROVE  OpenInv'
<1> USE DEF CInv
<1>1. /\ Cardinality(In("blocked")) \in Nat /\ Cardinality(In("leave")) \in Nat
      /\ Cardinality(In("blocked")') = Cardinality(In("blocked"))
      /\ Cardinality(In("leave")') = Cardinality(In("leave"))
  BY WaitersMove DEF Place
<1>2. m_waiting \in Nat /\ m_blocked \in Nat /\ m_gone \in Nat /\ m_blocked < Word
  BY WordFacts DEF ConditionTypeOK
<1>3. Tokens' = Tokens + n /\ Tokens \in Nat
  <2>1. n \in 0..Word-1 /\ m_queue \in Nat /\ m_queue' \in Nat
    BY <1>2, WordFacts DEF ConditionTypeOK
  <2>2. signals[t] = 0
    BY DEF ReleaseInv, goes
  <2>3. Tokens \in Nat /\ Tokens' = Tokens + (m_queue' - m_queue) + n - signals[t]
    BY <2>1, TokensMove
  <2> QED
    BY <2>1, <2>2, <2>3
<1>4. \A s \in Threads : at'[s] \notin Holding
  BY GoesFacts DEF ConditionTypeOK, Place, Holding
<1>5. m_waiting' # 0 => m_waiting' <= Tokens' + Cardinality(In("leave")')
  BY <1>1, <1>2, <1>3 DEF OpenInv
<1>6. ~wrapped => m_waiting' + m_blocked' <=
                    Cardinality(In("blocked")') + Cardinality(In("leave")')
  BY <1>1, <1>2 DEF OpenInv
<1>7. m_waiting' \in Nat /\ m_waiting' # 0
  BY <1>2
<1>8. \A s \in Threads : at'[s] \in Holding => m_waiting' = 0
  BY <1>4
<1>9. ~wrapped => m_waiting' + m_blocked' <=
                    Cardinality(In("blocked")') + Cardinality(In("leave")')
                      + (IF m_waiting' = 0 THEN m_gone' ELSE 0)
  <2>1. /\ m_blocked' \in Int
        /\ Cardinality(In("blocked")') \in Nat /\ Cardinality(In("leave")') \in Nat
    BY <1>1, <1>2
  <2> QED
    BY <1>6, <1>7, <2>1
<1> QED
  BY <1>5, <1>8, <1>9, OpenBy

LEMMA OpenSignal ==
  ASSUME CInv, OpenInv, NEW t \in Threads, wrapped => wrapped', NEW all \in BOOLEAN,
         NEW place \in {"signal", "broadcast"}, NEW gatePlace \in {"signalGate", "broadcastGate"},
         signalMore(t, place, all) \/ signalFirst(t, place, gatePlace)
           \/ closeGate(t, gatePlace, all)
  PROVE  OpenInv'
<1> USE WordFacts DEF CInv
<1>1. CASE signalMore(t, place, all)
  <2> DEFINE n == IF m_blocked = 0 THEN 0 ELSE share(all, m_blocked)
  <2>1. n \in 0..m_blocked /\ n \in Nat /\ m_blocked \in Nat /\ m_waiting \in Nat
    BY DEF share, ConditionTypeOK
  <2>2. (m_waiting + n) % Word = m_waiting + n
    <3>1. m_waiting + n \in 0..Word-1
      BY <1>1, <2>1 DEF signalMore, BoundInv, ConditionTypeOK
    <3> QED
      BY <3>1
  <2>3. /\ goes(t, place, IF n = 0 THEN "out" ELSE "release")
        /\ m_waiting' = m_waiting + n /\ m_blocked' = m_blocked - n
        /\ signals' = [signals EXCEPT ![t] = n]
        /\ UNCHANGED <<m_queue, ret>>
    BY <1>1, <2>2 DEF signalMore
  <2>4. m_waiting # 0 /\ \A s \in Threads : at[s] \notin Holding
    BY <1>1, ConditionAssumption DEF signalMore, MutexHeld
  <2> HIDE DEF n
  <2>5. 0 + n <= m_blocked /\ m_waiting + n # 0 /\ m_blocked' = m_blocked - 0 - n /\ 0 \in Nat
    BY <2>1, <2>3, <2>4
  <2>6. PICK to \in {"release", "out"} : goes(t, place, to)
    BY <2>3
  <2>7. 0 = IF m_waiting = 0 THEN m_gone ELSE 0
    BY <2>4
  <2> QED
    BY <2>1, <2>3, <2>4, <2>5, <2>6, <2>7, OpenPromise
<1>2. CASE signalFirst(t, place, gatePlace)
  <2>1. goes(t, place, gatePlace) /\ UNCHANGED <<counters, locals>> /\ m_waiting = 0
    BY <1>2 DEF signalFirst
  <2>2. Tokens' = Tokens /\ UNCHANGED <<m_blocked, m_gone, m_waiting, ret>>
    BY <2>1 DEF Tokens, Promised, counters, locals
  <2> QED
    BY <2>1, <2>2, OpenElsewhere DEF Place
<1>3. CASE closeGate(t, gatePlace, all)
  <2>1. m_waiting = 0 /\ UNCHANGED <<m_queue, ret>>
    BY <1>3 DEF closeGate, GateInv
  <2>2. m_blocked \in Nat /\ m_gone \in Nat
    BY DEF ConditionTypeOK
  <2>3. CASE m_blocked > m_gone
    <3> DEFINE n == share(all, m_blocked - m_gone)
    <3>1. n \in 1..(m_blocked - m_gone)
      BY <2>2, <2>3 DEF share
    <3>2. /\ goes(t, gatePlace, "release") /\ m_blocked' = m_blocked - m_gone - n
          /\ m_waiting' = n /\ signals' = [signals EXCEPT ![t] = n]
      BY <1>3, <2>3 DEF closeGate
    <3> HIDE DEF n
    <3>3. \A s \in Threads : s # t => at[s] \notin Holding
      BY <3>2 DEF MutexHeld, goes, Holding
    <3>4. n \in Nat /\ m_gone + n <= m_blocked /\ m_waiting + n # 0 /\ m_waiting' = m_waiting + n
      BY <2>1, <2>2, <3>1, <3>2
    <3>5. m_gone = IF m_waiting = 0 THEN m_gone ELSE 0
      BY <2>1
    <3> QED
      BY <2>1, <2>2, <3>2, <3>3, <3>4, <3>5, OpenPromise
  <2>4. CASE ~(m_blocked > m_gone)
    <3>1. goes(t, gatePlace, "out") /\ UNCHANGED <<m_blocked, m_gone, m_waiting, signals>>
      BY <1>3, <2>4 DEF closeGate
    <3>2. Tokens' = Tokens
      BY <2>1, <3>1 DEF Tokens, Promised
    <3> QED
      BY <2>1, <3>1, <3>2, OpenElsewhere DEF Place, Holding
  <2> QED
    BY <2>3, <2>4
<1> QED
  BY <1>1, <1>2, <1>3

LEMMA OpenEnd ==
  ASSUME CInv, OpenInv, NEW t \in Threads, wrapped => wrapped',
         releaseQueue(t) \/ takeBack(t) \/ openGate(t) \/ relock(t)
  PROVE  OpenInv'
<1> USE DEF CInv
<1>1. CASE releaseQueue(t)
  <2>1. /\ goes(t, "release", "out") /\ m_queue' = m_queue + signals[t]
        /\ signals' = [signals EXCEPT ![t] = 0]
        /\ UNCHANGED <<m_blocked, m_gone, m_waiting, ret>>
    BY <1>1 DEF releaseQueue
  <2>2. m_queue \in Nat /\ signals[t] \in Nat /\ 0 \in 0..Word-1
    BY WordFacts DEF ConditionTypeOK
  <2>3. m_queue' \in Nat
    BY <2>1, <2>2
  <2>4. Tokens \in Nat /\ Tokens' = Tokens + (m_queue' - m_queue) + 0 - signals[t]
    BY <2>1, <2>2, <2>3, TokensMove
  <2>5. Tokens' = Tokens
    BY <2>1, <2>2, <2>4
  <2> QED
    BY <2>1, <2>5, OpenElsewhere DEF Place, Holding
<1>2. CASE takeBack(t)
  <2>1. m_waiting = 0 /\ UNCHANGED <<at, ret, m_blocked, m_gone, m_waiting>>
    BY <1>2 DEF takeBack, GateInv
  <2> QED
    BY <2>1, OpenUnmoved
<1>3. CASE openGate(t) \/ relock(t)
  <2>1. PICK from \in {"drain", "relock"}, to \in {"relock", "out"} : goes(t, from, to)
    BY <1>3 DEF openGate, relock
  <2>2. UNCHANGED <<m_queue, m_blocked, m_gone, m_waiting, ret, signals>>
    BY <1>3 DEF openGate, relock, counters, locals
  <2>3. Tokens' = Tokens
    BY <2>2 DEF Tokens, Promised
  <2> QED
    BY <2>1, <2>2, <2>3, OpenElsewhere DEF Place, Holding
<1> QED
  BY <1>1, <1>2, <1>3

LEMMA OpenStep ==
  ASSUME CInv, OpenInv, NEW t \in Threads, caller(t) \/ inCondition(t)
  PROVE  OpenInv'
<1>1. CASE caller(t)
  BY <1>1, OpenCaller
<1>2. CASE inCondition(t)
  <2>1. wrapped' = (wrapped \/ (normalise(t) /\ m_gone > m_blocked))
    BY <1>2 DEF inCondition
  <2>2. wrapped => wrapped'
    BY <2>1
  <2>3. CASE normalise(t)
    BY <2>1, <2>3, OpenNormalise
  <2>4. CASE wait(t) \/ timeout(t)
    BY <2>2, <2>4, OpenWait, OpenLeave, OpenEnd DEF wait
  <2>5. CASE signal(t)
    BY <2>2, <2>5, OpenSignal DEF signal
  <2>6. CASE broadcast(t)
    BY <2>2, <2>6, OpenSignal DEF broadcast
  <2>7. CASE releaseQueue(t)
    BY <2>2, <2>7, OpenEnd
  <2> QED
    BY <1>2, <2>3, <2>4, <2>5, <2>6, <2>7 DEF inCondition, timedWait
<1> QED
  BY <1>1, <1>2

LEMMA OpenInit == ASSUME ConditionInit PROVE OpenInv
<1> USE DEF ConditionInit
<1>1. In("leave") = {} /\ In("blocked") = {}
  BY DEF In
<1>2. Cardinality({}) = 0
  BY FS_EmptySet
<1> QED
  BY <1>1, <1>2 DEF OpenInv, Holding

LEMMA OpenStutter == OpenInv /\ UNCHANGED conditionVars => OpenInv'
BY DEF conditionVars, counters, locals, history, OpenInv, Tokens, Promised, In

\* A signal under way can come to its end, whatever times out.
THEOREM OpenInvariant == UseSpec => []OpenInv
<1>1. CInv /\ OpenInv /\ [UseNext]_conditionVars => OpenInv'
  BY OpenStep, OpenStutter DEF UseNext
<1> QED
  BY <1>1, OpenInit, GateInvariant, PTL DEF UseSpec

(***************************************************************************)
(* What the counters mean until a wait leaves late.                        *)
(***************************************************************************)

\* A step that neither wakes, blocks nor signals anybody.
LEMMA CountElsewhere ==
  ASSUME CInv, Counted, NEW t \in Threads, NEW from, NEW to \in Place,
         from \notin {"blocked", "leave"}, to \notin {"blocked", "leave"},
         goes(t, from, to), Tokens' = Tokens,
         UNCHANGED <<m_blocked, m_gone, m_waiting, ret>>
  PROVE  Counted'
<1>1. Cardinality(Woken') = Cardinality(Woken) /\ Cardinality(Unwoken') = Cardinality(Unwoken)
  BY WaitersMove
<1> QED
  BY <1>1 DEF Counted

\* Nobody comes to take tokens back.
LEMMA DrainedElsewhere ==
  ASSUME CInv, Drained, NEW t \in Threads, NEW from, NEW to \in Place, to # "drain",
         goes(t, from, to), UNCHANGED was_gone
  PROVE  Drained'
BY GoesFacts DEF Drained, CInv, ConditionTypeOK

LEMMA CountCaller ==
  ASSUME CInv, Counted, Drained, NEW t \in Threads, caller(t)
  PROVE  Counted' /\ Drained'
<1>1. UNCHANGED <<m_blocked, m_gone, m_waiting, ret, was_gone, m_queue, signals>>
  BY DEF caller, lock, unlock, beginWait, beginSignal, counters, locals
<1>2. Tokens' = Tokens
  BY <1>1 DEF Tokens, Promised
<1>3. CASE lock(t) \/ unlock(t)
  <2>1. at' = at
    BY <1>3 DEF lock, unlock
  <2> QED
    BY <1>1, <1>2, <2>1, WaitersStay DEF Counted, Drained
<1>4. CASE beginWait(t) \/ beginSignal(t)
  <2>1. PICK to \in {"enter", "signal", "broadcast"} : goes(t, "out", to)
    BY <1>4 DEF beginWait, beginSignal
  <2>2. Counted'
    BY <1>1, <1>2, <2>1, CountElsewhere DEF Place
  <2>3. Drained'
    BY <1>1, <2>1, DrainedElsewhere DEF Place
  <2> QED
    BY <2>2, <2>3
<1> QED
  BY <1>3, <1>4 DEF caller

\* A thread blocks: it is one of m_blocked, which can count all threads and those
\* gone.
LEMMA CountEnter ==
  ASSUME CInv, Counted, Drained, NEW t \in Threads, enterWait(t)
  PROVE  Counted' /\ Drained'
<1> USE DEF CInv
<1>1. /\ goes(t, "enter", "blocked") /\ m_blocked' = (m_blocked + 1) % Word /\ m_gate = 1
      /\ UNCHANGED <<m_queue, m_gone, m_waiting, ret, was_gone, signals>>
  BY DEF enterWait, locals
<1>2. /\ Cardinality(Woken) \in Nat /\ Cardinality(Unwoken) \in Nat
      /\ Cardinality(Woken') = Cardinality(Woken)
      /\ Cardinality(Unwoken') = Cardinality(Unwoken) + 1
  BY <1>1, WaitersMove DEF Place
<1>3. Tokens' = Tokens /\ Tokens \in Nat
  BY <1>1, PromisedFinite DEF Tokens, Promised, ConditionTypeOK
<1>4. m_waiting = 0 /\ m_blocked \in Nat /\ m_gone \in Nat /\ m_gone <= GoneLimit
  BY <1>1, WordFacts DEF GateInv, BoundInv, ConditionTypeOK
<1>5. Cardinality(Unwoken') <= Cardinality(Threads) /\ Cardinality(Threads) \in Nat
  <2>1. Unwoken' \in SUBSET Threads
    BY DEF Unwoken
  <2> QED
    BY <2>1, FS_Subset, FS_CardinalityType, ConditionAssumption
<1>6. m_blocked' = m_blocked + 1
  <2>1. m_blocked + 1 = Cardinality(Unwoken') + m_gone - Tokens
    BY <1>2, <1>3, <1>4 DEF Counted
  <2>2. Cardinality(Threads) + GoneLimit < Word
    BY <1>5, ConditionAssumption DEF GoneLimit
  <2>3. m_blocked + 1 \in 0..Word-1
    BY <1>2, <1>3, <1>4, <1>5, <2>1, <2>2, WordFacts
  <2>4. (m_blocked + 1) % Word = m_blocked + 1
    BY <2>3, WordFacts
  <2> QED
    BY <1>1, <2>4
<1>7. Counted'
  BY <1>1, <1>2, <1>3, <1>4, <1>6 DEF Counted
<1>8. Drained'
  BY <1>1, DrainedElsewhere DEF Place
<1> QED
  BY <1>7, <1>8

\* A token wakes a thread, which is then one that m_waiting counts; one that times
\* out still waits.
LEMMA CountWake ==
  ASSUME CInv, Counted, Drained, NEW t \in Threads, wake(t) \/ timeout(t)
  PROVE  Counted' /\ Drained'
<1> USE DEF CInv
<1>1. /\ goes(t, "blocked", "leave") /\ \A s \in Threads : s # t => ret'[s] = ret[s]
      /\ UNCHANGED <<m_blocked, m_gone, m_waiting, was_gone, signals>>
  BY DEF wake, timeout, counters, ConditionTypeOK
<1>2. /\ Cardinality(Woken) \in Nat /\ Cardinality(Unwoken) \in Nat
      /\ Cardinality(Woken') = Cardinality(Woken) + (IF ret'[t] THEN 1 ELSE 0)
      /\ Cardinality(Unwoken') = Cardinality(Unwoken) + (IF ~ret'[t] THEN 1 ELSE 0) - 1
  BY <1>1, WaitersMove DEF Place
<1>3. m_waiting \in Nat /\ m_blocked \in Nat /\ m_gone \in Nat /\ m_queue \in Nat
  BY WordFacts DEF ConditionTypeOK
<1>4. Tokens \in Nat /\ Tokens' = Tokens - (IF ret'[t] THEN 1 ELSE 0)
  <2>1. m_queue' \in Nat /\ m_queue' = m_queue - (IF ret'[t] THEN 1 ELSE 0)
    BY <1>3 DEF wake, timeout, counters, ConditionTypeOK
  <2>2. Tokens \in Nat /\ Tokens' = Tokens + (m_queue' - m_queue)
    BY <1>1, <2>1, TokensStay
  <2> QED
    BY <1>3, <2>1, <2>2
<1>5. Counted'
  <2>1. CASE ret'[t]
    BY <1>1, <1>2, <1>3, <1>4, <2>1 DEF Counted
  <2>2. CASE ~ret'[t]
    BY <1>1, <1>2, <1>3, <1>4, <2>2 DEF Counted
  <2> QED
    BY <2>1, <2>2
<1>6. Drained'
  BY <1>1, DrainedElsewhere DEF Place
<1> QED
  BY <1>5, <1>6

\* A woken thread leaves, and m_waiting counts it.
LEMMA CountLeaveSignalled ==
  ASSUME CInv, Counted, Drained, NEW t \in Threads, leaveSignalled(t), ret[t]
  PROVE  Counted' /\ Drained'
<1> USE DEF CInv
<1>1. m_gone = 0 /\ m_waiting # 0 /\ m_waiting \in Nat /\ m_blocked \in Nat
  BY WordFacts DEF leaveSignalled, Counted, ConditionTypeOK
<1>2. PICK to \in {"relock", "drain"} :
        /\ goes(t, "leave", to)
        /\ to = "drain" => was_gone' = [was_gone EXCEPT ![t] = 0]
        /\ to = "relock" => UNCHANGED was_gone
  BY <1>1 DEF leaveSignalled
<1>3. /\ m_waiting' = m_waiting - 1 /\ m_blocked' = m_blocked /\ m_gone' = 0
      /\ UNCHANGED <<m_queue, ret, signals>>
  BY <1>1 DEF leaveSignalled, blockedAfter, goneAfter
<1>4. /\ Cardinality(Woken) \in Nat /\ Cardinality(Unwoken) \in Nat
      /\ Cardinality(Woken') = Cardinality(Woken) - 1
      /\ Cardinality(Unwoken') = Cardinality(Unwoken)
  BY <1>2, <1>3, WaitersMove DEF Place
<1>5. Tokens' = Tokens /\ Tokens \in Nat
  BY <1>3, PromisedFinite DEF Tokens, Promised, ConditionTypeOK
<1>6. Counted'
  BY <1>1, <1>3, <1>4, <1>5 DEF Counted
<1>7. Drained'
  BY <1>2, GoesFacts DEF Drained, Place, ConditionTypeOK
<1> QED
  BY <1>6, <1>7

\* Without a signal nobody is woken and nothing is promised.
LEMMA Quiet ==
  ASSUME CInv, Counted, m_waiting = 0
  PROVE  Tokens = 0 /\ Cardinality(Woken) = 0 /\ Woken = {}
<1>1. IsFiniteSet(Woken)
  BY FS_Subset, ConditionAssumption DEF Woken
<1>2. Tokens \in Nat /\ Cardinality(Woken) \in Nat
  BY <1>1, FS_CardinalityType, PromisedFinite DEF Tokens, CInv, ConditionTypeOK
<1>3. Tokens = 0 /\ Cardinality(Woken) = 0
  BY <1>2 DEF Counted
<1> QED
  BY <1>1, <1>3, FS_EmptySet

\* One that timed out leaves without a signal: m_gone counts it.
LEMMA CountLeaveUnsignalled ==
  ASSUME CInv, Counted, Drained, NEW t \in Threads, leaveUnsignalled(t)
  PROVE  Counted' /\ Drained'
<1> USE DEF CInv
<1>1. PICK to \in {"relock", "normalise"} : goes(t, "leave", to)
  BY DEF leaveUnsignalled
<1>2. /\ m_waiting = 0 /\ m_waiting' = 0 /\ m_gone' = m_gone + 1
      /\ UNCHANGED <<m_queue, m_blocked, ret, was_gone, signals>>
  BY DEF leaveUnsignalled, locals
<1>3. ~ret[t]
  BY <1>1, <1>2, Quiet DEF Woken, goes
<1>4. /\ Cardinality(Woken) \in Nat /\ Cardinality(Unwoken) \in Nat
      /\ Cardinality(Woken') = Cardinality(Woken)
      /\ Cardinality(Unwoken') = Cardinality(Unwoken) - 1
  BY <1>1, <1>2, <1>3, WaitersMove DEF Place
<1>5. Tokens' = Tokens /\ Tokens \in Nat /\ m_blocked \in Nat /\ m_gone \in Nat
  BY <1>2, PromisedFinite, WordFacts DEF Tokens, Promised, ConditionTypeOK
<1>6. Counted'
  BY <1>2, <1>4, <1>5 DEF Counted
<1>7. Drained'
  BY <1>1, <1>2, DrainedElsewhere DEF Place
<1> QED
  BY <1>6, <1>7

\* Those gone are taken off m_blocked, which counts them all.
LEMMA CountNormalise ==
  ASSUME CInv, Counted, Drained, NEW t \in Threads, normalise(t)
  PROVE  Counted' /\ Drained' /\ ~(m_gone > m_blocked)
<1> USE DEF CInv
<1>1. /\ goes(t, "normalise", "relock") /\ m_gate = 1 /\ m_gone' = 0 /\ m_waiting' = m_waiting
      /\ m_blocked' = (m_blocked - m_gone) % Word
      /\ UNCHANGED <<m_queue, ret, was_gone, signals>>
  BY DEF normalise, locals
<1>2. m_waiting = 0
  BY <1>1 DEF GateInv
<1>3. /\ Cardinality(Woken) \in Nat /\ Cardinality(Unwoken) \in Nat
      /\ Cardinality(Woken') = Cardinality(Woken) /\ Cardinality(Unwoken') = Cardinality(Unwoken)
  BY <1>1, WaitersMove DEF Place
<1>4. m_blocked \in 0..Word-1 /\ m_gone \in 0..Word-1
  BY DEF ConditionTypeOK
<1>5. Cardinality(Unwoken) = m_blocked - m_gone
  BY <1>2, <1>3, <1>4, Quiet, WordFacts DEF Counted
<1>6. m_blocked' = m_blocked - m_gone
  <2>1. m_blocked - m_gone \in 0..Word-1
    BY <1>3, <1>4, <1>5, WordFacts
  <2> QED
    BY <1>1, <2>1, WordFacts
<1>7. Tokens' = Tokens
  BY <1>1 DEF Tokens, Promised
<1>8. Counted'
  BY <1>1, <1>2, <1>3, <1>4, <1>5, <1>6, <1>7, WordFacts DEF Counted
<1>9. Drained'
  BY <1>1, DrainedElsewhere DEF Place
<1> QED
  BY <1>3, <1>4, <1>5, <1>8, <1>9, WordFacts

\* No tokens are taken back.
LEMMA CountDrain ==
  ASSUME CInv, Counted, Drained, NEW t \in Threads,
         takeBack(t) \/ openGate(t) \/ relock(t)
  PROVE  Counted' /\ Drained'
<1>1. ~takeBack(t)
  <2>1. SUFFICES ASSUME takeBack(t) PROVE FALSE
    OBVIOUS
  <2>2. at[t] = "drain" /\ was_gone[t] > 0
    BY <2>1 DEF takeBack
  <2> QED
    BY <2>2 DEF Drained
<1>2. PICK from \in {"drain", "relock"}, to \in {"relock", "out"} :
        /\ goes(t, from, to)
        /\ UNCHANGED <<m_queue, m_blocked, m_gone, m_waiting, ret, was_gone, signals>>
  BY <1>1 DEF openGate, relock, counters, locals
<1>3. Tokens' = Tokens
  BY <1>2 DEF Tokens, Promised
<1>4. Counted'
  BY <1>2, <1>3, CountElsewhere DEF Place
<1>5. Drained'
  BY <1>2, DrainedElsewhere DEF Place
<1> QED
  BY <1>4, <1>5

\* A signal promises n tokens to threads it takes off m_blocked.
LEMMA CountPromise ==
  ASSUME CInv, Counted, Drained, NEW t \in Threads,
         NEW from \in {"signal", "broadcast", "signalGate", "broadcastGate"},
         NEW to \in {"release", "out"}, goes(t, from, to),
         NEW n \in Nat, n <= m_blocked - m_gone,
         m_blocked' = m_blocked - m_gone - n, m_waiting' = m_waiting + n,
         signals' = [signals EXCEPT ![t] = n], m_gone' = 0,
         UNCHANGED <<m_queue, ret, was_gone>>
  PROVE  Counted' /\ Drained'
<1> USE DEF CInv
<1>1. m_waiting \in Nat /\ m_blocked \in Nat /\ m_gone \in Nat /\ m_blocked < Word
  BY WordFacts DEF ConditionTypeOK
<1>2. Tokens \in Nat /\ Tokens' = Tokens + n
  <2>1. n \in 0..Word-1 /\ m_queue \in Nat /\ m_queue' \in Nat
    BY <1>1, WordFacts DEF ConditionTypeOK
  <2>2. signals[t] = 0
    BY DEF ReleaseInv, goes
  <2>3. Tokens \in Nat /\ Tokens' = Tokens + (m_queue' - m_queue) + n - signals[t]
    BY <2>1, TokensMove
  <2> QED
    BY <2>1, <2>2, <2>3
<1>3. /\ Cardinality(Woken) \in Nat /\ Cardinality(Unwoken) \in Nat
      /\ Cardinality(Woken') = Cardinality(Woken) /\ Cardinality(Unwoken') = Cardinality(Unwoken)
  BY WaitersMove DEF Place
<1>4. Counted'
  BY <1>1, <1>2, <1>3 DEF Counted
<1>5. Drained'
  BY DrainedElsewhere DEF Place
<1> QED
  BY <1>4, <1>5

LEMMA CountSignal ==
  ASSUME CInv, Counted, Drained, NEW t \in Threads, NEW all \in BOOLEAN,
         NEW place \in {"signal", "broadcast"}, NEW gatePlace \in {"signalGate", "broadcastGate"},
         signalMore(t, place, all) \/ signalFirst(t, place, gatePlace)
           \/ closeGate(t, gatePlace, all)
  PROVE  Counted' /\ Drained'
<1> USE WordFacts DEF CInv
<1>1. CASE signalMore(t, place, all)
  <2> DEFINE n == IF m_blocked = 0 THEN 0 ELSE share(all, m_blocked)
  <2>1. n \in 0..m_blocked /\ n \in Nat /\ m_blocked \in Nat /\ m_waiting \in Nat
    BY DEF share, ConditionTypeOK
  <2>2. (m_waiting + n) % Word = m_waiting + n
    <3>1. m_waiting + n \in 0..Word-1
      BY <1>1, <2>1 DEF signalMore, BoundInv, ConditionTypeOK
    <3> QED
      BY <3>1
  <2>3. /\ goes(t, place, IF n = 0 THEN "out" ELSE "release")
        /\ m_waiting' = m_waiting + n /\ m_blocked' = m_blocked - n
        /\ signals' = [signals EXCEPT ![t] = n] /\ m_gone' = m_gone
        /\ UNCHANGED <<m_queue, ret, was_gone>>
    BY <1>1, <2>2 DEF signalMore
  <2>4. m_gone = 0
    BY <1>1 DEF signalMore, Counted
  <2> HIDE DEF n
  <2>5. n <= m_blocked - m_gone /\ m_blocked' = m_blocked - m_gone - n /\ m_gone' = 0
    BY <2>1, <2>3, <2>4
  <2>6. PICK to \in {"release", "out"} : goes(t, place, to)
    BY <2>3
  <2> QED
    BY <2>1, <2>3, <2>5, <2>6, CountPromise
<1>2. CASE signalFirst(t, place, gatePlace)
  <2>1. goes(t, place, gatePlace) /\ UNCHANGED <<counters, locals>>
    BY <1>2 DEF signalFirst
  <2>2. Tokens' = Tokens /\ UNCHANGED <<m_blocked, m_gone, m_waiting, ret, was_gone>>
    BY <2>1 DEF Tokens, Promised, counters, locals
  <2>3. Counted'
    BY <2>1, <2>2, CountElsewhere DEF Place
  <2>4. Drained'
    BY <2>1, <2>2, DrainedElsewhere DEF Place
  <2> QED
    BY <2>3, <2>4
<1>3. CASE closeGate(t, gatePlace, all)
  <2>1. m_waiting = 0 /\ UNCHANGED <<m_queue, ret, was_gone>>
    BY <1>3 DEF closeGate, GateInv
  <2>2. m_blocked \in Nat /\ m_gone \in Nat
    BY DEF ConditionTypeOK
  <2>3. CASE m_blocked > m_gone
    <3> DEFINE n == share(all, m_blocked - m_gone)
    <3>1. n \in 1..(m_blocked - m_gone)
      BY <2>2, <2>3 DEF share
    <3>2. /\ goes(t, gatePlace, "release") /\ m_blocked' = m_blocked - m_gone - n
          /\ m_gone' = 0 /\ m_waiting' = n /\ signals' = [signals EXCEPT ![t] = n]
      BY <1>3, <2>3 DEF closeGate
    <3> HIDE DEF n
    <3>3. n \in Nat /\ n <= m_blocked - m_gone /\ m_waiting' = m_waiting + n
      BY <2>1, <2>2, <3>1, <3>2
    <3> QED
      BY <2>1, <3>2, <3>3, CountPromise
  <2>4. CASE ~(m_blocked > m_gone)
    <3>1. goes(t, gatePlace, "out") /\ UNCHANGED <<m_blocked, m_gone, m_waiting, signals>>
      BY <1>3, <2>4 DEF closeGate
    <3>2. Tokens' = Tokens
      BY <2>1, <3>1 DEF Tokens, Promised
    <3>3. Counted'
      BY <2>1, <3>1, <3>2, CountElsewhere DEF Place
    <3>4. Drained'
      BY <2>1, <3>1, DrainedElsewhere DEF Place
    <3> QED
      BY <3>3, <3>4
  <2> QED
    BY <2>3, <2>4
<1> QED
  BY <1>1, <1>2, <1>3

\* The promised tokens are put into the queue.
LEMMA CountRelease ==
  ASSUME CInv, Counted, Drained, NEW t \in Threads, releaseQueue(t)
  PROVE  Counted' /\ Drained'
<1> USE DEF CInv
<1>1. /\ goes(t, "release", "out") /\ m_queue' = m_queue + signals[t]
      /\ signals' = [signals EXCEPT ![t] = 0]
      /\ UNCHANGED <<m_blocked, m_gone, m_waiting, ret, was_gone>>
  BY DEF releaseQueue
<1>2. Tokens' = Tokens
  <2>1. m_queue \in Nat /\ signals[t] \in Nat /\ 0 \in 0..Word-1
    BY WordFacts DEF ConditionTypeOK
  <2>2. m_queue' \in Nat
    BY <1>1, <2>1
  <2>3. Tokens \in Nat /\ Tokens' = Tokens + (m_queue' - m_queue) + 0 - signals[t]
    BY <1>1, <2>1, <2>2, TokensMove
  <2> QED
    BY <1>1, <2>1, <2>3
<1>3. Counted'
  BY <1>1, <1>2, CountElsewhere DEF Place
<1>4. Drained'
  BY <1>1, DrainedElsewhere DEF Place
<1> QED
  BY <1>3, <1>4

LEMMA CountStep ==
  ASSUME CInv, CountInv, NEW t \in Threads, caller(t) \/ inCondition(t)
  PROVE  CountInv'
<1> SUFFICES ASSUME ~late'
             PROVE  Counted' /\ Drained' /\ ~wrapped'
  BY DEF CountInv
<1>1. CASE caller(t)
  <2>1. ~late /\ wrapped' = wrapped
    BY <1>1 DEF caller, lock, unlock, beginWait, beginSignal, history
  <2> QED
    BY <1>1, <2>1, CountCaller DEF CountInv
<1>2. CASE inCondition(t)
  <2>1. ~late /\ ~(leaveSignalled(t) /\ ~ret[t])
    BY <1>2 DEF inCondition
  <2>2. Counted /\ Drained /\ ~wrapped
    BY <2>1 DEF CountInv
  <2>3. wrapped' = (normalise(t) /\ m_gone > m_blocked)
    BY <1>2, <2>2 DEF inCondition
  <2>4. ~wrapped'
    BY <2>2, <2>3, CountNormalise
  <2>5. CASE wait(t) \/ timedWait(t)
    <3>1. CASE enterWait(t) \/ wake(t) \/ timeout(t)
      BY <2>4, <2>2, <3>1, CountEnter, CountWake
    <3>2. CASE leaveSignalled(t) \/ leaveUnsignalled(t) \/ normalise(t)
      BY <2>4, <2>1, <2>2, <3>2, CountLeaveSignalled, CountLeaveUnsignalled, CountNormalise
    <3>3. CASE takeBack(t) \/ openGate(t) \/ relock(t)
      BY <2>4, <2>2, <3>3, CountDrain
    <3> QED
      BY <2>5, <3>1, <3>2, <3>3 DEF wait, timedWait
  <2>6. CASE signal(t)
    BY <2>2, <2>4, <2>6, CountSignal DEF signal
  <2>7. CASE broadcast(t)
    BY <2>2, <2>4, <2>7, CountSignal DEF broadcast
  <2>8. CASE releaseQueue(t)
    BY <2>2, <2>4, <2>8, CountRelease
  <2> QED
    BY <1>2, <2>5, <2>6, <2>7, <2>8 DEF inCondition
<1> QED
  BY <1>1, <1>2

LEMMA CountInit == ASSUME ConditionInit PROVE CountInv
<1> USE DEF ConditionInit
<1>1. Woken = {} /\ Unwoken = {} /\ Promised = {}
  BY DEF Woken, Unwoken, Promised
<1>2. Cardinality({}) = 0
  BY FS_EmptySet
<1>3. Counted
  BY <1>1, <1>2 DEF Counted, Tokens
<1>4. Drained
  BY DEF Drained
<1> QED
  BY <1>3, <1>4 DEF CountInv

LEMMA CountStutter == CountInv /\ UNCHANGED conditionVars => CountInv'
BY DEF conditionVars, counters, locals, history, CountInv, Counted, Drained, Tokens, Promised,
       Woken, Unwoken

\* Until a wait that timed out leaves during a signal the counters mean what they
\* are named for.
THEOREM CountInvariant == UseSpec => []CountInv
<1>1. CInv /\ CountInv /\ [UseNext]_conditionVars => CountInv'
  BY CountStep, CountStutter DEF UseNext
<1> QED
  BY <1>1, CountInit, GateInvariant, PTL DEF UseSpec

\* Until then no wake-up is lost or doubled: the tokens and the woken threads are
\* those m_waiting counts, and m_blocked counts, besides the m_gone that have left,
\* the threads not woken that no token is meant for.
THEOREM CountCorrect == UseSpec => []WakeUpsCounted
<1>1. CountInv => WakeUpsCounted
  BY DEF CountInv, Counted, WakeUpsCounted
<1> QED
  BY <1>1, CountInvariant, PTL

\* The counters are words however many waits time out.  No subtraction leaves them,
\* but one: where wait settles m_gone, m_blocked can go below zero, and that only
\* after a wait that timed out left during a signal.
THEOREM ConditionTypeCorrect == UseSpec => [](ConditionTypeOK /\ SettledExactly)
<1>1. CInv /\ CountInv => ConditionTypeOK /\ SettledExactly
  BY DEF CInv, CountInv, SettledExactly
<1> QED
  BY <1>1, GateInvariant, CountInvariant, PTL

\* The gate is closed exactly while a signal is under way.  The threads m_waiting
\* counts have left m_queue or have tokens, until m_blocked wraps they are there to
\* take them, and none finds m_mutex kept; then one thread opens the gate, and has
\* no token to wait for before a timed-out wait has left during a signal.
THEOREM GateCorrect == UseSpec => []GateOpensAgain
<1>1. ASSUME CInv, OpenInv, CountInv
      PROVE  GateOpensAgain
  <2>1. /\ m_gate = 0 <=> m_waiting # 0 \/ In("drain") # {}
        /\ In("drain") # {} => m_waiting = 0
    BY <1>1 DEF CInv, GateInv, In
  <2>2. ASSUME In("drain") # {}
        PROVE  Cardinality(In("drain")) = 1
    <3>1. PICK t : In("drain") = {t}
      BY <1>1, <2>2 DEF CInv, GateInv, In
    <3> QED
      BY <3>1, FS_Singleton
  <2>3. ~late => \A t \in In("drain") : was_gone[t] = 0
    BY <1>1 DEF CountInv, Drained, In
  <2>4. m_waiting # 0 => m_mutex = None
    <3>1. SUFFICES ASSUME m_mutex \in Threads PROVE m_waiting = 0
      BY <1>1 DEF CInv, ConditionTypeOK
    <3>2. at[m_mutex] \in Holding
      BY <1>1, <3>1 DEF CInv, MutexHeld
    <3> QED
      BY <1>1, <3>1, <3>2 DEF OpenInv
  <2>5. ASSUME m_waiting # 0
        PROVE  /\ m_waiting <= Tokens + Cardinality(In("leave"))
               /\ ~wrapped => m_waiting <= Cardinality(In("blocked")) + Cardinality(In("leave"))
    <3>1. m_waiting \in Nat /\ m_blocked \in Nat
      BY <1>1, WordFacts DEF CInv, ConditionTypeOK
    <3>2. Cardinality(In("blocked")) \in Nat /\ Cardinality(In("leave")) \in Nat
      BY FS_Subset, FS_CardinalityType, ConditionAssumption DEF In
    <3> QED
      BY <1>1, <2>5, <3>1, <3>2 DEF OpenInv
  <2> QED
    BY <2>1, <2>2, <2>3, <2>4, <2>5 DEF GateOpensAgain
<1> QED
  BY <1>1, GateInvariant, OpenInvariant, CountInvariant, PTL

(***************************************************************************)
(* Until a wait leaves late the condition is a WaitSet.                    *)
(***************************************************************************)

\* The sizes of sets are those of FiniteSets in the abstract module too.
LEMMA SameSize == ASSUME NEW S PROVE Promise!Cardinality(S) = Cardinality(S)
BY DEF Promise!Cardinality, Cardinality

\* What a thread shows, by its place and what its wait returns.
seen(place, woken) ==
  IF place = "blocked" \/ (place = "leave" /\ ~woken) THEN "wait"
  ELSE IF place \in {"signal", "signalGate"} THEN "signal"
  ELSE IF place \in {"broadcast", "broadcastGate"} THEN "broadcast"
  ELSE "other"

\* The abstract variables are the ones they should be.
LEMMA MappedState ==
  ASSUME CInv, Counted
  PROVE  /\ Tokens \in Nat /\ m_blocked - m_gone \in Nat
         /\ Promise!Waiters = Unwoken
         /\ Cardinality(Unwoken) = (m_blocked - m_gone) + Tokens
<1>1. Tokens \in Nat /\ m_blocked \in Nat /\ m_gone \in Nat /\ m_waiting \in Nat
  BY PromisedFinite, WordFacts DEF Tokens, CInv, ConditionTypeOK
<1>2. Promise!Waiters = Unwoken
  BY DEF Promise!Waiters, doing, shows, Unwoken
<1>3. m_blocked - m_gone \in Nat
  <2>1. CASE m_waiting = 0
    <3>1. Cardinality(Unwoken) \in Nat
      BY FS_Subset, FS_CardinalityType, ConditionAssumption DEF Unwoken
    <3>2. Cardinality(Unwoken) = m_blocked - m_gone
      BY <1>1, <2>1, Quiet DEF Counted
    <3> QED
      BY <3>1, <3>2
  <2>2. CASE m_waiting # 0
    BY <1>1, <2>2 DEF Counted
  <2> QED
    BY <2>1, <2>2
<1> QED
  BY <1>1, <1>2, <1>3 DEF Counted

\* What a thread that goes somewhere shows.
LEMMA DoingMoves ==
  ASSUME CInv, NEW t \in Threads, NEW from, NEW to \in Place, goes(t, from, to),
         \A s \in Threads : s # t => ret'[s] = ret[s]
  PROVE  doing[t] = seen(from, ret[t]) /\ doing' = [doing EXCEPT ![t] = seen(to, ret'[t])]
<1>1. at[t] = from /\ at'[t] = to /\ \A s \in Threads : s # t => at'[s] = at[s]
  BY GoesFacts DEF CInv, ConditionTypeOK
<1>2. \A s \in Threads : shows(s) = seen(at[s], ret[s])
  BY DEF shows, seen, Unwoken
<1>3. \A s \in Threads : shows(s)' = seen(at'[s], ret'[s])
  BY DEF shows, seen, Unwoken
<1> HIDE DEF shows, seen
<1>4. \A s \in Threads : shows(s)' = IF s = t THEN seen(to, ret'[t]) ELSE shows(s)
  BY <1>1, <1>2, <1>3
<1>5. doing' = [s \in Threads |-> IF s = t THEN seen(to, ret'[t]) ELSE shows(s)]
  BY <1>4 DEF doing
<1> QED
  BY <1>1, <1>2, <1>5 DEF doing

\* Steps that do not show.
Hidden == UNCHANGED <<doing, Tokens>>

\* A thread goes somewhere that shows no difference.
LEMMA HiddenMove ==
  ASSUME CInv, NEW t \in Threads, NEW from, NEW to \in Place, goes(t, from, to),
         \A s \in Threads : s # t => ret'[s] = ret[s],
         seen(from, ret[t]) = seen(to, ret'[t]), Tokens' = Tokens
  PROVE  Hidden
<1> HIDE DEF seen
<1>1. doing[t] = seen(to, ret'[t]) /\ doing' = [doing EXCEPT ![t] = seen(to, ret'[t])]
  BY DoingMoves
<1>2. doing \in [Threads -> {shows(s) : s \in Threads}]
  BY DEF doing
<1> QED
  BY <1>1, <1>2 DEF Hidden

\* What the callers do does not show, but for the beginning of a call.
LEMMA CallerImplements ==
  ASSUME CInv, NEW t \in Threads, caller(t)
  PROVE  Promise!Next \/ Hidden
<1>1. UNCHANGED <<m_queue, signals, ret>>
  BY DEF caller, lock, unlock, beginWait, beginSignal, counters, locals
<1>2. Tokens' = Tokens
  BY <1>1 DEF Tokens, Promised
<1>3. CASE lock(t) \/ unlock(t)
  <2>1. at' = at
    BY <1>3 DEF lock, unlock
  <2> QED
    BY <1>1, <1>2, <2>1 DEF Hidden, doing, shows, Unwoken
<1>4. CASE beginWait(t)
  <2>1. goes(t, "out", "enter")
    BY <1>4 DEF beginWait
  <2> QED
    BY <1>1, <1>2, <2>1, HiddenMove DEF seen, Place
<1>5. CASE beginSignal(t)
  <2>1. PICK what \in {"signal", "broadcast"} : goes(t, "out", what)
    BY <1>5 DEF beginSignal
  <2>2. doing[t] = "other" /\ doing' = [doing EXCEPT ![t] = what]
    BY <1>1, <2>1, DoingMoves DEF seen, Place
  <2>3. Promise!begin(t)
    BY <1>2, <2>2 DEF Promise!begin
  <2> QED
    BY <2>3 DEF Promise!Next
<1> QED
  BY <1>3, <1>4, <1>5 DEF caller

\* A thread blocks when the gate is open, and then no token is left.
LEMMA EnterImplements ==
  ASSUME CInv, Counted, NEW t \in Threads, enterWait(t)
  PROVE  Promise!begin(t)
<1>1. goes(t, "enter", "blocked") /\ m_gate = 1 /\ UNCHANGED <<m_queue, signals, ret>>
  BY DEF enterWait, locals
<1>2. doing[t] = "other" /\ doing' = [doing EXCEPT ![t] = "wait"]
  BY <1>1, DoingMoves DEF seen, Place
<1>3. m_waiting = 0
  BY <1>1 DEF CInv, GateInv
<1>4. Tokens = 0
  BY <1>3, Quiet
<1>5. Tokens' = Tokens
  BY <1>1 DEF Tokens, Promised
<1> QED
  BY <1>2, <1>4, <1>5 DEF Promise!begin

\* A token is taken by one of those it may be meant for; a timeout does not show
\* before the thread leaves.
LEMMA WakeImplements ==
  ASSUME CInv, NEW t \in Threads, wake(t) \/ timeout(t)
  PROVE  Promise!wake(t) \/ Hidden
<1>1. /\ goes(t, "blocked", "leave") /\ \A s \in Threads : s # t => ret'[s] = ret[s]
      /\ UNCHANGED signals
  BY DEF wake, timeout, counters, CInv, ConditionTypeOK
<1>2. m_queue \in Nat /\ Cardinality(Promised) \in Nat /\ t \in Threads
  BY PromisedFinite DEF CInv, ConditionTypeOK
<1>3. CASE wake(t)
  <2>1. m_queue > 0 /\ m_queue' = m_queue - 1 /\ ret'[t]
    BY <1>3 DEF wake, CInv, ConditionTypeOK
  <2>2. doing[t] = "wait" /\ doing' = [doing EXCEPT ![t] = "other"]
    BY <1>1, <2>1, DoingMoves DEF seen, Place
  <2>3. Tokens > 0 /\ Tokens' = Tokens - 1
    BY <1>1, <1>2, <2>1 DEF Tokens, Promised
  <2> QED
    BY <2>2, <2>3 DEF Promise!wake, Promise!ends
<1>4. CASE timeout(t)
  <2>1. UNCHANGED m_queue /\ ~ret'[t]
    BY <1>4 DEF timeout, counters, CInv, ConditionTypeOK
  <2>2. Tokens' = Tokens
    BY <1>1, <2>1 DEF Tokens, Promised
  <2> QED
    BY <1>1, <2>1, <2>2, HiddenMove DEF seen, Place
<1> QED
  BY <1>3, <1>4

\* One that timed out leaves when no signal is under way: it gives up.
LEMMA GiveUpImplements ==
  ASSUME CInv, Counted, NEW t \in Threads, leaveUnsignalled(t)
  PROVE  Promise!giveUp(t)
<1>1. PICK to \in {"relock", "normalise"} : goes(t, "leave", to)
  BY DEF leaveUnsignalled
<1>2. m_waiting = 0 /\ UNCHANGED <<m_queue, signals, ret>>
  BY DEF leaveUnsignalled, locals
<1>3. Tokens = 0 /\ ~ret[t]
  BY <1>1, <1>2, Quiet DEF Woken, goes
<1>4. doing[t] = "wait" /\ doing' = [doing EXCEPT ![t] = "other"]
  BY <1>1, <1>2, <1>3, DoingMoves DEF seen, Place
<1>5. Tokens' = Tokens
  BY <1>2 DEF Tokens, Promised
<1>6. Tokens < Cardinality(Promise!Waiters)
  <2>1. IsFiniteSet(Unwoken) /\ t \in Unwoken
    BY <1>1, <1>3, FS_Subset, ConditionAssumption DEF Unwoken, goes
  <2>2. Cardinality(Unwoken) \in Nat /\ Cardinality(Unwoken) # 0
    BY <2>1, FS_CardinalityType, FS_EmptySet
  <2> QED
    BY <1>3, <2>2, MappedState
<1> QED
  BY <1>4, <1>5, <1>6, SameSize DEF Promise!giveUp, Promise!ends

\* Nothing shows of how a thread that was woken leaves.
LEMMA LeaveImplements ==
  ASSUME CInv, Counted, Drained, NEW t \in Threads,
         \/ leaveSignalled(t) /\ ret[t]
         \/ takeBack(t) \/ openGate(t) \/ relock(t) \/ normalise(t) \/ releaseQueue(t)
  PROVE  Hidden
<1>1. CASE leaveSignalled(t) /\ ret[t]
  <2>1. PICK to \in {"relock", "drain"} : goes(t, "leave", to)
    BY <1>1 DEF leaveSignalled
  <2>2. UNCHANGED <<m_queue, signals, ret>>
    BY <1>1 DEF leaveSignalled
  <2>3. Tokens' = Tokens
    BY <2>2 DEF Tokens, Promised
  <2>4. to \in Place /\ seen("leave", ret[t]) = seen(to, ret'[t])
    BY <1>1 DEF seen, Place
  <2> QED
    BY <2>1, <2>2, <2>3, <2>4, HiddenMove
<1>2. ASSUME takeBack(t)
      PROVE  FALSE
  <2>1. at[t] = "drain" /\ was_gone[t] > 0
    BY <1>2 DEF takeBack
  <2> QED
    BY <2>1 DEF Drained
<1>3. CASE openGate(t) \/ relock(t) \/ normalise(t)
  <2>1. PICK from \in {"drain", "relock", "normalise"}, to \in {"relock", "out"} :
          goes(t, from, to)
    BY <1>3 DEF openGate, relock, normalise
  <2>2. UNCHANGED <<m_queue, signals, ret>>
    BY <1>3 DEF openGate, relock, normalise, counters, locals
  <2>3. Tokens' = Tokens
    BY <2>2 DEF Tokens, Promised
  <2>4. to \in Place /\ seen(from, ret[t]) = seen(to, ret'[t])
    BY DEF seen, Place
  <2> QED
    BY <2>1, <2>2, <2>3, <2>4, HiddenMove
<1>4. CASE releaseQueue(t)
  <2>1. /\ goes(t, "release", "out") /\ m_queue' = m_queue + signals[t]
        /\ signals' = [signals EXCEPT ![t] = 0] /\ UNCHANGED ret
    BY <1>4 DEF releaseQueue
  <2>2. m_queue \in Nat /\ signals[t] \in Nat /\ 0 \in 0..Word-1
    BY WordFacts DEF CInv, ConditionTypeOK
  <2>3. m_queue' \in Nat
    BY <2>1, <2>2
  <2>4. Tokens \in Nat /\ Tokens' = Tokens + (m_queue' - m_queue) + 0 - signals[t]
    BY <2>1, <2>2, <2>3, TokensMove
  <2>5. Tokens' = Tokens
    BY <2>1, <2>2, <2>4
  <2>6. "out" \in Place /\ seen("release", ret[t]) = seen("out", ret'[t])
    BY DEF seen, Place
  <2> QED
    BY <2>1, <2>5, <2>6, HiddenMove
<1> QED
  BY <1>1, <1>2, <1>3, <1>4

\* A signal or a broadcast shows when it takes threads off m_blocked or finds none
\* there.
LEMMA SignalImplements ==
  ASSUME CInv, Counted, NEW t \in Threads, NEW all \in BOOLEAN,
         NEW place \in {"signal", "broadcast"}, NEW from \in Place,
         from \in {place, IF all THEN "broadcastGate" ELSE "signalGate"},
         all <=> place = "broadcast",
         NEW to \in {"release", "out"}, goes(t, from, to), UNCHANGED <<m_queue, ret>>,
         NEW n \in Nat, Tokens' = Tokens + n,
         n = IF m_blocked - m_gone = 0 THEN 0 ELSE share(all, m_blocked - m_gone)
  PROVE  Promise!Next
<1>1. doing[t] = place /\ doing' = [doing EXCEPT ![t] = "other"]
  BY DoingMoves DEF seen, Place
<1>2. /\ Tokens \in Nat /\ m_blocked - m_gone \in Nat
      /\ Cardinality(Promise!Waiters) = (m_blocked - m_gone) + Tokens
  BY MappedState
<1>3. CASE place = "signal"
  <2>1. n = IF m_blocked - m_gone = 0 THEN 0 ELSE 1
    BY <1>3 DEF share
  <2>2. Tokens' = IF Tokens < Cardinality(Promise!Waiters) THEN Tokens + 1 ELSE Tokens
    BY <1>2, <2>1
  <2>3. Promise!signal(t)
    BY <1>1, <1>3, <2>2, SameSize DEF Promise!signal, Promise!ends
  <2> QED
    BY <2>3 DEF Promise!Next
<1>4. CASE place = "broadcast"
  <2>1. n = m_blocked - m_gone
    BY <1>2, <1>4 DEF share
  <2>2. Tokens' = Cardinality(Promise!Waiters)
    BY <1>2, <2>1
  <2>3. Promise!broadcast(t)
    BY <1>1, <1>4, <2>2, SameSize DEF Promise!broadcast, Promise!ends
  <2> QED
    BY <2>3 DEF Promise!Next
<1> QED
  BY <1>3, <1>4

\* Every way through signal and broadcast.
LEMMA SignalStepImplements ==
  ASSUME CInv, Counted, NEW t \in Threads, NEW all \in BOOLEAN,
         NEW place \in {"signal", "broadcast"}, all <=> place = "broadcast",
         NEW gatePlace, gatePlace = IF all THEN "broadcastGate" ELSE "signalGate",
         signalMore(t, place, all) \/ signalFirst(t, place, gatePlace)
           \/ closeGate(t, gatePlace, all)
  PROVE  Promise!Next \/ Hidden
<1> DEFINE free == m_blocked - m_gone
           n == IF free = 0 THEN 0 ELSE share(all, free)
<1>1. free \in Nat /\ m_blocked \in Nat /\ m_gone \in Nat /\ m_blocked < Word /\ Word \in Nat
  BY MappedState, WordFacts DEF CInv, ConditionTypeOK
<1>2. n \in Nat /\ n \in 0..Word-1 /\ (n = 0 <=> free = 0)
  BY <1>1 DEF share
<1>3. place \in Place /\ gatePlace \in Place
  BY DEF Place
<1>4. ASSUME NEW from \in {place, gatePlace}, NEW to \in {"release", "out"}, goes(t, from, to),
             signals' = [signals EXCEPT ![t] = n], UNCHANGED <<m_queue, ret>>
      PROVE  Promise!Next
  <2> HIDE DEF n, free
  <2>1. signals[t] = 0 /\ m_queue \in Nat
    BY <1>4 DEF CInv, ReleaseInv, goes, ConditionTypeOK
  <2>2. Tokens \in Nat /\ Tokens' = Tokens + (m_queue' - m_queue) + n - signals[t]
    BY <1>2, <1>4, <2>1, TokensMove
  <2>3. Tokens' = Tokens + n
    BY <1>2, <1>4, <2>1, <2>2
  <2>4. n = IF m_blocked - m_gone = 0 THEN 0 ELSE share(all, m_blocked - m_gone)
    BY DEF n, free
  <2> QED
    BY <1>2, <1>3, <1>4, <2>3, <2>4, SignalImplements
<1>5. CASE signalMore(t, place, all)
  <2>1. m_gone = 0 /\ free = m_blocked
    BY <1>1, <1>5 DEF signalMore, Counted
  <2>2. /\ goes(t, place, IF n = 0 THEN "out" ELSE "release")
        /\ signals' = [signals EXCEPT ![t] = n] /\ UNCHANGED <<m_queue, ret>>
    BY <1>5, <2>1 DEF signalMore
  <2> HIDE DEF n
  <2>3. PICK to \in {"release", "out"} : goes(t, place, to)
    BY <2>2
  <2> QED
    BY <1>4, <2>2, <2>3
<1>6. CASE signalFirst(t, place, gatePlace)
  <2>1. goes(t, place, gatePlace) /\ UNCHANGED <<m_queue, signals, ret>>
    BY <1>6 DEF signalFirst, counters, locals
  <2>2. Tokens' = Tokens
    BY <2>1 DEF Tokens, Promised
  <2>3. seen(place, ret[t]) = seen(gatePlace, ret'[t])
    BY DEF seen
  <2> QED
    BY <1>3, <2>1, <2>2, <2>3, HiddenMove
<1>7. CASE closeGate(t, gatePlace, all)
  <2>1. UNCHANGED <<m_queue, ret>>
    BY <1>7 DEF closeGate
  <2>2. CASE m_blocked > m_gone
    <3>1. n = share(all, m_blocked - m_gone)
      BY <1>1, <2>2
    <3>2. goes(t, gatePlace, "release") /\ signals' = [signals EXCEPT ![t] = n]
      BY <1>7, <2>2, <3>1 DEF closeGate
    <3> HIDE DEF n
    <3> QED
      BY <1>4, <2>1, <3>2
  <2>3. CASE ~(m_blocked > m_gone)
    <3>1. n = 0
      BY <1>1, <2>3
    <3>2. goes(t, gatePlace, "out") /\ UNCHANGED signals
      BY <1>7, <2>3 DEF closeGate
    <3>3. signals[t] = 0 /\ signals \in [Threads -> 0..Word-1]
      BY <3>2 DEF CInv, ReleaseInv, goes, ConditionTypeOK
    <3>4. signals' = [signals EXCEPT ![t] = n]
      BY <3>1, <3>2, <3>3
    <3> HIDE DEF n
    <3> QED
      BY <1>4, <2>1, <3>2, <3>4
  <2> QED
    BY <2>2, <2>3
<1> QED
  BY <1>5, <1>6, <1>7

LEMMA StepImplements ==
  ASSUME CInv, CountInv, ~late', NEW t \in Threads, caller(t) \/ inCondition(t)
  PROVE  Promise!Next \/ Hidden
<1>1. CASE caller(t)
  BY <1>1, CallerImplements
<1>2. CASE inCondition(t)
  <2>1. ~late /\ ~(leaveSignalled(t) /\ ~ret[t])
    BY <1>2 DEF inCondition
  <2>2. Counted /\ Drained
    BY <2>1 DEF CountInv
  <2>3. CASE enterWait(t) \/ wake(t) \/ timeout(t) \/ leaveUnsignalled(t)
    BY <2>2, <2>3, EnterImplements, WakeImplements, GiveUpImplements DEF Promise!Next
  <2>4. CASE \/ leaveSignalled(t) \/ takeBack(t) \/ openGate(t) \/ relock(t) \/ normalise(t)
             \/ releaseQueue(t)
    BY <2>1, <2>2, <2>4, LeaveImplements
  <2>5. CASE signal(t)
    BY <2>2, <2>5, SignalStepImplements DEF signal
  <2>6. CASE broadcast(t)
    BY <2>2, <2>6, SignalStepImplements DEF broadcast
  <2> QED
    BY <1>2, <2>3, <2>4, <2>5, <2>6 DEF inCondition, wait, timedWait
<1> QED
  BY <1>1, <1>2

\* Until a wait that timed out leaves during a signal Condition is a WaitSet: no
\* signal misses a thread that waits, no wake-up is left for one that waits later,
\* and none goes with a thread that gives up.
THEOREM WaitSetImplemented == UseSpec => ImplementsWaitSet
<1>1. ConditionInit => Promise!Init
  <2> SUFFICES ASSUME ConditionInit PROVE Promise!Init
    OBVIOUS
  <2>1. doing = [t \in Threads |-> "other"]
    BY DEF ConditionInit, doing, shows, Unwoken
  <2>2. Promised = {}
    BY DEF ConditionInit, Promised
  <2>3. Tokens = 0
    BY <2>2, FS_EmptySet DEF ConditionInit, Tokens
  <2> QED
    BY <2>1, <2>3 DEF Promise!Init
<1>2. CInv /\ CountInv /\ [UseNext]_conditionVars
        => [late' \/ Promise!Next]_<<doing, Tokens>>
  <2> SUFFICES ASSUME CInv, CountInv, [UseNext]_conditionVars, ~late'
               PROVE  Promise!Next \/ Hidden
    BY DEF Hidden
  <2>1. CASE UseNext
    BY <2>1, StepImplements DEF UseNext
  <2>2. CASE UNCHANGED conditionVars
    BY <2>2 DEF conditionVars, counters, locals, Hidden, doing, shows, Unwoken, Tokens, Promised
  <2> QED
    BY <2>1, <2>2
<1> QED
  BY <1>1, <1>2, GateInvariant, CountInvariant, PTL DEF UseSpec, ImplementsWaitSet
================================================================================
