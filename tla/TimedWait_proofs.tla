--------------------------- MODULE TimedWait_proofs ---------------------------
(* Proofs about TimedWait, for every time of day and every timeout. *)
EXTENDS TimedWait, TLAPS

Started == begin \in [tv_usec : Usecs, ms : Timeouts]

Exact == deadline = carried(added)

IInv ==
  /\ Started
  /\ result \in {"none", "waiting", "woken", "timeout", "EINVAL"}
  /\ result # "none" => Exact

\* From setDeadline on, the deadline is the one computed from the arguments.
THEOREM Invariant == Spec => []IInv
<1>1. Init => IInv
  BY DEF Init, IInv, Started
<1>2. IInv /\ [Next]_vars => IInv'
  BY DEF IInv, Started, Exact, Next, setDeadline, pthread_cond_timedwait, added, vars
<1> QED
  BY <1>1, <1>2, PTL DEF Spec

\* What a wait that begins at u and lasts m milliseconds asks for, d.
Later(d, u, m) ==
  /\ 0 <= d.tv_nsec /\ d.tv_nsec <= Billion
  /\ d.tv_nsec % 1000 = 0
  /\ d.tv_sec * Million + d.tv_nsec \div 1000 = u + m * 1000

Asked(u, m) == carried([tv_sec  |-> m \div 1000,
                        tv_nsec |-> (u + (m % 1000) * 1000) * 1000])

\* The additions and the carry of setDeadline, for one pair of arguments.
LEMMA Deadline ==
  ASSUME NEW u \in Nat, u < Million, NEW m \in Nat
  PROVE  /\ Later(Asked(u, m), u, m)
         /\ Asked(u, m).tv_nsec = Billion => WholeSecond(u, m)
         /\ Asked(u, m).tv_nsec \in Int
<1> DEFINE s == m \div 1000
           r == m % 1000
           k == u + r * 1000
           d == Asked(u, m)
<1>1. s \in Nat /\ r \in Nat /\ r < 1000 /\ m = s * 1000 + r
  BY SMT
<1>2. k \in Nat /\ k < 2 * Million
  BY <1>1, SMT DEF Million
<1>3. u + m * 1000 = s * Million + k
  BY <1>1, SMT DEF Million
<1>4. d = carried([tv_sec |-> s, tv_nsec |-> k * 1000])
  BY DEF Asked
<1>5. WholeSecond(u, m) <=> k = Million
  BY DEF WholeSecond
<1> HIDE DEF s, r, k, d
<1>6. (k * 1000) % 1000 = 0 /\ (k * 1000) \div 1000 = k
  BY <1>2, SMT
<1>7. (k * 1000 - Billion) % 1000 = 0 /\ (k * 1000 - Billion) \div 1000 = k - Million
  BY <1>2, SMT DEF Million, Billion
<1>8. CASE k * 1000 > Billion
  <2>1. d.tv_sec = s + 1 /\ d.tv_nsec = k * 1000 - Billion
    BY <1>4, <1>8, SMT DEF carried
  <2>2. 0 <= d.tv_nsec /\ d.tv_nsec < Billion /\ d.tv_nsec \in Int
    BY <1>2, <1>8, <2>1, SMT DEF Million, Billion
  <2>3. d.tv_nsec % 1000 = 0 /\ d.tv_nsec \div 1000 = k - Million
    BY <1>7, <2>1, SMT
  <2>4. d.tv_sec * Million + d.tv_nsec \div 1000 = u + m * 1000
    BY <1>1, <1>2, <1>3, <2>1, <2>3, SMT DEF Million
  <2>5. Later(d, u, m)
    BY <2>2, <2>3, <2>4, SMT DEF Later, Billion
  <2>6. d.tv_nsec # Billion
    BY <2>2, SMT DEF Billion
  <2> QED
    BY <2>2, <2>5, <2>6 DEF d
<1>9. CASE ~(k * 1000 > Billion)
  <2>1. d.tv_sec = s /\ d.tv_nsec = k * 1000
    BY <1>4, <1>9, SMT DEF carried
  <2>2. 0 <= d.tv_nsec /\ d.tv_nsec <= Billion /\ d.tv_nsec \in Int
    BY <1>2, <1>9, <2>1, SMT DEF Million, Billion
  <2>3. d.tv_sec * Million + d.tv_nsec \div 1000 = u + m * 1000
    BY <1>3, <1>6, <2>1, SMT
  <2>4. Later(d, u, m)
    BY <1>6, <2>1, <2>2, <2>3, SMT DEF Later
  <2>5. d.tv_nsec = Billion => k = Million
    BY <1>2, <2>1, SMT DEF Million, Billion
  <2> QED
    BY <1>5, <2>2, <2>4, <2>5 DEF d
<1> QED
  BY <1>8, <1>9

\* The same of the deadline a wait has stored.
LEMMA DeadlineOfWait ==
  ASSUME Started, Exact
  PROVE  /\ begin.tv_usec \in Usecs /\ begin.ms \in Timeouts
         /\ Later(deadline, begin.tv_usec, begin.ms)
         /\ deadline.tv_nsec = Billion => WholeSecond(begin.tv_usec, begin.ms)
         /\ deadline.tv_nsec \in Int
<1>1. begin.tv_usec \in Usecs /\ begin.ms \in Timeouts
  BY DEF Started
<1>2. begin.tv_usec \in Nat /\ begin.tv_usec < Million /\ begin.ms \in Nat
  <2>1. Usecs \subseteq Nat /\ Timeouts \subseteq Nat \ {0}
    BY TimedWaitAssumption
  <2>2. \A u \in Usecs : u < Million
    BY TimedWaitAssumption
  <2>3. begin.tv_usec \in Nat /\ begin.ms \in Nat
    BY <1>1, <2>1
  <2>4. begin.tv_usec < Million
    BY <1>1, <2>2
  <2> QED
    BY <2>3, <2>4
<1>3. deadline = Asked(begin.tv_usec, begin.ms)
  BY DEF Exact, added, Asked
<1> QED
  BY <1>1, <1>2, <1>3, Deadline

\* The deadline lies ms milliseconds after the beginning of the wait.
THEOREM DeadlineCorrect == Spec => []DeadlineIsMsLater
<1>1. IInv => DeadlineIsMsLater
  <2> SUFFICES ASSUME IInv, result # "none" PROVE DeadlineIsMsLater
    BY DEF DeadlineIsMsLater
  <2>1. Started /\ Exact
    BY DEF IInv
  <2>2. Later(deadline, begin.tv_usec, begin.ms)
    BY <2>1, DeadlineOfWait
  <2> QED
    BY <2>2, SMT DEF DeadlineIsMsLater, Later
<1> QED
  BY <1>1, Invariant, PTL

\* pthread_cond_timedwait refuses the deadline in one case only: the microseconds
\* add up to one second exactly.
THEOREM RefusedCorrect == Spec => []RefusedAtWholeSecond
<1>1. Init => RefusedAtWholeSecond
  BY DEF Init, RefusedAtWholeSecond
<1>2. IInv /\ RefusedAtWholeSecond /\ [Next]_vars => RefusedAtWholeSecond'
  <2>1. ASSUME IInv, pthread_cond_timedwait, result' = "EINVAL"
        PROVE  WholeSecond(begin.tv_usec, begin.ms) /\ begin' = begin
    <3>1. Started /\ Exact /\ begin' = begin
      BY <2>1 DEF IInv, pthread_cond_timedwait
    <3>2. /\ Later(deadline, begin.tv_usec, begin.ms)
          /\ deadline.tv_nsec = Billion => WholeSecond(begin.tv_usec, begin.ms)
          /\ deadline.tv_nsec \in Int
      BY <3>1, DeadlineOfWait
    <3>3. ~(0 <= deadline.tv_nsec /\ deadline.tv_nsec < Billion)
      BY <2>1 DEF pthread_cond_timedwait
    <3>4. deadline.tv_nsec = Billion
      BY <3>2, <3>3, SMT DEF Later, Billion
    <3> QED
      BY <3>1, <3>2, <3>4
  <2>2. ASSUME RefusedAtWholeSecond, UNCHANGED vars
        PROVE  RefusedAtWholeSecond'
    BY <2>2 DEF RefusedAtWholeSecond, vars
  <2>3. ASSUME setDeadline
        PROVE  RefusedAtWholeSecond'
    BY <2>3 DEF setDeadline, RefusedAtWholeSecond
  <2>4. ASSUME IInv, pthread_cond_timedwait
        PROVE  RefusedAtWholeSecond'
    BY <2>1, <2>4 DEF RefusedAtWholeSecond
  <2> QED
    BY <2>2, <2>3, <2>4 DEF Next
<1> QED
  BY <1>1, <1>2, Invariant, PTL DEF Spec

================================================================================
