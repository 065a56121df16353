----------------------------- MODULE ConditionUse -----------------------------
(***************************************************************************)
(* Condition under threads that do everything its interface allows: take   *)
(* the mutex, wait with or without a timeout, signal and broadcast with    *)
(* the mutex held or without it.                                           *)
(***************************************************************************)
EXTENDS Condition

lock(t) ==
  /\ at[t] = "out" /\ mtx = None
  /\ mtx' = t
  /\ UNCHANGED <<counters, m_mutex, at, locals, history>>

\* What the last wait was like does not matter any more.
unlock(t) ==
  /\ at[t] = "out" /\ mtx = t
  /\ mtx' = None
  /\ timed' = [timed EXCEPT ![t] = FALSE]
  /\ UNCHANGED <<counters, m_mutex, at, ret, was_gone, signals, history>>

beginWait(t) ==
  /\ mtx = t
  /\ goes(t, "out", "enter")
  /\ \E b \in BOOLEAN : timed' = [timed EXCEPT ![t] = b]
  /\ UNCHANGED <<mtx, counters, m_mutex, ret, was_gone, signals, history>>

\* Straight after lock, or whenever.
beginSignal(t) ==
  /\ goes(t, "out", "signal") \/ goes(t, "out", "broadcast")
  /\ UNCHANGED mtx \/ (mtx = None /\ mtx' = t)
  /\ UNCHANGED <<counters, m_mutex, locals, history>>

caller(t) == lock(t) \/ unlock(t) \/ beginWait(t) \/ beginSignal(t)

UseNext == \E t \in Threads : caller(t) \/ inCondition(t)

UseSpec == ConditionInit /\ [][UseNext]_conditionVars

--------------------------------------------------------------------------------
(* Properties. *)

In(place) == {t \in Threads : at[t] = place}

\* The tokens that a thread is about to put into the queue, signals[t] of each.
Promised == UNION {{t} \X (1..signals[t]) : t \in Threads}

\* Tokens a signal has promised: in the queue, or about to be put there.
Tokens == m_queue + Cardinality(Promised)

\* A wait goes on until a token is taken or, timed out, until it has left.
Unwoken == {t \in Threads : at[t] = "blocked" \/ (at[t] = "leave" /\ ~ret[t])}
Woken == {t \in Threads : at[t] = "leave" /\ ret[t]}

\* The gate is closed exactly while a signal is under way, and the signal can come
\* to its end.  Before the last one leaves: nobody keeps m_mutex from those who
\* leave and, unless m_blocked has wrapped, as many threads have left m_queue or
\* can be woken as m_waiting counts.  After that: one thread opens the gate, and
\* until a timed-out wait left during a signal it has no token to take first.
GateOpensAgain ==
  /\ m_gate = 0 <=> m_waiting # 0 \/ In("drain") # {}
  /\ m_waiting # 0 =>
       /\ m_mutex = None
       /\ m_waiting <= Tokens + Cardinality(In("leave"))
       /\ ~wrapped => m_waiting <= Cardinality(In("blocked")) + Cardinality(In("leave"))
  /\ In("drain") # {} =>
       /\ m_waiting = 0
       /\ Cardinality(In("drain")) = 1
       /\ ~late => \A t \in In("drain") : was_gone[t] = 0

\* Until a wait that timed out leaves during a signal: the tokens and the woken
\* threads are those m_waiting counts, and m_blocked counts those not woken that no
\* token is meant for, besides the m_gone that have left.
WakeUpsCounted ==
  ~late =>
    /\ m_waiting = Tokens + Cardinality(Woken)
    /\ Cardinality(Unwoken) = (m_blocked - m_gone) + Tokens
    /\ m_waiting # 0 => m_gone = 0

\* "m_blocked; // # threads blocked on the condition", "m_gone; // # threads that
\* timed out": m_gone is not above m_blocked where it is settled in, however many
\* waits time out, until one of them leaves during a signal.
SettledExactly == wrapped => late

\* What a thread does with the condition; what comes before and after a wait does
\* not show.
shows(t) ==
  IF t \in Unwoken THEN "wait"
  ELSE IF at[t] \in {"signal", "signalGate"} THEN "signal"
  ELSE IF at[t] \in {"broadcast", "broadcastGate"} THEN "broadcast"
  ELSE "other"

doing == [t \in Threads |-> shows(t)]

Promise == INSTANCE WaitSet WITH wakeups <- Tokens

\* Until a wait that timed out leaves during a signal, two semaphores and three
\* counters do what a condition variable promises: no signal misses a thread that
\* waits, none is left for one that waits later, and who gives up takes none along.
ImplementsWaitSet ==
  Promise!Init /\ [][late' \/ Promise!Next]_<<doing, Tokens>>

AtRest == \A t \in Threads : at[t] = "out"

\* "better now than spurious later": no token is left over when nobody is in a
\* call, one would wake a later waiter whom nobody signals.  It does not hold
\* (README, findings); until a wait leaves late WakeUpsCounted implies it.
NoSpuriousLater == AtRest => m_queue = 0

\* Where wait settles m_gone it is not above m_blocked.  It does not hold either:
\* after a late leave it can be (README, findings), and m_blocked wraps.
BlockedNeverBelowZero == ~wrapped

\* The thread that takes left-over tokens back finds them all.  With four threads
\* it need not, once a wait left late: a thread m_blocked does not count may take
\* one of them.  Then nobody opens the gate again.
TakeBackEnds == \A t \in In("drain") : was_gone[t] <= Tokens
================================================================================
