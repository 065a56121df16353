------------------------------ MODULE Condition ------------------------------
(***************************************************************************)
(* Util::Condition of libutil in its Windows build: a condition variable   *)
(* made of two semaphores (m_gate, m_queue), a Windows mutex (m_mutex) and *)
(* three counters.                                                         *)
(*                                                                         *)
(* One action per stretch of code between two blocking Windows calls.  A   *)
(* thread that waits holds the caller's mutex on entry and again when the  *)
(* call returns.  WaitForSingleObject takes a token of m_queue or, in a    *)
(* timed wait, gives up when there is none.                                *)
(***************************************************************************)
EXTENDS Integers, FiniteSets

CONSTANTS Threads, None,
          Word         \* ULONG_MAX + 1: the counters are unsigned 32-bit words

ASSUME ConditionAssumption ==
  /\ IsFiniteSet(Threads)
  /\ None \notin Threads
  /\ Word \in Nat /\ Word > 2
  /\ 2 * Cardinality(Threads) <= Word

\* Where wait settles m_gone even if nobody signals: ULONG_MAX / 2.
GoneLimit == (Word - 1) \div 2

VARIABLES
  mtx,         \* the thread that holds the caller's Mutex, or None
  m_gate, m_queue,                     \* the counts of the two semaphores
  m_mutex,                             \* the thread that holds m_mutex, or None
  m_blocked, m_gone, m_waiting,
  at,          \* where in Condition a thread is: see Place
  timed,       \* the wait of the thread has a timeout
  ret,         \* what that wait returns: woken, not timed out
  was_gone,    \* local of wait: the tokens still to be taken back
  signals,     \* local of signal and broadcast: the tokens to be released
  late,        \* history: a wait that timed out has left while a signal was under way
  wrapped      \* history: normalise has taken m_blocked below zero

counters == <<m_gate, m_queue, m_blocked, m_gone, m_waiting>>
locals == <<timed, ret, was_gone, signals>>
history == <<late, wrapped>>
conditionVars == <<mtx, counters, m_mutex, at, locals, history>>

\* out: in no call; enter: in enterWait; blocked: at m_queue; leave: has been
\* woken or timed out, before m_mutex; normalise: before m_gate with m_mutex
\* held; drain: takes tokens back before it opens the gate; relock: before
\* mutex.lock; signal, broadcast: before m_mutex; signalGate, broadcastGate:
\* before m_gate with m_mutex held; release: before ReleaseSemaphore(m_queue).
Place == {"out", "enter", "blocked", "leave", "normalise", "drain", "relock",
          "signal", "broadcast", "signalGate", "broadcastGate", "release"}

\* The counters are words: every subtraction but the one in normalise is exact in
\* Int, so a counter that went below zero there would leave its type.
ConditionTypeOK ==
  /\ mtx \in Threads \cup {None}
  /\ m_gate \in {0, 1}
  /\ m_queue \in Nat
  /\ m_mutex \in Threads \cup {None}
  /\ m_blocked \in 0..Word-1 /\ m_gone \in 0..Word-1 /\ m_waiting \in 0..Word-1
  /\ at \in [Threads -> Place]
  /\ timed \in [Threads -> BOOLEAN] /\ ret \in [Threads -> BOOLEAN]
  /\ was_gone \in [Threads -> 0..Word-1] /\ signals \in [Threads -> 0..Word-1]
  /\ late \in BOOLEAN /\ wrapped \in BOOLEAN

ConditionInit ==
  /\ mtx = None
  /\ m_gate = 1 /\ m_queue = 0
  /\ m_mutex = None
  /\ m_blocked = 0 /\ m_gone = 0 /\ m_waiting = 0
  /\ at = [t \in Threads |-> "out"]
  /\ timed = [t \in Threads |-> FALSE] /\ ret = [t \in Threads |-> FALSE]
  /\ was_gone = [t \in Threads |-> 0] /\ signals = [t \in Threads |-> 0]
  /\ late = FALSE /\ wrapped = FALSE

goes(t, from, to) == at[t] = from /\ at' = [at EXCEPT ![t] = to]

--------------------------------------------------------------------------------
(* wait.  enterWait passes the gate and counts the thread, then the caller's *)
(* mutex is given back.                                                      *)

\* Fault: the thread does not wait for the gate.
enterWaitUngated(t) ==
  /\ goes(t, "enter", "blocked")
  /\ m_blocked' = (m_blocked + 1) % Word
  /\ mtx' = None
  /\ UNCHANGED <<m_gate, m_queue, m_gone, m_waiting, m_mutex, locals>>

enterWait(t) ==
  /\ goes(t, "enter", "blocked")
  /\ m_gate = 1
  /\ m_blocked' = (m_blocked + 1) % Word
  /\ mtx' = None
  /\ UNCHANGED <<m_gate, m_queue, m_gone, m_waiting, m_mutex, locals>>

wake(t) ==
  /\ goes(t, "blocked", "leave")
  /\ m_queue > 0
  /\ m_queue' = m_queue - 1
  /\ ret' = [ret EXCEPT ![t] = TRUE]
  /\ UNCHANGED <<mtx, m_gate, m_blocked, m_gone, m_waiting, m_mutex, timed, was_gone, signals>>

timeout(t) ==
  /\ goes(t, "blocked", "leave")
  /\ timed[t]
  /\ m_queue = 0
  /\ ret' = [ret EXCEPT ![t] = FALSE]
  /\ UNCHANGED <<mtx, counters, m_mutex, timed, was_gone, signals>>

\* A signal is under way (m_waiting # 0): the thread takes its part in it.  One
\* that timed out withdraws from the blocked ones or, all of those being
\* signalled already, leaves a token behind.  The last one opens the gate, at
\* once if somebody is blocked, otherwise after taking tokens back.
blockedAfter(t) == IF ~ret[t] /\ m_blocked # 0 THEN m_blocked - 1 ELSE m_blocked
goneAfter(t) == IF ~ret[t] /\ m_blocked = 0 THEN m_gone + 1 ELSE m_gone

leaveSignalled(t) ==
  /\ m_waiting # 0
  /\ m_mutex = None
  /\ m_waiting' = m_waiting - 1
  /\ m_blocked' = blockedAfter(t)
  /\ IF m_waiting' # 0
       THEN goes(t, "leave", "relock") /\ m_gone' = goneAfter(t)
            /\ UNCHANGED <<m_gate, was_gone>>
     ELSE IF m_blocked' # 0
       THEN goes(t, "leave", "relock") /\ m_gone' = goneAfter(t)
            /\ m_gate' = m_gate + 1 /\ UNCHANGED was_gone
       ELSE goes(t, "leave", "drain") /\ m_gone' = 0
            /\ was_gone' = [was_gone EXCEPT ![t] = m_gone] /\ UNCHANGED m_gate
  /\ UNCHANGED <<mtx, m_queue, m_mutex, timed, ret, signals>>

\* No signal is under way: one more thread is gone that m_blocked still counts.
leaveUnsignalled(t) ==
  /\ m_waiting = 0
  /\ m_mutex = None
  /\ m_gone' = m_gone + 1
  /\ IF m_gone' = GoneLimit
       THEN goes(t, "leave", "normalise") /\ m_mutex' = t
       ELSE goes(t, "leave", "relock") /\ UNCHANGED m_mutex
  /\ UNCHANGED <<mtx, m_gate, m_queue, m_blocked, m_waiting, locals>>

\* m_gone can be above m_blocked here, the difference wraps then: see wrapped.
normalise(t) ==
  /\ goes(t, "normalise", "relock")
  /\ m_gate = 1
  /\ m_blocked' = (m_blocked - m_gone) % Word
  /\ m_gone' = 0
  /\ m_mutex' = None
  /\ UNCHANGED <<mtx, m_gate, m_queue, m_waiting, locals>>

\* "better now than spurious later"
takeBack(t) ==
  /\ at[t] = "drain"
  /\ was_gone[t] > 0
  /\ m_queue > 0
  /\ m_queue' = m_queue - 1
  /\ was_gone' = [was_gone EXCEPT ![t] = @ - 1]
  /\ UNCHANGED <<mtx, m_gate, m_blocked, m_gone, m_waiting, m_mutex, at, timed, ret, signals>>

\* Fault: the gate stays closed.
openGateForgotten(t) ==
  /\ goes(t, "drain", "relock")
  /\ was_gone[t] = 0
  /\ UNCHANGED <<mtx, counters, m_mutex, locals>>

openGate(t) ==
  /\ goes(t, "drain", "relock")
  /\ was_gone[t] = 0
  /\ m_gate' = m_gate + 1
  /\ UNCHANGED <<mtx, m_queue, m_blocked, m_gone, m_waiting, m_mutex, locals>>

relock(t) ==
  /\ goes(t, "relock", "out")
  /\ mtx = None
  /\ mtx' = t
  /\ UNCHANGED <<counters, m_mutex, locals>>

--------------------------------------------------------------------------------
(* signal and broadcast.  The gate is closed until those they woke have left. *)

share(all, n) == IF all THEN n ELSE 1

\* Fault: threads signalled are not taken off the blocked ones.
signalMoreUncounted(t, place, all) ==
  /\ m_mutex = None
  /\ m_waiting # 0
  /\ LET n == IF m_blocked = 0 THEN 0 ELSE share(all, m_blocked) IN
       /\ goes(t, place, IF n = 0 THEN "out" ELSE "release")
       /\ m_waiting' = (m_waiting + n) % Word
       /\ signals' = [signals EXCEPT ![t] = n]
  /\ UNCHANGED <<mtx, m_gate, m_queue, m_blocked, m_gone, m_mutex, timed, ret, was_gone>>

\* Part of a signal that is under way already: the gate is closed.
signalMore(t, place, all) ==
  /\ m_mutex = None
  /\ m_waiting # 0
  /\ LET n == IF m_blocked = 0 THEN 0 ELSE share(all, m_blocked) IN
       /\ goes(t, place, IF n = 0 THEN "out" ELSE "release")
       /\ m_waiting' = (m_waiting + n) % Word
       /\ m_blocked' = m_blocked - n
       /\ signals' = [signals EXCEPT ![t] = n]
  /\ UNCHANGED <<mtx, m_gate, m_queue, m_gone, m_mutex, timed, ret, was_gone>>

signalFirst(t, place, gatePlace) ==
  /\ goes(t, place, gatePlace)
  /\ m_mutex = None
  /\ m_waiting = 0
  /\ m_mutex' = t
  /\ UNCHANGED <<mtx, counters, locals>>

\* Fault: the gate is opened in any case.
closeGateOpens(t, gatePlace, all) ==
  /\ m_gate = 1
  /\ m_mutex' = None
  /\ m_blocked > m_gone
  /\ LET n == share(all, m_blocked - m_gone) IN
       /\ goes(t, gatePlace, "release")
       /\ m_blocked' = m_blocked - m_gone - n
       /\ m_gone' = 0
       /\ m_waiting' = n
       /\ signals' = [signals EXCEPT ![t] = n]
  /\ UNCHANGED <<mtx, m_gate, m_queue, timed, ret, was_gone>>

\* Fault: the threads gone are settled, but m_gone is kept.
closeGateKeepsGone(t, gatePlace, all) ==
  /\ m_gate = 1
  /\ m_mutex' = None
  /\ IF m_blocked > m_gone
       THEN LET n == share(all, m_blocked - m_gone) IN
              /\ goes(t, gatePlace, "release")
              /\ m_gate' = 0
              /\ m_blocked' = m_blocked - m_gone - n
              /\ m_waiting' = n
              /\ signals' = [signals EXCEPT ![t] = n]
       ELSE /\ goes(t, gatePlace, "out")
            /\ UNCHANGED <<m_gate, m_blocked, m_waiting, signals>>
  /\ UNCHANGED <<mtx, m_queue, m_gone, timed, ret, was_gone>>

\* With the gate closed the threads gone are settled; with nobody to wake it is
\* opened again.
closeGate(t, gatePlace, all) ==
  /\ m_gate = 1
  /\ m_mutex' = None
  /\ IF m_blocked > m_gone
       THEN LET n == share(all, m_blocked - m_gone) IN
              /\ goes(t, gatePlace, "release")
              /\ m_gate' = 0
              /\ m_blocked' = m_blocked - m_gone - n
              /\ m_gone' = 0
              /\ m_waiting' = n
              /\ signals' = [signals EXCEPT ![t] = n]
       ELSE /\ goes(t, gatePlace, "out")
            /\ UNCHANGED <<m_gate, m_blocked, m_gone, m_waiting, signals>>
  /\ UNCHANGED <<mtx, m_queue, timed, ret, was_gone>>

releaseQueue(t) ==
  /\ goes(t, "release", "out")
  /\ m_queue' = m_queue + signals[t]
  /\ signals' = [signals EXCEPT ![t] = 0]
  /\ UNCHANGED <<mtx, m_gate, m_blocked, m_gone, m_waiting, m_mutex, timed, ret, was_gone>>

signal(t) ==
  signalMore(t, "signal", FALSE) \/ signalFirst(t, "signal", "signalGate")
    \/ closeGate(t, "signalGate", FALSE)

broadcast(t) ==
  signalMore(t, "broadcast", TRUE) \/ signalFirst(t, "broadcast", "broadcastGate")
    \/ closeGate(t, "broadcastGate", TRUE)

\* The rest of a call that has begun.
wait(t) ==
  \/ enterWait(t) \/ wake(t) \/ leaveSignalled(t) \/ leaveUnsignalled(t)
  \/ takeBack(t) \/ openGate(t) \/ relock(t)

timedWait(t) == timeout(t) \/ normalise(t)

inCondition(t) ==
  /\ wait(t) \/ timedWait(t) \/ signal(t) \/ broadcast(t) \/ releaseQueue(t)
  /\ late' = (late \/ (leaveSignalled(t) /\ ~ret[t]))
  /\ wrapped' = (wrapped \/ (normalise(t) /\ m_gone > m_blocked))
================
