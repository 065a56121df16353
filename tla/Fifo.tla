-------------------------------- MODULE Fifo --------------------------------
(***************************************************************************)
(* Util::Fifo of libutil over Condition: any number of threads add         *)
(* messages and wait for them.  Which message is which does not matter     *)
(* here, only how many are queued.                                         *)
(*                                                                         *)
(* Every method holds mMutex (mtx of Condition) from beginning to end,     *)
(* except while it waits; add signals with the mutex held.                 *)
(***************************************************************************)
EXTENDS Condition

CONSTANTS Uses,         \* ways to use the queue: see use
          MaxLength     \* bound of the model: no add when so many are queued

ASSUME FifoAssumption ==
  /\ Uses \subseteq [consumers : SUBSET Threads, timed : SUBSET Threads]
  /\ MaxLength \in Nat \ {0}

VARIABLES
  mFifo,     \* the number of queued messages
  mSize,     \* the size the class keeps beside it
  call,      \* the method a thread is in
  use        \* the threads that may call getNext() and those that may call
             \* getNext(ms); chosen at the beginning

fifoVars == <<mFifo, mSize, call, use>>
vars == <<fifoVars, conditionVars>>

TypeOK ==
  /\ ConditionTypeOK
  /\ mFifo \in 0..MaxLength
  /\ mSize \in 0..MaxLength
  /\ call \in [Threads -> {"idle", "add", "getNext", "getNextMs"}]
  /\ use \in Uses

Init ==
  /\ ConditionInit
  /\ mFifo = 0 /\ mSize = 0
  /\ call = [t \in Threads |-> "idle"]
  /\ use \in Uses

enters(t, method) ==
  /\ call[t] = "idle" /\ mtx = None
  /\ mtx' = t
  /\ call' = [call EXCEPT ![t] = method]

returns(t) ==
  /\ mtx' = None
  /\ timed' = [timed EXCEPT ![t] = FALSE]
  /\ call' = [call EXCEPT ![t] = "idle"]

--------------------------------------------------------------------------------
\* Fault: nobody is signalled when messages are queued already.
addSilently(t) ==
  /\ mFifo < MaxLength
  /\ enters(t, "add")
  /\ mFifo' = mFifo + 1
  /\ mSize' = mSize + 1
  /\ IF mFifo = 0 THEN goes(t, "out", "signal") ELSE UNCHANGED at
  /\ UNCHANGED <<use, counters, m_mutex, locals, history>>

add(t) ==
  /\ mFifo < MaxLength
  /\ enters(t, "add")
  /\ mFifo' = mFifo + 1
  /\ mSize' = mSize + 1
  /\ goes(t, "out", "signal")
  /\ UNCHANGED <<use, counters, m_mutex, locals, history>>

addReturns(t) ==
  /\ call[t] = "add" /\ at[t] = "out"
  /\ returns(t)
  /\ UNCHANGED <<mFifo, mSize, use, counters, m_mutex, at, ret, was_gone, signals, history>>

clear(t) ==
  /\ call[t] = "idle" /\ mtx = None
  /\ mFifo' = 0
  /\ mSize' = 0
  /\ UNCHANGED <<call, use, conditionVars>>

--------------------------------------------------------------------------------
(* getNext, with and without a limit of time. *)

getNextBegins(t) ==
  /\ \/ t \in use.consumers /\ enters(t, "getNext")
     \/ t \in use.timed /\ enters(t, "getNextMs")
  /\ UNCHANGED <<mFifo, mSize, use, counters, m_mutex, at, locals, history>>

\* In getNext with the mutex held: at its start or back from wait.
testing(t) == call[t] \in {"getNext", "getNextMs"} /\ at[t] = "out" /\ mtx = t

\* A timed wait that was not signalled ends the call, message or not.
waitFailed(t) == timed[t] /\ ~ret[t]

take(t) ==
  /\ testing(t) /\ ~waitFailed(t)
  /\ mFifo > 0
  /\ mFifo' = mFifo - 1
  /\ mSize' = mSize - 1
  /\ returns(t)
  /\ UNCHANGED <<use, counters, m_mutex, at, ret, was_gone, signals, history>>

await(t) ==
  /\ testing(t) /\ ~waitFailed(t)
  /\ mFifo = 0
  /\ goes(t, "out", "enter")
  /\ timed' = [timed EXCEPT ![t] = call[t] = "getNextMs"]
  /\ UNCHANGED <<fifoVars, mtx, counters, m_mutex, ret, was_gone, signals, history>>

\* The time is over, before a wait or in one.
giveUp(t) ==
  /\ testing(t) /\ call[t] = "getNextMs"
  /\ waitFailed(t) \/ mFifo = 0
  /\ returns(t)
  /\ UNCHANGED <<mFifo, mSize, use, counters, m_mutex, at, ret, was_gone, signals, history>>

getNext(t) == take(t) \/ await(t) \/ giveUp(t)

--------------------------------------------------------------------------------
begin(t) == add(t) \/ clear(t) \/ getNextBegins(t)

goesOn(t) == addReturns(t) \/ getNext(t) \/ (inCondition(t) /\ UNCHANGED fifoVars)

Next == \E t \in Threads : begin(t) \/ goesOn(t)

Spec == Init /\ [][Next]_vars

\* Nobody has to call; a call goes on when it can, again and again.
FairSpec == Spec /\ \A t \in Threads : SF_vars(goesOn(t))

--------------------------------------------------------------------------------
(* Properties. *)

\* "It will wait if no messages are available": nobody is left waiting beside a
\* message with nothing under way that would wake it.
NobodyStranded ==
  LET resting(t) == call[t] = "idle" \/ (at[t] = "blocked" /\ m_queue = 0)
  IN  (\A t \in Threads : resting(t)) /\ mFifo > 0
        => \A t \in Threads : call[t] # "getNext"

\* A consumer that waits beside messages gets one, or others get them all.
WaitingServed ==
  \A t \in Threads :
    (call[t] = "getNext" /\ mFifo > 0) ~> (call[t] = "idle" \/ mFifo = 0)
================================================================================
