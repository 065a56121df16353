------------------------------ MODULE ThreadIf ------------------------------
(***************************************************************************)
(* Util::ThreadIf in the POSIX build: an object that runs thread() in a    *)
(* thread of its own.  The constructing thread calls run, shutdown and     *)
(* join.                                                                   *)
(*                                                                         *)
(* run stores the thread id after it has created the thread, the thread    *)
(* clears it when thread() has returned: either may come first.            *)
(***************************************************************************)
EXTENDS Naturals

CONSTANT MaxRuns   \* bound of the model: calls of run

ASSUME ThreadIfAssumption == MaxRuns \in Nat \ {0}

VARIABLES
  mId,        \* a thread, 0 for NULL
  mThread,
  mShutdown,
  state,      \* of the threads
  caller      \* where the constructing thread is

threadVars == <<mId, mThread, mShutdown, state, caller>>

Thread == 1..MaxRuns

ThreadTypeOK ==
  /\ mId \in Thread \cup {0}
  /\ mThread \in Thread \cup {0}
  /\ mShutdown \in BOOLEAN
  /\ state \in [Thread -> {"none", "thread", "returned", "ended", "joined"}]
  /\ caller \in {"idle", "run", "started", "join"}

ThreadInit ==
  /\ mId = 0 /\ mThread = 0 /\ mShutdown = FALSE
  /\ state = [n \in Thread |-> "none"]
  /\ caller = "idle"

--------------------------------------------------------------------------------
(* The constructing thread. *)

\* run with an id in the way returns at once.
run ==
  /\ caller = "idle" /\ mId = 0
  /\ \E n \in Thread :
       /\ state[n] = "none" /\ \A k \in 1 .. (n - 1) : state[k] # "none"
       /\ mThread' = n
       /\ state' = [state EXCEPT ![n] = "thread"]
  /\ caller' = "run"
  /\ UNCHANGED <<mId, mShutdown>>

runStoresId ==
  /\ caller = "run"
  /\ mId' = mThread
  /\ caller' = "started"
  /\ UNCHANGED <<mThread, mShutdown, state>>

shutdown ==
  /\ mShutdown' = TRUE
  /\ UNCHANGED <<mId, mThread, state, caller>>

joinBegins ==
  /\ caller = "started"
  /\ caller' = "join"
  /\ UNCHANGED <<mId, mThread, mShutdown, state>>

\* Fault: a thread that has cleared the id is not waited for, as in the
\* Windows build, where a handle needs no pthread_join.
joinUnlessIdCleared ==
  /\ caller = "join"
  /\ IF mId = 0 THEN UNCHANGED <<state, mThread>>
     ELSE /\ state[mThread] = "ended"
          /\ state' = [state EXCEPT ![mThread] = "joined"]
          /\ mThread' = 0
  /\ mId' = 0
  /\ caller' = "idle"
  /\ UNCHANGED mShutdown

\* pthread_join waits for the end of the thread.
joinEnds ==
  /\ caller = "join" /\ state[mThread] = "ended"
  /\ state' = [state EXCEPT ![mThread] = "joined"]
  /\ mThread' = 0 /\ mId' = 0
  /\ caller' = "idle"
  /\ UNCHANGED mShutdown

--------------------------------------------------------------------------------
(* The thread, in threadWrapper. *)

threadReturns(n) ==
  /\ state[n] = "thread"
  /\ state' = [state EXCEPT ![n] = "returned"]
  /\ UNCHANGED <<mId, mThread, mShutdown, caller>>

threadClearsId(n) ==
  /\ state[n] = "returned"
  /\ state' = [state EXCEPT ![n] = "ended"]
  /\ mId' = 0
  /\ UNCHANGED <<mThread, mShutdown, caller>>
=============================================================================
