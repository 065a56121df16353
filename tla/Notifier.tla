------------------------------ MODULE Notifier ------------------------------
(***************************************************************************)
(* A Delegate called by a ThreadIf, as the HTTP engine's driver calls the  *)
(* delegates of the engine: thread() calls the delegate until it is told   *)
(* to shut down.  The application connects and disconnects functors from   *)
(* threads of its own, one of which, App, constructs the thread.           *)
(***************************************************************************)
EXTENDS Delegate, ThreadIf

CONSTANTS App,
          Worker,   \* the threads the ThreadIf creates, as a caller
          owner,    \* the thread that connects a functor
          Uses      \* ways to use both: see use

ASSUME NotifierAssumption ==
  /\ App \in Threads /\ Worker \in Threads /\ App # Worker
  /\ owner \in [Functors -> Threads]
  /\ Uses \subseteq [policy : {"plain", "recursive", "single"},
                     inCallback : SUBSET {"remove", "add"}, throws : BOOLEAN,
                     again : BOOLEAN]
  /\ \A u \in Uses : u.policy = "plain" => u.inCallback = {}

VARIABLE use   \* chosen at the beginning: the policy; what callbacks do with
               \* the delegate (a plain mutex would block them); do they throw;
               \* is a functor added that is connected already

vars == <<delegateVars, threadVars, use>>

TypeOK == DelegateTypeOK /\ ThreadTypeOK /\ use \in Uses

Init ==
  /\ DelegateInit /\ ThreadInit
  /\ use \in Uses
  /\ policy = use.policy

Alive == \E n \in Thread : state[n] \notin {"none", "joined"}

--------------------------------------------------------------------------------
(* The application. *)

\* A delegate of the single-threaded policy is left to the thread while it runs.
mayUse(t) == /\ t # Worker
             /\ policy = "single" => t = App /\ ~Alive

connected(f) == \E i \in DOMAIN list : list[i].functor = f

\* A functor is connected by its owner: two threads that add it at the same
\* time can both find it absent.
connects(t, f) ==
  /\ mayUse(t) /\ owner[f] = t
  /\ \/ AddBegins(t, f) /\ (use.again \/ ~connected(f))
     \/ Assign(t, f) \/ AssignFails(t)
  /\ UNCHANGED <<threadVars, use>>

disconnects(t) ==
  /\ mayUse(t)
  /\ Clear(t) \/ \E f \in Functors : owner[f] = t /\ Remove(t, f)
  /\ UNCHANGED <<threadVars, use>>

addGoesOn(t) == AddInserts(t) /\ UNCHANGED <<threadVars, use>>

\* run, shutdown and join in this order, but the thread need not wait for it
constructs ==
  /\ run \/ runStoresId \/ (caller = "started" /\ shutdown) \/ (mShutdown /\ joinBegins)
  /\ adding[App] = None
  /\ UNCHANGED <<delegateVars, use>>

joins == joinEnds /\ UNCHANGED <<delegateVars, use>>

--------------------------------------------------------------------------------
(* The thread: thread() returns when it is told to, or by itself. *)

calls ==
  /\ \E n \in Thread : state[n] = "thread"
  /\ ~mShutdown
  /\ CallBegins(Worker)
  /\ UNCHANGED <<threadVars, use>>

callGoesOnOf(t) == callGoesOn(t) /\ UNCHANGED <<threadVars, use>>

\* A callback takes out the functor it is, or connects one of the thread's.
callbackActs ==
  /\ InCallback(Worker)
  /\ \/ "remove" \in use.inCallback /\ Remove(Worker, running)
     \/ "add" \in use.inCallback /\ 
        \E f \in Functors : owner[f] = Worker /\ ~connected(f) /\ AddBegins(Worker, f)
  /\ UNCHANGED <<threadVars, use>>

callbackThrows ==
  /\ use.throws /\ CallbackThrows(Worker)
  /\ UNCHANGED <<threadVars, use>>

returns ==
  /\ holder # Worker
  /\ \E n \in Thread : threadReturns(n)
  /\ UNCHANGED <<delegateVars, use>>

wrapper ==
  /\ \E n \in Thread : threadClearsId(n)
  /\ UNCHANGED <<delegateVars, use>>

--------------------------------------------------------------------------------
Next ==
  \/ \E t \in Threads : addGoesOn(t) \/ disconnects(t) \/ \E f \in Functors : connects(t, f)
  \/ constructs \/ joins
  \/ calls \/ callGoesOnOf(Worker) \/ callbackActs \/ callbackThrows
  \/ returns \/ wrapper

Spec == Init /\ [][Next]_vars

\* The worker runs, its callbacks return though they may connect again and
\* again, and thread() does when it is told to.
FairSpec ==
  /\ Spec
  /\ WF_vars(addGoesOn(Worker) \/ wrapper) /\ SF_vars(callGoesOnOf(Worker))
  /\ WF_vars(mShutdown /\ returns) /\ WF_vars(joins)

--------------------------------------------------------------------------------
(* Properties. *)

\* Exist keeps a functor from being connected twice, if it sees all of them.
AddsSeen == use.again => \A f, g \in Functors : typeOf[f] = typeOf[g]

\* A callback that disconnects its functor takes out the node that is called,
\* not a newer one of the same functor.
RemovesItself == "remove" \in use.inCallback => AddsSeen

\* Every node that a call has yet to invoke is in the list, and there is a last
\* one to invoke: Remove, Clear and operator= wait for the call, and a callback
\* that takes itself out is behind it; unless an operator= found no memory.
NoNodeFreed ==
  RemovesItself /\ ~dangling =>
    /\ Range(older) \subseteq Range(list)
    /\ (holder # None /\ ~atLast) => list # <<>>

\* A call that ends has invoked every functor that was connected when it began,
\* each once and the oldest first, though callbacks take themselves out while it
\* goes along the list; unless a callback connects.
HeardOnce ==
  [][\A t \in Threads :
       CallEnds(t) /\ "add" \notin use.inCallback /\ RemovesItself => heard = begun]_vars

\* Once a functor was disconnected from outside it is not called, and no call
\* of it is under way: the application may destroy what it refers to; unless
\* an operator= found no memory.
SilentOnceRemoved ==
  AddsSeen /\ ~dangling => \A f \in silent : running # f /\ ~connected(f)

\* When join has returned the thread and its calls are over, it was joined,
\* and run can start another: the id that run may have stored late is gone.
JoinedForGood ==
  caller = "idle" => /\ ~Alive /\ holder # Worker
                     /\ mId = 0 /\ mThread = 0

\* join returns, unless a callback left the call without a last node, or an
\* operator= the delegate with freed ones.
JoinReturns == (RemovesItself /\ caller = "join") ~> (caller = "idle" \/ dangling)
=============================================================================
