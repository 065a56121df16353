---------------------------- MODULE HEEngineImpl ----------------------------
(***************************************************************************)
(* HttpEngine/src/HEEngineImpl.cxx: the engine's interface, called by the  *)
(* threads of the application, over the driver's worker thread (module     *)
(* HEDriver).  A delegate the worker calls may call the engine as well;    *)
(* such a call does what a client thread scheduled at that moment does.    *)
(***************************************************************************)
EXTENDS HEDriver

CONSTANTS
  Clients,      \* the application's threads
  Main,         \* the one that calls initialize and unInitialize
  mMaxRunning,  \* option EOT_MAXCOUNT
  MaxCalls,     \* bound: the calls each client makes
  DirectUse     \* are removeSession and clearSession of HEDriver called?

ASSUME HEEngineAssumption ==
  /\ Main \in Clients
  /\ mMaxRunning \in Nat
  /\ MaxCalls \in [Clients -> Nat]
  /\ DirectUse \in BOOLEAN

VARIABLES
  at,           \* where each client is: "idle", or inside a call
  current,      \* pMultiSession of the client's startUrlRequest
  calls,        \* calls each client may still make
  mHttpDriver,  \* is there a driver?
  joinable,     \* has the worker thread been created and not been joined?
  joinFailed    \* pthread_join was given a thread that is not there

clientVars == <<at, current, calls, mHttpDriver, joinable, joinFailed>>
vars == <<driverVars, clientVars>>

TypeOK ==
  /\ DriverTypeOK
  /\ at \in [Clients -> {"idle", "add", "start", "join"}]
  /\ current \in [Clients -> Requests \cup {NoRequest}]
  /\ \A c \in Clients : at[c] \in {"add", "start"} <=> current[c] # NoRequest
  /\ calls \in [Clients -> Nat]
  /\ mHttpDriver \in BOOLEAN
  /\ joinable \in BOOLEAN
  /\ joinFailed \in BOOLEAN

Init ==
  /\ DriverInit
  /\ at = [c \in Clients |-> "idle"]
  /\ current = [c \in Clients |-> NoRequest]
  /\ calls = MaxCalls
  /\ mHttpDriver = FALSE
  /\ joinable = FALSE
  /\ joinFailed = FALSE

call(c) ==
  /\ at[c] = "idle"
  /\ calls[c] > 0
  /\ calls' = [calls EXCEPT ![c] = @ - 1]

-----------------------------------------------------------------------------
(***************************************************************************)
(* initialize creates the driver and runs its thread, once in the life of  *)
(* the engine: unInitialize stops the thread and keeps the driver.         *)
(***************************************************************************)
initialize ==
  /\ call(Main)
  /\ mHttpDriver' = TRUE
  /\ IF mHttpDriver THEN UNCHANGED <<pc, joinable>>
                    ELSE pc' = "init" /\ joinable' = TRUE
  /\ UNCHANGED <<session, key, heard, mSessionInfoPtrMap, mSessionCount,
                 mCmdFifo, mShutdown, multi, todo, bHasHandle,
                 at, current, joinFailed>>

\* shutdown() ...
unInitialize ==
  /\ call(Main)
  /\ mHttpDriver
  /\ mShutdown' = TRUE
  /\ at' = [at EXCEPT ![Main] = "join"]
  /\ UNCHANGED <<session, key, heard, mSessionInfoPtrMap, mSessionCount,
                 mCmdFifo, multi, pc, todo, bHasHandle,
                 current, mHttpDriver, joinable, joinFailed>>

\* Fault: the worker is not waited for
joinAtOnce == TRUE

pthread_join == joinable => pc = "exited"

\* ... then join(), which blocks until the worker has exited
join ==
  /\ at[Main] = "join"
  /\ at' = [at EXCEPT ![Main] = "idle"]
  /\ pthread_join
  /\ joinFailed' = (joinFailed \/ ~joinable)
  /\ joinable' = FALSE
  /\ UNCHANGED <<driverVars, current, calls, mHttpDriver>>

-----------------------------------------------------------------------------
(***************************************************************************)
(* startUrlRequest: read the counter, build the session, post it, and only *)
(* then store START in it.  Another thread may run between two of these.   *)
(***************************************************************************)
startUrlRequest(c, k) ==
  /\ call(c)
  /\ mHttpDriver
  /\ mSessionCount < mMaxRunning
  /\ \E s \in Requests : /\ key[s] = 0
                         /\ key' = [key EXCEPT ![s] = k]
                         /\ current' = [current EXCEPT ![c] = s]
  /\ at' = [at EXCEPT ![c] = "add"]
  /\ UNCHANGED <<session, heard, mSessionInfoPtrMap, mSessionCount, mCmdFifo,
                 mShutdown, multi, pc, todo, bHasHandle,
                 mHttpDriver, joinable, joinFailed>>

\* HE_REQUEST_BEYOND_LIMITE
beyondLimit(c) ==
  /\ call(c)
  /\ mHttpDriver
  /\ mSessionCount >= mMaxRunning
  /\ UNCHANGED <<driverVars, at, current, mHttpDriver, joinable, joinFailed>>

startAdd(c) ==
  /\ at[c] = "add"
  /\ addSession(current[c])
  /\ at' = [at EXCEPT ![c] = "start"]
  /\ UNCHANGED <<current, calls, mHttpDriver, joinable, joinFailed>>

startStart(c) ==
  /\ at[c] = "start"
  /\ session' = [session EXCEPT ![current[c]] = start(@)]
  /\ at' = [at EXCEPT ![c] = "idle"]
  /\ current' = [current EXCEPT ![c] = NoRequest]
  /\ UNCHANGED <<key, heard, mSessionInfoPtrMap, mSessionCount, mCmdFifo,
                 mShutdown, multi, pc, todo, bHasHandle,
                 calls, mHttpDriver, joinable, joinFailed>>

-----------------------------------------------------------------------------
stopRequest(c, k) ==
  /\ call(c)
  /\ mHttpDriver
  /\ stopSession(k)
  /\ UNCHANGED <<at, current, mHttpDriver, joinable, joinFailed>>

\* setRequestOption(TOT_PROGRESS_FREQUENCE): finds the session in the
\* worker's map or does nothing
setRequestOption(c, k) ==
  /\ call(c)
  /\ mHttpDriver
  /\ session' = [s \in Requests |->
                   IF s = mSessionInfoPtrMap[k]
                     THEN setProgressNotifyFrequency(session[s])
                     ELSE session[s]]
  /\ UNCHANGED <<key, heard, mSessionInfoPtrMap, mSessionCount, mCmdFifo,
                 mShutdown, multi, pc, todo, bHasHandle,
                 at, current, mHttpDriver, joinable, joinFailed>>

\* The two operations of HEDriver that HEEngineImpl itself never calls
useDriver(c, k) ==
  /\ DirectUse
  /\ call(c)
  /\ mHttpDriver
  /\ removeSession(k) \/ clearSession
  /\ UNCHANGED <<at, current, mHttpDriver, joinable, joinFailed>>

worker == thread /\ UNCHANGED clientVars

client(c) ==
  \/ startAdd(c) \/ startStart(c) \/ beyondLimit(c)
  \/ \E k \in Keys : \/ startUrlRequest(c, k) \/ stopRequest(c, k)
                     \/ setRequestOption(c, k) \/ useDriver(c, k)

Next == worker \/ initialize \/ unInitialize \/ join
          \/ \E c \in Clients : client(c)

Spec == Init /\ [][Next]_vars

(***************************************************************************)
(* The scheduler runs the worker and lets a client finish the call it is   *)
(* in.  It makes no client call anything, and no transfer finish.          *)
(***************************************************************************)
Fairness ==
  /\ WF_vars(worker)
  /\ WF_vars(join)
  /\ \A c \in Clients : WF_vars(startAdd(c)) /\ WF_vars(startStart(c))

FairSpec == Spec /\ Fairness

-----------------------------------------------------------------------------
(***************************************************************************)
(* Safety.                                                                 *)
(***************************************************************************)

\* The atomic counter the request limit is checked against is the size of
\* the session map whenever the worker is between two steps: execute, the
\* release in the scan and the cleanup each keep it right in their own way.
CountIsMapSize == mSessionCount = Cardinality(usedKeys(mSessionInfoPtrMap))

\* No easy handle survives its session's stay in the map, and the multi
\* handle holds no transfer whose session has given its handle up: whatever
\* path a session leaves on, remove_handle and cleanup both happened.
HandlesOwned ==
  \A s \in Requests : /\ session[s].mCURL => InMap(s)
                      /\ multi[s] # "out" => session[s].mCURL

\* IHttpEngineCommon.hxx lets the application read the total size "at
\* complated notify": while an outcome is being notified the session is
\* still found under its key, and a completed one still has its handle.
OutcomeReadable ==
  pc = "release" =>
    /\ todo # {}
    /\ scanned \in Requests
    /\ heard[scanned] = "Complated" => session[scanned].mCURL

\* When the worker has exited every request that was ever admitted has been
\* released and nothing is left in the map or with curl.
ExitedClean ==
  pc = "exited" =>
    /\ usedKeys(mSessionInfoPtrMap) = {}
    /\ mSessionCount = 0
    /\ \A s \in Requests : /\ ~session[s].mCURL
                           /\ heard[s] \in {"None", "Released"}

\* After unInitialize has returned the application hears nothing more, so
\* it may destroy what its delegates refer to.
SilentAfterUnInitialize == [][mShutdown /\ ~joinable => heard' = heard]_vars

\* A request whose startUrlRequest is over and that was then stopped in time
StopArrived(s) == /\ InMap(s)
                  /\ session[s].status = "ABORT"
                  /\ \A c \in Clients : current[c] # s

\* Such a request stays stopped: it is not started, completed or failed any
\* more, and the next the application hears is Stoped or its release.
StopIsFinal ==
  [][\A s \in Requests : StopArrived(s) =>
       /\ StopArrived(s)' \/ heard'[s] = "Released"
       /\ heard'[s] = heard[s] \/ heard'[s] \in {"Stoped", "Released"}]_vars

\* The engine implements the lifecycle every request is promised: a request
\* is active from the Add command that puts it in the map to its release.
Lifecycle == INSTANCE RequestLifecycle
               WITH active <- {s \in Requests : InMap(s)}
LifecycleSpec == Lifecycle!Spec

-----------------------------------------------------------------------------
(***************************************************************************)
(* Liveness.                                                               *)
(***************************************************************************)

\* A request posted with an unshared key is eventually heard about, whatever
\* else is queued, unless the worker exits first.
PostedIsServed ==
  \A s \in Requests :
    Queued(s) ~> \/ heard[s] # "None"
                 \/ \E t \in Requests \ {s} : key[t] = key[s]
                 \/ pc = "exited"

\* A Stop posted behind the Add of a request whose startUrlRequest is over
\* reaches that request: it is eventually released, though no transfer ever
\* has to finish.
StopFollows(s) ==
  /\ \E i, j \in DOMAIN mCmdFifo : /\ i < j
                                   /\ mCmdFifo[i] = [op |-> "Add", req |-> s]
                                   /\ mCmdFifo[j] = [op |-> "Stop", key |-> key[s]]
  /\ \A c \in Clients : current[c] # s
  /\ \A t \in Requests \ {s} : key[t] # key[s]

StopCatches ==
  \A s \in Requests :
    StopFollows(s) ~> heard[s] = "Released" \/ pc = "exited"

\* A transfer curl has finished is reported and its session released.
FinishedIsReleased ==
  \A s \in Requests : multi[s] \in {"okay", "failed"} ~> heard[s] = "Released"

\* unInitialize returns: the worker sees the shutdown flag and exits.
UnInitializeReturns == at[Main] = "join" ~> at[Main] = "idle"

-----------------------------------------------------------------------------
(***************************************************************************)
(* What the repository's comments and assertions say and the code does not *)
(* do.                                                                     *)
(***************************************************************************)

\* IHttpEngine.hxx:71, "processing": progress is reported for a request
\* curl is processing, so its easy handle can be asked for numbers.
ProgressIsOfTransfer ==
  pc = "progress" => \A s \in progressDue : session[s].mCURL

\* ThreadIf.cxx:218, assert(0) when pthread_join fails.  It does not hold when
\* the engine is initialized again (README, findings).
JoinSucceeds == ~joinFailed
=============================================================================
