------------------------------ MODULE HEDriver ------------------------------
(***************************************************************************)
(* HttpEngine/src/HEDriver.cxx and HEDriverCommand.cxx: the worker thread  *)
(* that owns the curl multi handle.  Other threads only append commands to *)
(* mCmdFifo under mMutexFifo; the worker takes one command per turn of its *)
(* loop, executes it on the session map, scans the map, lets curl work,    *)
(* and turns curl's messages into status changes.                          *)
(*                                                                         *)
(* This module has the state and the steps of the worker, and the four     *)
(* operations that post a command.  HEEngineImpl adds the callers.         *)
(***************************************************************************)
EXTENDS HESessionInfo, Integers, Sequences, FiniteSets

CONSTANTS
  Requests,   \* the HESessionInfo objects: one per accepted startUrlRequest
  Keys,       \* the request identifiers the application uses
  NoRequest   \* no session under this key

ASSUME HEDriverAssumption ==
  /\ Keys \subseteq Nat \ {0}
  /\ IsFiniteSet(Keys)
  /\ NoRequest \notin Requests

VARIABLES
  session,             \* the HESessionInfo object behind each request
  key,                 \* mRequestDetails->mKey, 0 while not constructed
  heard,               \* the last notification the application got about it
  mSessionInfoPtrMap,  \* key -> session, only the worker writes it
  mSessionCount,       \* the atomic counter getCounts reads
  mCmdFifo,            \* commands not executed yet
  mShutdown,           \* ThreadIf: set by shutdown()
  multi,               \* libcurl: what the multi handle knows of a transfer
  pc,                  \* where the worker is in thread()
  todo,                \* keys the iteration of threadScanQueue has not passed
  bHasHandle           \* result of threadScanQueue so far

driverVars == <<session, key, heard, mSessionInfoPtrMap, mSessionCount,
                mCmdFifo, mShutdown, multi, pc, todo, bHasHandle>>

Command ==
  [op : {"Add"}, req : Requests] \cup [op : {"Remove", "Stop"}, key : Keys]
    \cup [op : {"Clear"}]

\* "out": not added.  "active": running.  "okay", "failed": finished, its
\* CURLMSG_DONE not read yet.  "read": finished and its message was read.
Transfer == {"out", "active", "okay", "failed", "read"}

WorkerPC == {"off", "init", "loop", "command", "perform", "scan", "release",
             "multi", "progress", "dispatch", "cleanup", "exited"}

usedKeys(map) == {k \in Keys : map[k] # NoRequest}
InMap(s) == \E k \in Keys : mSessionInfoPtrMap[k] = s
Queued(s) == \E i \in DOMAIN mCmdFifo :
               mCmdFifo[i].op = "Add" /\ mCmdFifo[i].req = s

DriverTypeOK ==
  /\ session \in [Requests -> Session]
  /\ key \in [Requests -> Keys \cup {0}]
  /\ heard \in [Requests -> Notification]
  /\ mSessionInfoPtrMap \in [Keys -> Requests \cup {NoRequest}]
  /\ mSessionCount \in Int
  /\ mCmdFifo \in Seq(Command)
  /\ mShutdown \in BOOLEAN
  /\ multi \in [Requests -> Transfer]
  /\ pc \in WorkerPC
  /\ todo \in SUBSET Keys
  /\ bHasHandle \in BOOLEAN

DriverInit ==
  /\ session = [s \in Requests |-> NewSession]
  /\ key = [s \in Requests |-> 0]
  /\ heard = [s \in Requests |-> "None"]
  /\ mSessionInfoPtrMap = [k \in Keys |-> NoRequest]
  /\ mSessionCount = 0
  /\ mCmdFifo = <<>>
  /\ mShutdown = FALSE
  /\ multi = [s \in Requests |-> "out"]
  /\ pc = "off"
  /\ todo = {}
  /\ bHasHandle = FALSE

-----------------------------------------------------------------------------
(***************************************************************************)
(* The operations other threads call: each posts one command.              *)
(***************************************************************************)
post(cmd) ==
  /\ mCmdFifo' = Append(mCmdFifo, cmd)
  /\ UNCHANGED <<session, key, heard, mSessionInfoPtrMap, mSessionCount,
                 mShutdown, multi, pc, todo, bHasHandle>>

addSession(s)    == post([op |-> "Add", req |-> s])
removeSession(k) == post([op |-> "Remove", key |-> k])
stopSession(k)   == post([op |-> "Stop", key |-> k])
clearSession     == post([op |-> "Clear"])

-----------------------------------------------------------------------------
(***************************************************************************)
(* Letting go of the sessions under the keys K: take their easy handles    *)
(* out of the multi handle, clean them up, tell the application, erase the *)
(* entries.  The scan, Remove, Clear and the final cleanup all do this.    *)
(***************************************************************************)
sessionsUnder(K) == {s \in Requests : \E k \in K : mSessionInfoPtrMap[k] = s}

releaseSessions(K) ==
  LET gone == sessionsUnder(K)
  IN /\ multi' = [s \in Requests |-> IF s \in gone THEN "out" ELSE multi[s]]
     /\ session' = [s \in Requests |-> IF s \in gone
                                         THEN uninitSessionInfo(session[s])
                                         ELSE session[s]]
     /\ heard' = [s \in Requests |-> IF s \in gone THEN "Released"
                                                   ELSE heard[s]]
     /\ mSessionInfoPtrMap' = [k \in Keys |-> IF k \in K THEN NoRequest
                                                ELSE mSessionInfoPtrMap[k]]

\* Fault: only the empty-map branch inserts
addWhenEmpty(s) ==
  /\ mSessionInfoPtrMap' = IF usedKeys(mSessionInfoPtrMap) = {}
                             THEN [mSessionInfoPtrMap EXCEPT ![key[s]] = s]
                             ELSE mSessionInfoPtrMap
  /\ UNCHANGED <<session, heard, multi>>

\* Fault: map[key] = ptr in place of find and insert
addReplacing(s) ==
  /\ mSessionInfoPtrMap' = [mSessionInfoPtrMap EXCEPT ![key[s]] = s]
  /\ UNCHANGED <<session, heard, multi>>

\* A session whose key is taken is dropped without a word
executeAdd(s) ==
  /\ mSessionInfoPtrMap' = IF mSessionInfoPtrMap[key[s]] = NoRequest
                             THEN [mSessionInfoPtrMap EXCEPT ![key[s]] = s]
                             ELSE mSessionInfoPtrMap
  /\ UNCHANGED <<session, heard, multi>>

\* Fault: a session that is running is left alone
stopWaiting(k) ==
  /\ session' = [s \in Requests |->
                   IF s = mSessionInfoPtrMap[k] /\ ~session[s].mCURL
                     THEN stop(session[s]) ELSE session[s]]
  /\ UNCHANGED <<heard, multi, mSessionInfoPtrMap>>

executeStop(k) ==
  /\ session' = [s \in Requests |-> IF s = mSessionInfoPtrMap[k]
                                      THEN stop(session[s]) ELSE session[s]]
  /\ UNCHANGED <<heard, multi, mSessionInfoPtrMap>>

executeRemove(k) == releaseSessions({k})
executeClear     == releaseSessions(usedKeys(mSessionInfoPtrMap))

execute(cmd) ==
  \/ cmd.op = "Add"    /\ executeAdd(cmd.req)
  \/ cmd.op = "Stop"   /\ executeStop(cmd.key)
  \/ cmd.op = "Remove" /\ executeRemove(cmd.key)
  \/ cmd.op = "Clear"  /\ executeClear

(***************************************************************************)
(* The worker.  thread() begins with curl_multi_init and returns at once   *)
(* when that fails.                                                        *)
(***************************************************************************)
threadBegin ==
  /\ pc = "init"
  /\ pc' \in {"loop", "exited"}
  /\ UNCHANGED <<session, key, heard, mSessionInfoPtrMap, mSessionCount,
                 mCmdFifo, mShutdown, multi, todo, bHasHandle>>

\* Fault: the sessions are to finish first
shutdownWhenIdle == mShutdown /\ usedKeys(mSessionInfoPtrMap) = {}

isShutdown == mShutdown

threadLoop ==
  /\ pc = "loop"
  /\ pc' = IF isShutdown THEN "cleanup" ELSE "command"
  /\ UNCHANGED <<session, key, heard, mSessionInfoPtrMap, mSessionCount,
                 mCmdFifo, mShutdown, multi, todo, bHasHandle>>

\* At most one command a turn
threadPerformCommand ==
  /\ pc = "command"
  /\ pc' = "perform"
  /\ \/ /\ mCmdFifo = <<>>
        /\ UNCHANGED <<session, heard, mSessionInfoPtrMap, multi,
                       mSessionCount, mCmdFifo>>
     \/ /\ mCmdFifo # <<>>
        /\ mCmdFifo' = Tail(mCmdFifo)
        /\ execute(Head(mCmdFifo))
        /\ mSessionCount' = Cardinality(usedKeys(mSessionInfoPtrMap'))
  /\ UNCHANGED <<key, mShutdown, todo, bHasHandle>>

\* curl_multi_perform: any of the running transfers may finish
curl_multi_perform ==
  LET active == {s \in Requests : multi[s] = "active"}
  IN \E okay \in SUBSET active : \E failed \in SUBSET (active \ okay) :
       multi' = [s \in Requests |-> CASE s \in okay   -> "okay"
                                      [] s \in failed -> "failed"
                                      [] OTHER        -> multi[s]]

threadPerform ==
  /\ pc = "perform"
  /\ curl_multi_perform
  /\ pc' = "scan"
  /\ todo' = usedKeys(mSessionInfoPtrMap)
  /\ bHasHandle' = FALSE
  /\ UNCHANGED <<session, key, heard, mSessionInfoPtrMap, mSessionCount,
                 mCmdFifo, mShutdown>>

-----------------------------------------------------------------------------
(***************************************************************************)
(* threadScanQueue visits the sessions in the order of their keys.         *)
(***************************************************************************)
cursor == CHOOSE k \in todo : \A j \in todo : k <= j
scanned == mSessionInfoPtrMap[cursor]

\* The bottom of the loop body: ++it, bHasHandle = true
nextSession ==
  /\ todo' = todo \ {cursor}
  /\ bHasHandle' = TRUE
  /\ pc' = "scan"

atSession(statuses) ==
  /\ pc = "scan"
  /\ todo # {}
  /\ session[scanned].status \in statuses
  /\ UNCHANGED <<key, mSessionInfoPtrMap, mSessionCount, mCmdFifo, mShutdown>>

\* Nothing to do: not started yet, or running
scanPass ==
  /\ atSession({"CLOSED", "START"})
  /\ session[scanned].status = "START" => session[scanned].mCURL
  /\ nextSession
  /\ UNCHANGED <<session, heard, multi>>

\* A started session gets its easy handle, which joins the multi handle
scanStart ==
  /\ atSession({"START"})
  /\ ~session[scanned].mCURL
  /\ nextSession
  /\ session' = [session EXCEPT ![scanned].mCURL = TRUE]
  /\ multi' = [multi EXCEPT ![scanned] = "active"]
  /\ heard' = [heard EXCEPT ![scanned] = "Started"]

\* curl_easy_init yields no handle, or curl_multi_add_handle refuses it
scanStartFails ==
  /\ atSession({"START"})
  /\ ~session[scanned].mCURL
  /\ nextSession
  /\ \E handle \in BOOLEAN :
       session' = [session EXCEPT ![scanned] =
                     [setCurrentStatus(@, "ERROR") EXCEPT !.mCURL = handle]]
  /\ UNCHANGED <<heard, multi>>

\* One more turn of the loop before the session is reported complete
scanWaitComplete ==
  /\ atSession({"WAITCOMPLATE"})
  /\ nextSession
  /\ session' = [session EXCEPT ![scanned] = setCurrentStatus(@, "COMPLETE")]
  /\ UNCHANGED <<heard, multi>>

\* Fault: the handle is cleaned up before the delegate is called
outcomeAfterCleanup ==
  /\ atSession({"ABORT", "COMPLETE", "ERROR"})
  /\ heard' = [heard EXCEPT ![scanned] = outcomeOf(session[scanned].status)]
  /\ session' = [session EXCEPT ![scanned] = uninitSessionInfo(@)]
  /\ multi' = [multi EXCEPT ![scanned] = "out"]
  /\ pc' = "release"
  /\ UNCHANGED <<todo, bHasHandle>>

\* The application is told how the request ended ...
scanOutcome ==
  /\ atSession({"ABORT", "COMPLETE", "ERROR"})
  /\ heard' = [heard EXCEPT ![scanned] = outcomeOf(session[scanned].status)]
  /\ pc' = "release"
  /\ UNCHANGED <<session, multi, todo, bHasHandle>>

\* Fault: the decrement is forgotten
countKept == UNCHANGED mSessionCount

atomic_dec32 == mSessionCount' = mSessionCount - 1

\* ... and after that delegate has returned the session is released
scanRelease ==
  /\ pc = "release"
  /\ releaseSessions({cursor})
  /\ atomic_dec32
  /\ todo' = todo \ {cursor}
  /\ pc' = "scan"
  /\ UNCHANGED <<key, mCmdFifo, mShutdown, bHasHandle>>

\* With no session left the worker sleeps and starts over
scanEnd ==
  /\ pc = "scan"
  /\ todo = {}
  /\ pc' = IF bHasHandle THEN "multi" ELSE "loop"
  /\ UNCHANGED <<session, key, heard, mSessionInfoPtrMap, mSessionCount,
                 mCmdFifo, mShutdown, multi, todo, bHasHandle>>

threadScanQueue ==
  \/ scanPass \/ scanStart \/ scanStartFails \/ scanWaitComplete
  \/ scanOutcome \/ scanRelease \/ scanEnd

-----------------------------------------------------------------------------
threadMultiURLRoop ==
  /\ pc = "multi"
  /\ curl_multi_perform
  /\ pc' = "progress"
  /\ UNCHANGED <<session, key, heard, mSessionInfoPtrMap, mSessionCount,
                 mCmdFifo, mShutdown, todo, bHasHandle>>

\* The sessions whose progress is read from their easy handle and reported
progressDue == {s \in Requests : /\ InMap(s)
                                 /\ session[s].status = "START"
                                 /\ session[s].progress}

\* Reporting progress leaves no trace in the state
threadNotificationProgress ==
  /\ pc = "progress"
  /\ pc' = "dispatch"
  /\ UNCHANGED <<session, key, heard, mSessionInfoPtrMap, mSessionCount,
                 mCmdFifo, mShutdown, multi, todo, bHasHandle>>

\* Fault: a failed transfer is only logged
dispatchedOkay(s) ==
  IF InMap(s) /\ session[s].mCURL /\ session[s].status = "START"
       /\ multi[s] = "okay"
    THEN setCurrentStatus(session[s], "WAITCOMPLATE")
    ELSE session[s]

\* The status a session gets from the message of its finished transfer
dispatched(s) ==
  IF InMap(s) /\ session[s].mCURL /\ session[s].status = "START"
    THEN setCurrentStatus(session[s], IF multi[s] = "okay" THEN "WAITCOMPLATE"
                                                           ELSE "ERROR")
    ELSE session[s]

\* Reads every message curl has
threadDispatchSession ==
  LET done == {s \in Requests : multi[s] \in {"okay", "failed"}}
  IN /\ pc = "dispatch"
     /\ session' = [s \in Requests |-> IF s \in done THEN dispatched(s)
                                                     ELSE session[s]]
     /\ multi' = [s \in Requests |-> IF s \in done THEN "read" ELSE multi[s]]
     /\ pc' = "loop"
     /\ UNCHANGED <<key, heard, mSessionInfoPtrMap, mSessionCount, mCmdFifo,
                    mShutdown, todo, bHasHandle>>

\* Fault: sessions without a handle are skipped altogether
keysWithHandle == {k \in usedKeys(mSessionInfoPtrMap) :
                     session[mSessionInfoPtrMap[k]].mCURL}

keysLeft == usedKeys(mSessionInfoPtrMap)

\* The commands still in mCmdFifo stay there, unexecuted
threadQueueCleanup ==
  /\ pc = "cleanup"
  /\ releaseSessions(keysLeft)
  /\ mSessionCount' = 0
  /\ pc' = "exited"
  /\ UNCHANGED <<key, mCmdFifo, mShutdown, todo, bHasHandle>>

thread ==
  \/ threadBegin \/ threadLoop \/ threadPerformCommand \/ threadPerform
  \/ threadScanQueue \/ threadMultiURLRoop \/ threadNotificationProgress
  \/ threadDispatchSession \/ threadQueueCleanup
=============================================================================
