-------------------------- MODULE HEEngine_proofs --------------------------
(***************************************************************************)
(* Proofs about HEEngineImpl, for any sets of requests, keys and clients.  *)
(***************************************************************************)
EXTENDS HEEngineInv, FiniteSetTheorems, WellFoundedInduction, TLAPS

(***************************************************************************)
(* Types.                                                                  *)
(***************************************************************************)

\* The operations of HESessionInfo yield sessions.
LEMMA SessionType ==
  ASSUME NEW x \in Session
  PROVE  /\ start(x) \in Session
         /\ stop(x) \in Session
         /\ uninitSessionInfo(x) \in Session
         /\ setProgressNotifyFrequency(x) \in Session
         /\ \A status \in HttpStatus : setCurrentStatus(x, status) \in Session
BY DEF Session, start, stop, uninitSessionInfo, setProgressNotifyFrequency,
       setCurrentStatus, HttpStatus

\* Letting go of sessions keeps the types of what it changes.
LEMMA ReleaseType ==
  ASSUME DriverTypeOK, NEW K, releaseSessions(K)
  PROVE  /\ session' \in [Requests -> Session]
         /\ heard' \in [Requests -> Notification]
         /\ mSessionInfoPtrMap' \in [Keys -> Requests \cup {NoRequest}]
         /\ multi' \in [Requests -> Transfer]
BY SessionType DEF DriverTypeOK, releaseSessions, Notification, Transfer

\* Executing a command of the queue keeps the types of what it changes.
LEMMA ExecuteType ==
  ASSUME DriverTypeOK, NEW cmd \in Command, execute(cmd)
  PROVE  /\ session' \in [Requests -> Session]
         /\ heard' \in [Requests -> Notification]
         /\ mSessionInfoPtrMap' \in [Keys -> Requests \cup {NoRequest}]
         /\ multi' \in [Requests -> Transfer]
<1>1. CASE cmd.op = "Add" /\ executeAdd(cmd.req)
  <2>1. cmd.req \in Requests
    BY <1>1 DEF Command
  <2> QED
    BY <1>1, <2>1 DEF executeAdd, DriverTypeOK
<1>2. CASE cmd.op = "Stop" /\ executeStop(cmd.key)
  BY <1>2, SessionType DEF executeStop, DriverTypeOK
<1>3. CASE cmd.op = "Remove" /\ executeRemove(cmd.key)
  BY <1>3, ReleaseType DEF executeRemove
<1>4. CASE cmd.op = "Clear" /\ executeClear
  BY <1>4, ReleaseType DEF executeClear
<1> QED
  BY <1>1, <1>2, <1>3, <1>4 DEF execute

\* curl moves transfers between the states it has.
LEMMA PerformType ==
  ASSUME multi \in [Requests -> Transfer], curl_multi_perform
  PROVE  multi' \in [Requests -> Transfer]
BY DEF curl_multi_perform, Transfer

\* Every step of the worker keeps the types of the driver's state.
LEMMA ThreadType ==
  ASSUME DriverTypeOK, thread
  PROVE  DriverTypeOK'
<1>1. CASE threadBegin
  BY <1>1 DEF threadBegin, DriverTypeOK, WorkerPC
<1>2. CASE threadLoop
  BY <1>2 DEF threadLoop, DriverTypeOK, WorkerPC
<1>3. CASE threadPerformCommand
  <2>1. /\ session' \in [Requests -> Session]
        /\ heard' \in [Requests -> Notification]
        /\ mSessionInfoPtrMap' \in [Keys -> Requests \cup {NoRequest}]
        /\ multi' \in [Requests -> Transfer]
        /\ mCmdFifo' \in Seq(Command)
        /\ mSessionCount' \in Int
    <3>1. CASE mCmdFifo = <<>>
      BY <1>3, <3>1 DEF threadPerformCommand, DriverTypeOK
    <3>2. CASE mCmdFifo # <<>>
      <4>1. /\ execute(Head(mCmdFifo))
            /\ mCmdFifo' = Tail(mCmdFifo)
            /\ mSessionCount' = Cardinality(usedKeys(mSessionInfoPtrMap'))
        BY <1>3, <3>2 DEF threadPerformCommand
      <4>2. Head(mCmdFifo) \in Command /\ Tail(mCmdFifo) \in Seq(Command)
        BY <3>2 DEF DriverTypeOK
      <4>3. Cardinality(usedKeys(mSessionInfoPtrMap')) \in Nat
        <5>1. IsFiniteSet(usedKeys(mSessionInfoPtrMap'))
          BY HEDriverAssumption, FS_Subset DEF usedKeys
        <5> QED
          BY <5>1, FS_CardinalityType
      <4> QED
        BY <4>1, <4>2, <4>3, ExecuteType
    <3> QED
      BY <3>1, <3>2
  <2> QED
    BY <1>3, <2>1 DEF threadPerformCommand, DriverTypeOK, WorkerPC
<1>4. CASE threadPerform
  <2>1. multi' \in [Requests -> Transfer]
    BY <1>4, PerformType DEF threadPerform, DriverTypeOK
  <2> QED
    BY <1>4, <2>1 DEF threadPerform, DriverTypeOK, WorkerPC, usedKeys
<1>5. CASE threadScanQueue
  <2>1. CASE scanPass
    BY <1>5, <2>1 DEF scanPass, atSession, nextSession, DriverTypeOK, WorkerPC
  <2>2. CASE scanStart
    BY <2>2 DEF scanStart, atSession, nextSession, DriverTypeOK, WorkerPC,
                Session, Notification, Transfer
  <2>3. CASE scanStartFails
    <3>1. PICK handle \in BOOLEAN :
            session' = [session EXCEPT ![scanned] =
                          [setCurrentStatus(@, "ERROR") EXCEPT !.mCURL = handle]]
      BY <2>3 DEF scanStartFails
    <3>2. \A x \in Session :
            [setCurrentStatus(x, "ERROR") EXCEPT !.mCURL = handle] \in Session
      BY DEF setCurrentStatus, Session, HttpStatus
    <3>3. session' \in [Requests -> Session]
      BY <3>1, <3>2 DEF DriverTypeOK
    <3> QED
      BY <2>3, <3>3 DEF scanStartFails, atSession, nextSession, DriverTypeOK,
                        WorkerPC
  <2>4. CASE scanWaitComplete
    BY <2>4 DEF scanWaitComplete, atSession, nextSession, DriverTypeOK,
                WorkerPC, setCurrentStatus, Session, HttpStatus
  <2>5. CASE scanOutcome
    <3>1. outcomeOf(session[scanned].status) \in Notification
      BY <2>5 DEF scanOutcome, atSession, outcomeOf, Notification, Outcome
    <3> QED
      BY <2>5, <3>1 DEF scanOutcome, atSession, DriverTypeOK, WorkerPC
  <2>6. CASE scanRelease
    BY <2>6, ReleaseType DEF scanRelease, atomic_dec32, DriverTypeOK, WorkerPC
  <2>7. CASE scanEnd
    BY <2>7 DEF scanEnd, DriverTypeOK, WorkerPC
  <2> QED
    BY <1>5, <2>1, <2>2, <2>3, <2>4, <2>5, <2>6, <2>7 DEF threadScanQueue
<1>6. CASE threadMultiURLRoop
  BY <1>6, PerformType DEF threadMultiURLRoop, DriverTypeOK, WorkerPC
<1>7. CASE threadNotificationProgress
  BY <1>7 DEF threadNotificationProgress, DriverTypeOK, WorkerPC
<1>8. CASE threadDispatchSession
  <2>1. \A s \in Requests : dispatched(s) \in Session
    BY SessionType DEF dispatched, DriverTypeOK, HttpStatus
  <2> QED
    BY <1>8, <2>1 DEF threadDispatchSession, DriverTypeOK, WorkerPC, Transfer
<1>9. CASE threadQueueCleanup
  BY <1>9, ReleaseType DEF threadQueueCleanup, DriverTypeOK, WorkerPC
<1> QED
  BY <1>1, <1>2, <1>3, <1>4, <1>5, <1>6, <1>7, <1>8, <1>9 DEF thread

\* So does every step of a client.
LEMMA ClientType ==
  ASSUME TypeOK, NEW c \in Clients, client(c)
  PROVE  TypeOK'
<1> USE DEF call
<1>1. CASE startAdd(c)
  <2>1. current[c] \in Requests
    BY <1>1 DEF startAdd, TypeOK
  <2>2. [op |-> "Add", req |-> current[c]] \in Command
    BY <2>1 DEF Command
  <2>3. mCmdFifo' \in Seq(Command)
    BY <1>1, <2>2 DEF startAdd, addSession, post, TypeOK, DriverTypeOK
  <2> QED
    BY <1>1, <2>1, <2>3 DEF startAdd, addSession, post, TypeOK, DriverTypeOK
<1>2. CASE startStart(c)
  <2>1. session' \in [Requests -> Session]
    BY <1>2, SessionType DEF startStart, TypeOK, DriverTypeOK
  <2> QED
    BY <1>2, <2>1 DEF startStart, TypeOK, DriverTypeOK
<1>3. CASE beyondLimit(c)
  BY <1>3 DEF beyondLimit, driverVars, TypeOK, DriverTypeOK
<1>4. ASSUME NEW k \in Keys, startUrlRequest(c, k)
      PROVE  TypeOK'
  BY <1>4, HEDriverAssumption DEF startUrlRequest, TypeOK, DriverTypeOK
<1>5. ASSUME NEW k \in Keys, stopRequest(c, k)
      PROVE  TypeOK'
  <2>1. [op |-> "Stop", key |-> k] \in Command
    BY DEF Command
  <2>2. mCmdFifo' \in Seq(Command)
    BY <1>5, <2>1 DEF stopRequest, stopSession, post, TypeOK, DriverTypeOK
  <2> QED
    BY <1>5, <2>2 DEF stopRequest, stopSession, post, TypeOK, DriverTypeOK
<1>6. ASSUME NEW k \in Keys, setRequestOption(c, k)
      PROVE  TypeOK'
  <2>1. session' \in [Requests -> Session]
    BY <1>6, SessionType DEF setRequestOption, TypeOK, DriverTypeOK
  <2> QED
    BY <1>6, <2>1 DEF setRequestOption, TypeOK, DriverTypeOK
<1>7. ASSUME NEW k \in Keys, useDriver(c, k)
      PROVE  TypeOK'
  <2>1. /\ [op |-> "Remove", key |-> k] \in Command
        /\ [op |-> "Clear"] \in Command
    BY DEF Command
  <2>2. PICK cmd \in Command : mCmdFifo' = Append(mCmdFifo, cmd)
    BY <1>7, <2>1 DEF useDriver, removeSession, clearSession, post
  <2>3. mCmdFifo' \in Seq(Command)
    BY <2>2 DEF TypeOK, DriverTypeOK
  <2> QED
    BY <1>7, <2>3 DEF useDriver, removeSession, clearSession, post, TypeOK,
                      DriverTypeOK
<1> QED
  BY <1>1, <1>2, <1>3, <1>4, <1>5, <1>6, <1>7 DEF client

\* And every step of the engine.
LEMMA NextType == TypeOK /\ [Next]_vars => TypeOK'
<1> SUFFICES ASSUME TypeOK, [Next]_vars
             PROVE  TypeOK'
  OBVIOUS
<1>1. CASE worker
  BY <1>1, ThreadType DEF worker, clientVars, TypeOK
<1>2. CASE initialize
  <2>1. pc' \in WorkerPC /\ joinable' \in BOOLEAN
    BY <1>2 DEF initialize, TypeOK, DriverTypeOK, WorkerPC
  <2> QED
    BY <1>2, <2>1, HEEngineAssumption DEF initialize, call, TypeOK, DriverTypeOK
<1>3. CASE unInitialize
  BY <1>3, HEEngineAssumption DEF unInitialize, call, TypeOK, DriverTypeOK
<1>4. CASE join
  BY <1>4, HEEngineAssumption DEF join, driverVars, TypeOK, DriverTypeOK
<1>5. ASSUME NEW c \in Clients, client(c)
      PROVE  TypeOK'
  BY <1>5, ClientType
<1>6. CASE UNCHANGED vars
  BY <1>6 DEF vars, driverVars, clientVars, TypeOK, DriverTypeOK
<1> QED
  BY <1>1, <1>2, <1>3, <1>4, <1>5, <1>6 DEF Next

\* Every variable has its type before initialize.
LEMMA InitType == Init => TypeOK
<1> SUFFICES ASSUME Init
             PROVE  TypeOK
  OBVIOUS
<1>1. NewSession \in Session
  BY DEF NewSession, Session, HttpStatus
<1>2. mCmdFifo \in Seq(Command)
  BY DEF Init, DriverInit
<1>3. /\ session \in [Requests -> Session]
      /\ heard \in [Requests -> Notification]
      /\ multi \in [Requests -> Transfer]
  BY <1>1 DEF Init, DriverInit, Notification, Transfer
<1>4. /\ key \in [Requests -> Keys \cup {0}]
      /\ mSessionInfoPtrMap \in [Keys -> Requests \cup {NoRequest}]
  BY DEF Init, DriverInit
<1>5. /\ mSessionCount \in Int
      /\ pc \in WorkerPC
      /\ todo \in SUBSET Keys
  BY DEF Init, DriverInit, WorkerPC
<1>6. /\ mShutdown \in BOOLEAN
      /\ bHasHandle \in BOOLEAN
      /\ mHttpDriver \in BOOLEAN
      /\ joinable \in BOOLEAN
      /\ joinFailed \in BOOLEAN
  BY Zenon DEF Init, DriverInit
<1>7. DriverTypeOK
  BY <1>2, <1>3, <1>4, <1>5, <1>6 DEF DriverTypeOK
<1>8. /\ at \in [Clients -> {"idle", "add", "start", "join"}]
      /\ current \in [Clients -> Requests \cup {NoRequest}]
      /\ \A c \in Clients : at[c] \in {"add", "start"} <=> current[c] # NoRequest
      /\ calls \in [Clients -> Nat]
  BY HEEngineAssumption DEF Init
<1> QED
  BY <1>6, <1>7, <1>8 DEF TypeOK

\* Every variable of the engine always has its type; in particular a client
\* inside startUrlRequest, and only such a client, holds a session.
THEOREM TypeCorrect == Spec => []TypeOK
BY InitType, NextType, PTL DEF Spec

-----------------------------------------------------------------------------
(***************************************************************************)
(* The invariant.  First what happens to the cursor of the scan, to the    *)
(* map and to the queue.                                                   *)
(***************************************************************************)

\* The scan is at a key it has not passed.
LEMMA CursorIn ==
  ASSUME DriverTypeOK, todo # {}
  PROVE  cursor \in todo
<1> DEFINE less == OpToRel(<, Nat)
<1>1. todo \subseteq Nat
  BY HEDriverAssumption DEF DriverTypeOK
<1>2. PICK k \in todo : \A j \in todo : <<j, k>> \notin less
  BY <1>1, NatLessThanWellFounded, WFMin
<1>3. ASSUME NEW j \in todo
      PROVE  k <= j
  <2>1. <<j, k>> \in less <=> j < k
    <3>1. <<j, k>> \in Nat \X Nat
      BY <1>1
    <3> QED
      BY <3>1 DEF OpToRel
  <2> HIDE DEF less
  <2> QED
    BY <1>1, <1>2, <2>1
<1> QED
  BY <1>3 DEF cursor

\* It stays there while the rest of the iteration and the map do.
LEMMA CursorStays ==
  ASSUME UNCHANGED todo
  PROVE  /\ cursor' = cursor
         /\ UNCHANGED mSessionInfoPtrMap => scanned' = scanned
BY DEF cursor, scanned

\* During the scan there is a session at the cursor.
LEMMA ScannedInMap ==
  ASSUME DriverTypeOK, ScanInv, pc \in {"scan", "release"}, todo # {}
  PROVE  /\ cursor \in Keys
         /\ scanned \in Requests
         /\ InMap(scanned)
BY CursorIn DEF ScanInv, DriverTypeOK, usedKeys, scanned, InMap

\* A session leaves the map when the key it is under is let go of.
LEMMA ReleaseMap ==
  ASSUME TypeOK, MapInv, NEW K \in SUBSET Keys, releaseSessions(K),
         UNCHANGED key
  PROVE  /\ \A s \in Requests : InMap(s)' <=> InMap(s) /\ s \notin sessionsUnder(K)
         /\ usedKeys(mSessionInfoPtrMap)' = usedKeys(mSessionInfoPtrMap) \ K
         /\ MapInv'
<1>1. mSessionInfoPtrMap' = [k \in Keys |-> IF k \in K THEN NoRequest
                                            ELSE mSessionInfoPtrMap[k]]
  BY DEF releaseSessions
<1>2. \A k \in Keys : mSessionInfoPtrMap[k] \in Requests \cup {NoRequest}
  BY DEF TypeOK, DriverTypeOK
<1>3. ASSUME NEW s \in Requests
      PROVE  InMap(s)' <=> InMap(s) /\ s \notin sessionsUnder(K)
  BY <1>1, <1>2, <1>3, HEDriverAssumption DEF InMap, sessionsUnder, MapInv
<1>4. usedKeys(mSessionInfoPtrMap)' = usedKeys(mSessionInfoPtrMap) \ K
  BY <1>1 DEF usedKeys
<1>5. MapInv'
  BY <1>1 DEF MapInv
<1> QED
  BY <1>3, <1>4, <1>5

\* A session is no longer queued once the command at the head was its Add,
\* and nothing else becomes queued.
LEMMA QueueShrinks ==
  ASSUME mCmdFifo \in Seq(Command), mCmdFifo # <<>>, mCmdFifo' = Tail(mCmdFifo),
         OnceInv
  PROVE  /\ OnceInv'
         /\ \A s \in Requests : Queued(s)' => Queued(s)
         /\ \A s \in Requests :
              Head(mCmdFifo).op = "Add" /\ Head(mCmdFifo).req = s =>
                Queued(s) /\ ~Queued(s)'
<1>1. /\ DOMAIN mCmdFifo = 1 .. Len(mCmdFifo)
      /\ Len(mCmdFifo) \in Nat \ {0}
      /\ DOMAIN mCmdFifo' = 1 .. Len(mCmdFifo) - 1
      /\ \A i \in DOMAIN mCmdFifo' : mCmdFifo'[i] = mCmdFifo[i + 1]
      /\ Head(mCmdFifo) = mCmdFifo[1]
  OBVIOUS
<1>2. OnceInv'
  BY <1>1 DEF OnceInv
<1>3. ASSUME NEW s \in Requests, Queued(s)'
      PROVE  Queued(s)
  BY <1>1, <1>3 DEF Queued
<1>4. ASSUME NEW s \in Requests,
             Head(mCmdFifo).op = "Add",
             Head(mCmdFifo).req = s
      PROVE  Queued(s) /\ ~Queued(s)'
  <2>1. \A x, y \in Command : x.op = "Add" /\ y.op = "Add" /\ x.req = y.req => x = y
    BY DEF Command
  <2>2. \A i \in DOMAIN mCmdFifo : mCmdFifo[i] \in Command
    OBVIOUS
  <2>3. Queued(s)
    BY <1>1, <1>4 DEF Queued
  <2>4. ASSUME NEW i \in DOMAIN mCmdFifo',
               mCmdFifo'[i].op = "Add",
               mCmdFifo'[i].req = s
        PROVE  FALSE
    <3>1. /\ i + 1 \in DOMAIN mCmdFifo
          /\ 1 \in DOMAIN mCmdFifo
          /\ i + 1 # 1
          /\ mCmdFifo'[i] = mCmdFifo[i + 1]
      BY <1>1
    <3>2. mCmdFifo[i + 1] = mCmdFifo[1]
      BY <1>1, <1>4, <2>1, <2>2, <2>4, <3>1
    <3> QED
      BY <1>1, <1>4, <3>1, <3>2 DEF OnceInv
  <2> QED
    BY <2>3, <2>4 DEF Queued
<1> QED
  BY <1>2, <1>3, <1>4

-----------------------------------------------------------------------------
(***************************************************************************)
(* The part of the invariant that speaks about single requests, and the    *)
(* kinds of steps that preserve it.                                        *)
(***************************************************************************)
RequestInv == QueuedInv /\ ClientInv /\ UnbornInv /\ SessionInv

\* Steps that move the worker on, or let curl finish transfers.
LEMMA QuietStep ==
  ASSUME RequestInv,
         UNCHANGED <<session, key, heard, at, current>>,
         \A s \in Requests : InMap(s)' <=> InMap(s),
         \A s \in Requests : Queued(s)' => Queued(s),
         \A s \in Requests : multi[s] = "out" => multi'[s] = "out",
         \A s \in Requests : Leaving(s)' <=> Leaving(s)
  PROVE  RequestInv'
<1>1. QueuedInv'
  BY DEF RequestInv, QueuedInv
<1>2. ClientInv' /\ UnbornInv'
  BY DEF RequestInv, ClientInv, UnbornInv, Fresh
<1>3. SessionInv'
  BY DEF RequestInv, SessionInv
<1> QED
  BY <1>1, <1>2, <1>3 DEF RequestInv

\* Steps that let go of sessions.
LEMMA ReleaseStep ==
  ASSUME TypeOK, MapInv, RequestInv, NEW K \in SUBSET Keys, releaseSessions(K),
         UNCHANGED <<key, at, current>>,
         \A s \in Requests : Queued(s)' => Queued(s),
         \A s \in Requests : Leaving(s) => s \in sessionsUnder(K),
         pc' # "release"
  PROVE  RequestInv'
<1> DEFINE gone == sessionsUnder(K)
<1>1. \A s \in Requests : InMap(s)' <=> InMap(s) /\ s \notin gone
  BY ReleaseMap
<1>2. \A s \in gone : InMap(s)
  BY DEF sessionsUnder, InMap
<1>3. \A s \in Requests : s \notin gone => /\ session'[s] = session[s]
                                          /\ heard'[s] = heard[s]
                                          /\ multi'[s] = multi[s]
  BY DEF releaseSessions
<1>4. \A s \in gone : /\ session'[s] = uninitSessionInfo(session[s])
                      /\ heard'[s] = "Released"
                      /\ multi'[s] = "out"
  BY DEF releaseSessions, sessionsUnder
<1>5. \A s \in gone : /\ ~session'[s].mCURL
                      /\ session'[s].status = session[s].status
  <2>1. \A x \in Session : /\ ~uninitSessionInfo(x).mCURL
                           /\ uninitSessionInfo(x).status = x.status
    BY DEF Session, uninitSessionInfo
  <2> QED
    BY <1>4, <2>1 DEF TypeOK, DriverTypeOK, sessionsUnder
<1>6. \A s \in Requests : ~Leaving(s)'
  BY DEF Leaving
<1> HIDE DEF gone
<1>7. QueuedInv'
  BY <1>1, <1>2, <1>3 DEF RequestInv, QueuedInv
<1>8. ClientInv'
  BY <1>1, <1>2, <1>3, <1>5 DEF RequestInv, ClientInv, Fresh
<1>9. UnbornInv'
  BY <1>1, <1>2, <1>3 DEF RequestInv, UnbornInv, Fresh
<1>10. \A s \in Requests : Leaving(s) => s \in gone
  BY DEF gone
<1>11. SessionInv'
  BY <1>1, <1>3, <1>4, <1>5, <1>6, <1>10 DEF RequestInv, SessionInv
<1> QED
  BY <1>7, <1>8, <1>9, <1>11 DEF RequestInv

\* Steps that change one session which is in the map, is not leaving, and
\* has not been stopped or left unstarted: everything the scan and curl's
\* messages do to a session.
LEMMA AdvanceStep ==
  ASSUME TypeOK, RequestInv,
         UNCHANGED <<key, at, current>>,
         \A s \in Requests : InMap(s)' <=> InMap(s),
         \A s \in Requests : Queued(s)' <=> Queued(s),
         \A s \in Requests : ~Leaving(s) /\ ~Leaving(s)',
         NEW T \in SUBSET Requests,
         \A s \in Requests \ T : /\ session'[s] = session[s]
                                 /\ heard'[s] = heard[s]
                                 /\ multi[s] = "out" => multi'[s] = "out",
         \A s \in T : /\ InMap(s)
                      /\ session[s].status \notin {"CLOSED", "ABORT"}
                      /\ session'[s].status \in {"START", "WAITCOMPLATE", "COMPLETE", "ERROR"}
                      /\ multi'[s] # "out" => session'[s].mCURL
                      /\ heard'[s] \in {"None", "Started"}
                      /\ heard'[s] = "Started" => session'[s].mCURL
                      /\ session'[s].status \in {"WAITCOMPLATE", "COMPLETE"}
                           => session'[s].mCURL
                      /\ session'[s].mCURL /\ session'[s].status # "ERROR"
                           => heard'[s] = "Started"
  PROVE  RequestInv'
<1>1. QueuedInv'
  BY DEF RequestInv, QueuedInv
<1>2. ClientInv'
  BY DEF RequestInv, ClientInv, Fresh
<1>3. UnbornInv'
  BY DEF RequestInv, UnbornInv, Fresh
<1>4. SessionInv'
  BY DEF RequestInv, SessionInv
<1> QED
  BY <1>1, <1>2, <1>3, <1>4 DEF RequestInv

-----------------------------------------------------------------------------
(***************************************************************************)
(* The steps of the worker.                                                *)
(***************************************************************************)

\* While curl works, a transfer that was not added stays so.
LEMMA PerformKeepsOut ==
  ASSUME curl_multi_perform
  PROVE  \A s \in Requests : multi[s] = "out" => multi'[s] = "out"
BY DEF curl_multi_perform

\* The steps that touch neither map nor queue nor session.
LEMMA MoveOn ==
  ASSUME TypeOK, IInv, UNCHANGED clientVars,
         UNCHANGED <<session, key, heard, mSessionInfoPtrMap, mSessionCount,
                     mCmdFifo, mShutdown>>,
         \A s \in Requests : multi[s] = "out" => multi'[s] = "out",
         pc # "release", pc' # "release",
         pc' = "scan" => todo' \subseteq usedKeys(mSessionInfoPtrMap),
         pc # "off", pc' # "off",
         pc' \in {"init", "exited"} => pc = "init",
         pc # "exited"
  PROVE  IInv'
<1>1. RequestInv'
  <2>1. \A s \in Requests : /\ InMap(s)' <=> InMap(s)
                            /\ Queued(s)' <=> Queued(s)
    BY DEF InMap, Queued
  <2>2. \A s \in Requests : Leaving(s)' <=> Leaving(s)
    BY DEF Leaving
  <2>3. RequestInv
    BY DEF IInv, RequestInv
  <2> QED
    BY <2>1, <2>2, <2>3, QuietStep DEF clientVars
<1>2. MapInv' /\ OnceInv'
  BY DEF IInv, MapInv, OnceInv
<1>3. ScanInv'
  BY DEF ScanInv, usedKeys
<1>4. WorkerInv'
  BY DEF IInv, WorkerInv, clientVars, usedKeys
<1>5. CountIsMapSize'
  BY DEF IInv, CountIsMapSize, usedKeys
<1> QED
  BY <1>1, <1>2, <1>3, <1>4, <1>5 DEF IInv, RequestInv

\* curl_multi_init succeeds or fails before anything is in the map.
LEMMA threadBeginInv ==
  ASSUME TypeOK, IInv, threadBegin, UNCHANGED clientVars
  PROVE  IInv'
BY MoveOn DEF threadBegin

\* The loop goes on or leaves; no session is touched.
LEMMA threadLoopInv ==
  ASSUME TypeOK, IInv, threadLoop, UNCHANGED clientVars
  PROVE  IInv'
BY MoveOn DEF threadLoop

\* The scan begins with the keys that are in the map.
LEMMA threadPerformInv ==
  ASSUME TypeOK, IInv, threadPerform, UNCHANGED clientVars
  PROVE  IInv'
BY MoveOn, PerformKeepsOut DEF threadPerform

\* curl finishes transfers; no session is touched.
LEMMA threadMultiURLRoopInv ==
  ASSUME TypeOK, IInv, threadMultiURLRoop, UNCHANGED clientVars
  PROVE  IInv'
BY MoveOn, PerformKeepsOut DEF threadMultiURLRoop

\* Reporting progress changes nothing but the place in the loop.
LEMMA threadNotificationProgressInv ==
  ASSUME TypeOK, IInv, threadNotificationProgress, UNCHANGED clientVars
  PROVE  IInv'
BY MoveOn DEF threadNotificationProgress

\* A session with nothing to do is passed.
LEMMA scanPassInv ==
  ASSUME TypeOK, IInv, scanPass, UNCHANGED clientVars
  PROVE  IInv'
BY MoveOn DEF scanPass, atSession, nextSession, IInv, ScanInv

\* The end of the iteration touches no session.
LEMMA scanEndInv ==
  ASSUME TypeOK, IInv, scanEnd, UNCHANGED clientVars
  PROVE  IInv'
BY MoveOn DEF scanEnd

\* Letting go of sessions, on whichever path, keeps the invariant.
LEMMA LetGo ==
  ASSUME TypeOK, IInv, UNCHANGED clientVars, UNCHANGED <<key, mShutdown>>,
         NEW K \in SUBSET Keys, releaseSessions(K),
         \A s \in Requests : Queued(s)' => Queued(s), OnceInv',
         \A s \in Requests : Leaving(s) => s \in sessionsUnder(K),
         pc' = "scan" => todo' \subseteq usedKeys(mSessionInfoPtrMap) \ K,
         pc' = "exited" => usedKeys(mSessionInfoPtrMap) \subseteq K,
         pc \notin {"off", "exited"}, pc' \notin {"off", "init", "release"},
         mSessionCount' = Cardinality(usedKeys(mSessionInfoPtrMap) \ K)
  PROVE  IInv'
<1>1. MapInv' /\ usedKeys(mSessionInfoPtrMap)' = usedKeys(mSessionInfoPtrMap) \ K
  BY ReleaseMap DEF IInv
<1>2. RequestInv'
  BY ReleaseStep DEF IInv, RequestInv, clientVars
<1>3. ScanInv'
  BY <1>1 DEF ScanInv
<1>4. WorkerInv'
  <2>1. pc' = "exited" => usedKeys(mSessionInfoPtrMap)' = {}
    BY <1>1
  <2> QED
    BY <2>1 DEF IInv, WorkerInv, clientVars
<1>5. CountIsMapSize'
  BY <1>1 DEF CountIsMapSize
<1> QED
  BY <1>1, <1>2, <1>3, <1>4, <1>5 DEF IInv, RequestInv

\* The session map has finitely many entries.
LEMMA usedKeysFinite ==
  /\ IsFiniteSet(usedKeys(mSessionInfoPtrMap))
  /\ Cardinality(usedKeys(mSessionInfoPtrMap)) \in Nat
<1>1. IsFiniteSet(usedKeys(mSessionInfoPtrMap))
  BY HEDriverAssumption, FS_Subset DEF usedKeys
<1> QED
  BY <1>1, FS_CardinalityType

\* The scan lets go of the session it has notified, and of no other.
LEMMA scanReleaseInv ==
  ASSUME TypeOK, IInv, scanRelease, UNCHANGED clientVars
  PROVE  IInv'
<1> DEFINE used == usedKeys(mSessionInfoPtrMap)
<1>1. /\ cursor \in todo
      /\ cursor \in Keys
      /\ scanned \in Requests
      /\ todo \subseteq used
  BY CursorIn, ScannedInMap DEF scanRelease, IInv, ScanInv, TypeOK
<1>2. \A s \in Requests : Leaving(s) => s \in sessionsUnder({cursor})
  BY <1>1 DEF Leaving, scanned, sessionsUnder
<1>3. todo' \subseteq used \ {cursor}
  BY <1>1 DEF scanRelease
<1>4. mSessionCount' = Cardinality(used \ {cursor})
  <2>1. Cardinality(used \ {cursor}) = Cardinality(used) - 1
    BY <1>1, usedKeysFinite, FS_RemoveElement
  <2> QED
    BY <2>1 DEF scanRelease, atomic_dec32, IInv, CountIsMapSize
<1>5. /\ \A s \in Requests : Queued(s)' => Queued(s)
      /\ OnceInv'
  BY DEF scanRelease, Queued, IInv, OnceInv
<1> HIDE DEF used
<1> QED
  BY <1>1, <1>2, <1>3, <1>4, <1>5, LetGo DEF scanRelease, used

\* The cleanup lets go of all sessions.
LEMMA threadQueueCleanupInv ==
  ASSUME TypeOK, IInv, threadQueueCleanup, UNCHANGED clientVars
  PROVE  IInv'
<1>1. keysLeft \in SUBSET Keys
  BY DEF keysLeft, usedKeys
<1>2. mSessionCount' = Cardinality(usedKeys(mSessionInfoPtrMap) \ keysLeft)
  <2>1. usedKeys(mSessionInfoPtrMap) \ keysLeft = {}
    BY DEF keysLeft
  <2> QED
    BY <2>1, FS_EmptySet DEF threadQueueCleanup
<1>3. /\ \A s \in Requests : Queued(s)' => Queued(s)
      /\ OnceInv'
  BY DEF threadQueueCleanup, Queued, IInv, OnceInv
<1>4. \A s \in Requests : ~Leaving(s)
  BY DEF threadQueueCleanup, Leaving
<1>5. usedKeys(mSessionInfoPtrMap) \subseteq keysLeft
  BY DEF keysLeft
<1> QED
  BY <1>1, <1>2, <1>3, <1>4, <1>5, LetGo DEF threadQueueCleanup

\* What the scan and curl's messages do to sessions keeps the invariant.
LEMMA Advance ==
  ASSUME TypeOK, IInv, UNCHANGED clientVars,
         UNCHANGED <<key, mSessionInfoPtrMap, mSessionCount, mCmdFifo, mShutdown>>,
         pc \in {"scan", "dispatch"}, pc' \in {"scan", "loop"},
         pc' = "scan" => todo' \subseteq usedKeys(mSessionInfoPtrMap),
         RequestInv'
  PROVE  IInv'
<1>1. MapInv' /\ OnceInv'
  BY DEF IInv, MapInv, OnceInv
<1>2. ScanInv'
  BY DEF ScanInv, usedKeys
<1>3. WorkerInv'
  BY DEF IInv, WorkerInv, clientVars, usedKeys
<1>4. CountIsMapSize'
  BY DEF IInv, CountIsMapSize, usedKeys
<1> QED
  BY <1>1, <1>2, <1>3, <1>4 DEF IInv, RequestInv

\* A started session gets its handle and was not Started before.
LEMMA scanStartInv ==
  ASSUME TypeOK, IInv, scanStart, UNCHANGED clientVars
  PROVE  IInv'
<1>1. /\ scanned \in Requests
      /\ InMap(scanned)
      /\ session[scanned] \in Session
  BY ScannedInMap DEF scanStart, atSession, IInv, TypeOK, DriverTypeOK
<1>2. /\ session' = [session EXCEPT ![scanned].mCURL = TRUE]
      /\ heard' = [heard EXCEPT ![scanned] = "Started"]
      /\ multi' = [multi EXCEPT ![scanned] = "active"]
      /\ session[scanned].status = "START"
  BY DEF scanStart, atSession
<1>3. /\ session'[scanned].mCURL
      /\ session'[scanned].status = "START"
      /\ heard'[scanned] = "Started"
  BY <1>1, <1>2 DEF TypeOK, DriverTypeOK, Session
<1>4. \A s \in Requests \ {scanned} : /\ session'[s] = session[s]
                                      /\ heard'[s] = heard[s]
                                      /\ multi'[s] = multi[s]
  BY <1>2 DEF TypeOK, DriverTypeOK
<1>5. \A s \in Requests : /\ InMap(s)' <=> InMap(s)
                          /\ Queued(s)' <=> Queued(s)
                          /\ ~Leaving(s) /\ ~Leaving(s)'
  BY DEF scanStart, atSession, nextSession, InMap, Queued, Leaving
<1>6. RequestInv'
  <2> DEFINE T == {scanned}
  <2>1. T \in SUBSET Requests
    BY <1>1
  <2>2. \A s \in T : s = scanned
    OBVIOUS
  <2>3. RequestInv
    BY DEF IInv, RequestInv
  <2>4. \A s \in Requests \ T : s # scanned
    OBVIOUS
  <2> HIDE DEF T
  <2> QED
    BY <1>1, <1>2, <1>3, <1>4, <1>5, <2>1, <2>2, <2>3, <2>4, AdvanceStep
       DEF clientVars, scanStart, atSession
<1> QED
  BY <1>6, Advance DEF scanStart, atSession, nextSession, IInv, ScanInv

\* A session that cannot start was not Started and is failed.
LEMMA scanStartFailsInv ==
  ASSUME TypeOK, IInv, scanStartFails, UNCHANGED clientVars
  PROVE  IInv'
<1>1. /\ scanned \in Requests
      /\ InMap(scanned)
      /\ session[scanned] \in Session
      /\ session[scanned].status = "START"
      /\ ~session[scanned].mCURL
  BY ScannedInMap DEF scanStartFails, atSession, IInv, TypeOK, DriverTypeOK
<1>2. /\ UNCHANGED <<heard, multi>>
      /\ session' \in [Requests -> Session]
      /\ session'[scanned].status = "ERROR"
  <2>1. PICK handle \in BOOLEAN :
          session' = [session EXCEPT ![scanned] =
                        [setCurrentStatus(@, "ERROR") EXCEPT !.mCURL = handle]]
    BY DEF scanStartFails
  <2>2. \A x \in Session :
          /\ [setCurrentStatus(x, "ERROR") EXCEPT !.mCURL = handle] \in Session
          /\ [setCurrentStatus(x, "ERROR") EXCEPT !.mCURL = handle].status = "ERROR"
    BY DEF setCurrentStatus, Session, HttpStatus
  <2> QED
    BY <1>1, <2>1, <2>2 DEF scanStartFails, TypeOK, DriverTypeOK
<1>3. \A s \in Requests \ {scanned} : session'[s] = session[s]
  BY DEF scanStartFails, TypeOK, DriverTypeOK
<1>4. \A s \in Requests : /\ InMap(s)' <=> InMap(s)
                          /\ Queued(s)' <=> Queued(s)
                          /\ ~Leaving(s) /\ ~Leaving(s)'
  BY DEF scanStartFails, atSession, nextSession, InMap, Queued, Leaving
<1>5. heard[scanned] = "None" /\ multi[scanned] = "out"
  BY <1>1, <1>4 DEF IInv, SessionInv
<1>6. RequestInv'
  <2> DEFINE T == {scanned}
  <2>1. T \in SUBSET Requests
    BY <1>1
  <2>2. \A s \in T : s = scanned
    OBVIOUS
  <2>3. RequestInv
    BY DEF IInv, RequestInv
  <2>4. \A s \in Requests \ T : s # scanned
    OBVIOUS
  <2> HIDE DEF T
  <2> QED
    BY <1>1, <1>2, <1>3, <1>4, <1>5, <2>1, <2>2, <2>3, <2>4, AdvanceStep
       DEF clientVars, scanStartFails, atSession
<1> QED
  BY <1>6, Advance DEF scanStartFails, atSession, nextSession, IInv, ScanInv

\* A session reported complete has its handle and was Started.
LEMMA scanWaitCompleteInv ==
  ASSUME TypeOK, IInv, scanWaitComplete, UNCHANGED clientVars
  PROVE  IInv'
<1>1. /\ scanned \in Requests
      /\ InMap(scanned)
      /\ session[scanned] \in Session
      /\ session[scanned].status = "WAITCOMPLATE"
  BY ScannedInMap DEF scanWaitComplete, atSession, IInv, TypeOK, DriverTypeOK
<1>2. /\ UNCHANGED <<heard, multi>>
      /\ session'[scanned].status = "COMPLETE"
      /\ session'[scanned].mCURL = session[scanned].mCURL
  <2>1. \A x \in Session : /\ setCurrentStatus(x, "COMPLETE").status = "COMPLETE"
                           /\ setCurrentStatus(x, "COMPLETE").mCURL = x.mCURL
    BY DEF setCurrentStatus, Session
  <2> QED
    BY <1>1, <2>1 DEF scanWaitComplete, TypeOK, DriverTypeOK
<1>3. \A s \in Requests \ {scanned} : session'[s] = session[s]
  BY DEF scanWaitComplete, TypeOK, DriverTypeOK
<1>4. \A s \in Requests : /\ InMap(s)' <=> InMap(s)
                          /\ Queued(s)' <=> Queued(s)
                          /\ ~Leaving(s) /\ ~Leaving(s)'
  BY DEF scanWaitComplete, atSession, nextSession, InMap, Queued, Leaving
<1>5. session[scanned].mCURL /\ heard[scanned] = "Started"
  BY <1>1, <1>4 DEF IInv, SessionInv
<1>6. RequestInv'
  <2> DEFINE T == {scanned}
  <2>1. T \in SUBSET Requests
    BY <1>1
  <2>2. \A s \in T : s = scanned
    OBVIOUS
  <2>3. RequestInv
    BY DEF IInv, RequestInv
  <2>4. \A s \in Requests \ T : s # scanned
    OBVIOUS
  <2> HIDE DEF T
  <2> QED
    BY <1>1, <1>2, <1>3, <1>4, <1>5, <2>1, <2>2, <2>3, <2>4, AdvanceStep
       DEF clientVars, scanWaitComplete, atSession
<1> QED
  BY <1>6, Advance DEF scanWaitComplete, atSession, nextSession, IInv, ScanInv

\* Messages of curl change running sessions only.
LEMMA threadDispatchSessionInv ==
  ASSUME TypeOK, IInv, threadDispatchSession, UNCHANGED clientVars
  PROVE  IInv'
<1> DEFINE T == {s \in Requests : /\ multi[s] \in {"okay", "failed"}
                                 /\ InMap(s)
                                 /\ session[s].mCURL
                                 /\ session[s].status = "START"}
<1>1. \A s \in Requests \ T : /\ session'[s] = session[s]
                              /\ heard'[s] = heard[s]
                              /\ multi[s] = "out" => multi'[s] = "out"
  BY DEF threadDispatchSession, dispatched
<1>2. \A s \in T : /\ session'[s].status \in {"WAITCOMPLATE", "ERROR"}
                   /\ session'[s].mCURL
                   /\ heard'[s] = heard[s]
  <2>1. \A x \in Session, status \in HttpStatus :
          /\ setCurrentStatus(x, status).status = status
          /\ setCurrentStatus(x, status).mCURL = x.mCURL
    BY DEF setCurrentStatus, Session
  <2>2. \A s \in T : \E status \in {"WAITCOMPLATE", "ERROR"} :
          session'[s] = setCurrentStatus(session[s], status)
    BY DEF threadDispatchSession, dispatched
  <2>3. \A s \in T : session[s] \in Session /\ session[s].mCURL
    BY DEF TypeOK, DriverTypeOK
  <2>4. {"WAITCOMPLATE", "ERROR"} \subseteq HttpStatus
    BY DEF HttpStatus
  <2>5. UNCHANGED heard
    BY DEF threadDispatchSession
  <2> HIDE DEF T
  <2> QED
    BY <2>1, <2>2, <2>3, <2>4, <2>5
<1>3. \A s \in Requests : /\ InMap(s)' <=> InMap(s)
                          /\ Queued(s)' <=> Queued(s)
                          /\ ~Leaving(s) /\ ~Leaving(s)'
  BY DEF threadDispatchSession, InMap, Queued, Leaving
<1>4. \A s \in T : /\ InMap(s)
                   /\ session[s].status = "START"
                   /\ heard[s] = "Started"
  BY <1>3 DEF IInv, SessionInv
<1>5. RequestInv'
  <2>1. T \in SUBSET Requests
    OBVIOUS
  <2>2. RequestInv
    BY DEF IInv, RequestInv
  <2> HIDE DEF T
  <2> QED
    BY <1>1, <1>2, <1>3, <1>4, <2>1, <2>2, AdvanceStep
       DEF clientVars, threadDispatchSession
<1> QED
  BY <1>5, Advance DEF threadDispatchSession

\* The session whose outcome is notified is now the one leaving.
LEMMA scanOutcomeInv ==
  ASSUME TypeOK, IInv, scanOutcome, UNCHANGED clientVars
  PROVE  IInv'
<1>1. /\ scanned \in Requests
      /\ InMap(scanned)
      /\ session[scanned].status \in {"ABORT", "COMPLETE", "ERROR"}
  BY ScannedInMap DEF scanOutcome, atSession, IInv, TypeOK, DriverTypeOK
<1>2. \A s \in Requests : /\ InMap(s)' <=> InMap(s)
                          /\ Queued(s)' <=> Queued(s)
                          /\ ~Leaving(s)
                          /\ Leaving(s)' <=> s = scanned
  BY CursorStays DEF scanOutcome, atSession, InMap, Queued, Leaving
<1>3. /\ UNCHANGED <<session, key, multi, at, current>>
      /\ heard'[scanned] \in Outcome
      /\ heard'[scanned] = "Complated" => session[scanned].status = "COMPLETE"
      /\ \A s \in Requests \ {scanned} : heard'[s] = heard[s]
  BY <1>1 DEF scanOutcome, atSession, clientVars, outcomeOf, Outcome, TypeOK,
              DriverTypeOK
<1>4. QueuedInv'
  BY <1>1, <1>2, <1>3 DEF IInv, QueuedInv
<1>5. ClientInv' /\ UnbornInv'
  BY <1>1, <1>2, <1>3 DEF IInv, ClientInv, UnbornInv, Fresh
<1>6. SessionInv'
  BY <1>1, <1>2, <1>3 DEF IInv, SessionInv
<1>7. MapInv' /\ OnceInv' /\ ScanInv'
  BY DEF IInv, MapInv, OnceInv, ScanInv, scanOutcome, atSession, usedKeys
<1>8. WorkerInv'
  BY DEF IInv, WorkerInv, clientVars, scanOutcome, atSession
<1>9. CountIsMapSize'
  BY DEF IInv, CountIsMapSize, scanOutcome, atSession, usedKeys
<1> QED
  BY <1>4, <1>5, <1>6, <1>7, <1>8, <1>9 DEF IInv

\* A session whose Add is executed enters the map if its key is free.
LEMMA AddMap ==
  ASSUME TypeOK, MapInv, NEW a \in Requests, key[a] # 0, executeAdd(a),
         UNCHANGED key
  PROVE  /\ MapInv'
         /\ mSessionInfoPtrMap[key[a]] = NoRequest
              => \A s \in Requests : InMap(s)' <=> InMap(s) \/ s = a
         /\ mSessionInfoPtrMap[key[a]] # NoRequest
              => \A s \in Requests : InMap(s)' <=> InMap(s)
<1>1. key[a] \in Keys
  BY DEF TypeOK, DriverTypeOK
<1>2. CASE mSessionInfoPtrMap[key[a]] = NoRequest
  <2>1. mSessionInfoPtrMap' = [mSessionInfoPtrMap EXCEPT ![key[a]] = a]
    BY <1>2 DEF executeAdd
  <2>2. \A k \in Keys : mSessionInfoPtrMap'[k] = IF k = key[a] THEN a
                                                 ELSE mSessionInfoPtrMap[k]
    BY <2>1 DEF TypeOK, DriverTypeOK
  <2>3. MapInv'
    BY <2>2 DEF MapInv
  <2>4. \A s \in Requests : InMap(s)' <=> InMap(s) \/ s = a
    BY <1>1, <1>2, <2>2, HEDriverAssumption DEF InMap
  <2> QED
    BY <1>2, <2>3, <2>4
<1>3. CASE mSessionInfoPtrMap[key[a]] # NoRequest
  BY <1>3 DEF executeAdd, MapInv, InMap
<1> QED
  BY <1>2, <1>3

\* An Add puts a session nobody has heard about into the map.
LEMMA executeAddInv ==
  ASSUME TypeOK, IInv, UNCHANGED clientVars, NEW a \in Requests,
         threadPerformCommand, mCmdFifo # <<>>,
         Head(mCmdFifo).op = "Add", Head(mCmdFifo).req = a, executeAdd(a)
  PROVE  MapInv' /\ RequestInv'
<1>1. /\ Queued(a) /\ ~Queued(a)'
      /\ \A s \in Requests : Queued(s)' => Queued(s)
  BY QueueShrinks DEF TypeOK, DriverTypeOK, IInv, threadPerformCommand
<1>2. /\ key[a] # 0
      /\ heard[a] = "None"
      /\ ~InMap(a)
      /\ \A c \in Clients : at[c] = "add" => current[c] # a
  BY <1>1 DEF IInv, QueuedInv
<1>3. /\ UNCHANGED <<session, key, heard, multi, at, current>>
      /\ \A s \in Requests : ~Leaving(s) /\ ~Leaving(s)'
  BY DEF executeAdd, threadPerformCommand, clientVars, Leaving
<1>4. MapInv'
  BY <1>2, <1>3, AddMap DEF IInv
<1>5. \A s \in Requests : InMap(s) => InMap(s)'
  BY <1>2, <1>3, AddMap DEF IInv
<1>6. \A s \in Requests : InMap(s)' => InMap(s) \/ s = a
  BY <1>2, <1>3, AddMap DEF IInv
<1>7. QueuedInv'
  BY <1>1, <1>2, <1>3, <1>6 DEF IInv, QueuedInv
<1>8. ClientInv'
  BY <1>1, <1>2, <1>3, <1>6 DEF IInv, ClientInv, Fresh
<1>9. UnbornInv'
  BY <1>1, <1>2, <1>3, <1>6 DEF IInv, UnbornInv, Fresh
<1>10. SessionInv'
  <2>1. /\ ~session[a].mCURL
        /\ session[a].status \in {"CLOSED", "START"}
    BY <1>2 DEF IInv, SessionInv
  <2> QED
    BY <1>2, <1>3, <1>5, <1>6, <2>1 DEF IInv, SessionInv
<1> QED
  BY <1>4, <1>7, <1>8, <1>9, <1>10 DEF RequestInv

\* A Stop changes the status of a session that is in the map.
LEMMA executeStopInv ==
  ASSUME TypeOK, IInv, UNCHANGED clientVars, NEW k \in Keys,
         threadPerformCommand, mCmdFifo # <<>>, executeStop(k)
  PROVE  MapInv' /\ RequestInv'
<1>1. \A s \in Requests : Queued(s)' => Queued(s)
  BY QueueShrinks DEF TypeOK, DriverTypeOK, IInv, threadPerformCommand
<1>2. UNCHANGED <<key, heard, multi, mSessionInfoPtrMap, at, current>>
  BY DEF executeStop, threadPerformCommand, clientVars
<1>3. \A s \in Requests : /\ InMap(s)' <=> InMap(s)
                          /\ ~Leaving(s) /\ ~Leaving(s)'
  BY <1>2 DEF threadPerformCommand, InMap, Leaving
<1>4. \A s \in Requests :
        \/ session'[s] = session[s]
        \/ /\ InMap(s)
           /\ session'[s].status = "ABORT"
           /\ session'[s].mCURL = session[s].mCURL
  <2>1. \A x \in Session : stop(x).status = "ABORT" /\ stop(x).mCURL = x.mCURL
    BY DEF stop, Session
  <2>2. \A s \in Requests : \/ session'[s] = session[s]
                            \/ /\ InMap(s)
                               /\ session'[s] = stop(session[s])
    BY DEF executeStop, InMap
  <2>3. \A s \in Requests : session[s] \in Session
    BY DEF TypeOK, DriverTypeOK
  <2> QED
    BY <2>1, <2>2, <2>3
<1>5. MapInv'
  BY <1>2 DEF IInv, MapInv
<1>6. QueuedInv'
  BY <1>1, <1>2, <1>3 DEF IInv, QueuedInv
<1>7. ClientInv'
  BY <1>1, <1>2, <1>3, <1>4 DEF IInv, ClientInv, Fresh
<1>8. UnbornInv'
  BY <1>1, <1>2, <1>3, <1>4 DEF IInv, UnbornInv, Fresh
<1>9. SessionInv'
  BY <1>2, <1>3, <1>4 DEF IInv, SessionInv
<1> QED
  BY <1>5, <1>6, <1>7, <1>8, <1>9 DEF RequestInv

\* Remove and Clear let go of sessions.
LEMMA executeReleaseInv ==
  ASSUME TypeOK, IInv, UNCHANGED clientVars, NEW K \in SUBSET Keys,
         threadPerformCommand, mCmdFifo # <<>>, releaseSessions(K)
  PROVE  MapInv' /\ RequestInv'
<1>1. \A s \in Requests : Queued(s)' => Queued(s)
  BY QueueShrinks DEF TypeOK, DriverTypeOK, IInv, threadPerformCommand
<1>2. \A s \in Requests : ~Leaving(s)
  BY DEF threadPerformCommand, Leaving
<1>3. pc' # "release" /\ UNCHANGED <<key, at, current>>
  BY DEF threadPerformCommand, clientVars
<1> QED
  BY <1>1, <1>2, <1>3, ReleaseMap, ReleaseStep DEF IInv, RequestInv

\* Whatever command is at the head of the queue keeps the invariant.
LEMMA threadPerformCommandInv ==
  ASSUME TypeOK, IInv, threadPerformCommand, UNCHANGED clientVars
  PROVE  IInv'
<1>1. CASE mCmdFifo = <<>>
  BY <1>1, MoveOn DEF threadPerformCommand
<1>2. CASE mCmdFifo # <<>>
  <2> DEFINE cmd == Head(mCmdFifo)
  <2>1. /\ cmd \in Command
        /\ execute(cmd)
        /\ mCmdFifo' = Tail(mCmdFifo)
        /\ mSessionCount' = Cardinality(usedKeys(mSessionInfoPtrMap'))
        /\ pc = "command" /\ pc' = "perform"
        /\ mShutdown' = mShutdown
    BY <1>2 DEF threadPerformCommand, TypeOK, DriverTypeOK
  <2>2. MapInv' /\ RequestInv'
    <3>1. CASE cmd.op = "Add" /\ executeAdd(cmd.req)
      <4>1. cmd.req \in Requests
        BY <2>1, <3>1 DEF Command
      <4> QED
        BY <1>2, <3>1, <4>1, executeAddInv
    <3>2. CASE cmd.op = "Stop" /\ executeStop(cmd.key)
      <4>1. cmd.key \in Keys
        BY <2>1, <3>2 DEF Command
      <4> QED
        BY <1>2, <3>2, <4>1, executeStopInv
    <3>3. CASE cmd.op = "Remove" /\ executeRemove(cmd.key)
      <4>1. cmd.key \in Keys
        BY <2>1, <3>3 DEF Command
      <4> QED
        BY <1>2, <3>3, <4>1, executeReleaseInv DEF executeRemove
    <3>4. CASE cmd.op = "Clear" /\ executeClear
      BY <1>2, <3>4, executeReleaseInv DEF executeClear, usedKeys
    <3> QED
      BY <2>1, <3>1, <3>2, <3>3, <3>4 DEF execute
  <2>3. OnceInv'
    BY <1>2, <2>1, QueueShrinks DEF TypeOK, DriverTypeOK, IInv
  <2>4. ScanInv' /\ CountIsMapSize'
    BY <2>1 DEF ScanInv, CountIsMapSize, usedKeys
  <2>5. WorkerInv'
    BY <2>1 DEF IInv, WorkerInv, clientVars
  <2> QED
    BY <2>2, <2>3, <2>4, <2>5 DEF IInv, RequestInv
<1> QED
  BY <1>1, <1>2

\* Every step of the worker keeps the invariant.
LEMMA workerInv ==
  ASSUME TypeOK, IInv, worker
  PROVE  IInv'
BY threadBeginInv, threadLoopInv, threadPerformCommandInv, threadPerformInv,
   scanPassInv, scanStartInv, scanStartFailsInv, scanWaitCompleteInv,
   scanOutcomeInv, scanReleaseInv, scanEndInv, threadMultiURLRoopInv,
   threadNotificationProgressInv, threadDispatchSessionInv,
   threadQueueCleanupInv
   DEF worker, thread, threadScanQueue

-----------------------------------------------------------------------------
(***************************************************************************)
(* The steps of the clients.                                               *)
(***************************************************************************)

\* Calls that touch neither the sessions nor the queue.
LEMMA QuietCall ==
  ASSUME TypeOK, IInv,
         UNCHANGED <<session, key, heard, mSessionInfoPtrMap, mSessionCount,
                     mCmdFifo, multi, todo, current>>,
         \A c \in Clients : at'[c] \in {"add", "start"} => at'[c] = at[c],
         pc = "release" <=> pc' = "release",
         pc' = "scan" => pc = "scan"
  PROVE  /\ MapInv' /\ ScanInv' /\ OnceInv' /\ CountIsMapSize'
         /\ RequestInv'
<1>1. MapInv' /\ OnceInv'
  BY DEF IInv, MapInv, OnceInv
<1>2. ScanInv' /\ CountIsMapSize'
  BY DEF IInv, ScanInv, CountIsMapSize, usedKeys
<1>3. \A s \in Requests : /\ InMap(s)' <=> InMap(s)
                          /\ Queued(s)' <=> Queued(s)
                          /\ Leaving(s)' <=> Leaving(s)
  BY CursorStays DEF InMap, Queued, Leaving
<1>4. QueuedInv'
  BY <1>3 DEF IInv, QueuedInv
<1>5. ClientInv'
  BY <1>3 DEF IInv, ClientInv, Fresh
<1>6. UnbornInv'
  BY <1>3 DEF IInv, UnbornInv, Fresh
<1>7. SessionInv'
  BY <1>3 DEF IInv, SessionInv
<1> QED
  BY <1>1, <1>2, <1>4, <1>5, <1>6, <1>7 DEF RequestInv

\* initialize starts a worker that has nothing to do yet.
LEMMA initializeInv ==
  ASSUME TypeOK, IInv, initialize
  PROVE  IInv'
<1>1. /\ MapInv' /\ ScanInv' /\ OnceInv' /\ CountIsMapSize'
      /\ RequestInv'
  <2>1. /\ pc = "release" <=> pc' = "release"
        /\ pc' = "scan" => pc = "scan"
    BY DEF initialize, IInv, WorkerInv
  <2> QED
    BY <2>1, QuietCall DEF initialize
<1>2. WorkerInv'
  <2>1. CASE mHttpDriver
    BY <2>1 DEF initialize, IInv, WorkerInv
  <2>2. CASE ~mHttpDriver
    <3>1. /\ usedKeys(mSessionInfoPtrMap)' = {}
          /\ pc' = "init"
          /\ mHttpDriver' /\ joinable'
      BY <2>2 DEF initialize, IInv, WorkerInv, usedKeys
    <3> QED
      BY <3>1 DEF WorkerInv
  <2> QED
    BY <2>1, <2>2
<1> QED
  BY <1>1, <1>2 DEF IInv, RequestInv

\* unInitialize sets the flag of a driver that exists.
LEMMA unInitializeInv ==
  ASSUME TypeOK, IInv, unInitialize
  PROVE  IInv'
<1>1. \A c \in Clients : at'[c] \in {"add", "start"} => at'[c] = at[c]
  BY HEEngineAssumption DEF unInitialize, TypeOK
<1>2. /\ MapInv' /\ ScanInv' /\ OnceInv' /\ CountIsMapSize'
      /\ RequestInv'
  BY <1>1, QuietCall DEF unInitialize
<1>3. WorkerInv'
  BY DEF unInitialize, IInv, WorkerInv
<1> QED
  BY <1>2, <1>3 DEF IInv, RequestInv

\* After the join the worker has exited.
LEMMA joinInv ==
  ASSUME TypeOK, IInv, join
  PROVE  IInv'
<1>1. \A c \in Clients : at'[c] \in {"add", "start"} => at'[c] = at[c]
  BY HEEngineAssumption DEF join, TypeOK
<1>2. UNCHANGED <<session, key, heard, mSessionInfoPtrMap, mSessionCount,
                  mCmdFifo, multi, todo, current, pc, mShutdown, mHttpDriver>>
  BY DEF join, driverVars
<1>3. /\ MapInv' /\ ScanInv' /\ OnceInv' /\ CountIsMapSize'
      /\ RequestInv'
  BY <1>1, <1>2, QuietCall
<1>4. WorkerInv'
  <2>1. mHttpDriver
    BY DEF join, IInv, WorkerInv
  <2>2. pc = "exited"
    BY <2>1 DEF join, pthread_join, IInv, WorkerInv
  <2> QED
    BY <1>2, <2>1, <2>2 DEF IInv, WorkerInv
<1> QED
  BY <1>3, <1>4 DEF IInv, RequestInv

\* The worker's part of the invariant does not depend on the clients.
LEMMA WorkerUnaffected ==
  ASSUME IInv,
         UNCHANGED <<mSessionInfoPtrMap, pc, mHttpDriver, mShutdown, joinable>>,
         at'[Main] = "join" => at[Main] = "join"
  PROVE  WorkerInv'
BY DEF IInv, WorkerInv, usedKeys

\* Posting a command that adds nothing.
LEMMA PostOther ==
  ASSUME TypeOK, IInv, NEW cmd \in Command, cmd.op # "Add", post(cmd),
         UNCHANGED <<at, current, mHttpDriver, joinable>>
  PROVE  IInv'
<1>1. /\ DOMAIN mCmdFifo' = 1 .. Len(mCmdFifo) + 1
      /\ DOMAIN mCmdFifo = 1 .. Len(mCmdFifo)
      /\ \A i \in DOMAIN mCmdFifo : mCmdFifo'[i] = mCmdFifo[i]
      /\ mCmdFifo'[Len(mCmdFifo) + 1] = cmd
      /\ Len(mCmdFifo) \in Nat
  BY DEF post, TypeOK, DriverTypeOK
<1>2. OnceInv'
  BY <1>1 DEF IInv, OnceInv
<1>3. \A s \in Requests : Queued(s)' => Queued(s)
  BY <1>1 DEF Queued
<1>4. RequestInv'
  <2>1. \A s \in Requests : /\ InMap(s)' <=> InMap(s)
                            /\ Leaving(s)' <=> Leaving(s)
    BY CursorStays DEF post, InMap, Leaving
  <2> QED
    BY <1>3, <2>1, QuietStep DEF post, IInv, RequestInv
<1>5. MapInv' /\ ScanInv' /\ CountIsMapSize'
  BY DEF post, IInv, MapInv, ScanInv, CountIsMapSize, usedKeys
<1>6. WorkerInv'
  BY WorkerUnaffected DEF post
<1> QED
  BY <1>2, <1>4, <1>5, <1>6 DEF IInv, RequestInv

\* stopRequest posts a Stop.
LEMMA stopRequestInv ==
  ASSUME TypeOK, IInv, NEW c \in Clients, NEW k \in Keys, stopRequest(c, k)
  PROVE  IInv'
<1>1. /\ [op |-> "Stop", key |-> k] \in Command
      /\ [op |-> "Stop", key |-> k].op # "Add"
  BY DEF Command
<1> QED
  BY <1>1, PostOther DEF stopRequest, stopSession

\* removeSession and clearSession post a Remove and a Clear.
LEMMA useDriverInv ==
  ASSUME TypeOK, IInv, NEW c \in Clients, NEW k \in Keys, useDriver(c, k)
  PROVE  IInv'
<1>1. /\ [op |-> "Remove", key |-> k] \in Command
      /\ [op |-> "Remove", key |-> k].op # "Add"
      /\ [op |-> "Clear"] \in Command
      /\ [op |-> "Clear"].op # "Add"
  BY DEF Command
<1> QED
  BY <1>1, PostOther DEF useDriver, removeSession, clearSession

\* A rejected startUrlRequest changes nothing.
LEMMA beyondLimitInv ==
  ASSUME TypeOK, IInv, NEW c \in Clients, beyondLimit(c)
  PROVE  IInv'
<1>1. /\ MapInv' /\ ScanInv' /\ OnceInv' /\ CountIsMapSize'
      /\ RequestInv'
  BY QuietCall DEF beyondLimit, driverVars
<1>2. WorkerInv'
  BY WorkerUnaffected DEF beyondLimit, driverVars
<1> QED
  BY <1>1, <1>2 DEF IInv, RequestInv

\* A new session belongs to the one client that constructed it.
LEMMA startUrlRequestInv ==
  ASSUME TypeOK, IInv, NEW c \in Clients, NEW k \in Keys, startUrlRequest(c, k)
  PROVE  IInv'
<1>1. PICK a \in Requests : /\ key[a] = 0
                           /\ key' = [key EXCEPT ![a] = k]
                           /\ current' = [current EXCEPT ![c] = a]
  BY DEF startUrlRequest
<1>2. /\ key'[a] = k /\ k # 0
      /\ \A s \in Requests \ {a} : key'[s] = key[s]
      /\ current'[c] = a /\ at'[c] = "add"
      /\ \A d \in Clients \ {c} : current'[d] = current[d] /\ at'[d] = at[d]
      /\ at[c] = "idle" /\ current[c] = NoRequest
  BY <1>1, HEDriverAssumption DEF startUrlRequest, call, TypeOK, DriverTypeOK
<1>3. Fresh(a) /\ \A d \in Clients : current[d] # a
  BY <1>1 DEF IInv, UnbornInv
<1>4. UNCHANGED <<session, heard, multi, mSessionInfoPtrMap, mSessionCount,
                  mCmdFifo, mShutdown, pc, todo, mHttpDriver, joinable>>
  BY DEF startUrlRequest
<1>5. \A s \in Requests : /\ InMap(s)' <=> InMap(s)
                          /\ Queued(s)' <=> Queued(s)
                          /\ Leaving(s)' <=> Leaving(s)
  BY <1>4, CursorStays DEF InMap, Queued, Leaving
<1>6. MapInv'
  <2>1. ASSUME NEW j \in Keys, mSessionInfoPtrMap[j] # NoRequest
        PROVE  key'[mSessionInfoPtrMap[j]] = j
    <3>1. /\ mSessionInfoPtrMap[j] \in Requests
          /\ InMap(mSessionInfoPtrMap[j])
          /\ key[mSessionInfoPtrMap[j]] = j
      BY <2>1 DEF TypeOK, DriverTypeOK, InMap, IInv, MapInv
    <3>2. mSessionInfoPtrMap[j] # a
      BY <1>3, <3>1 DEF Fresh
    <3> QED
      BY <1>2, <3>1, <3>2
  <2> QED
    BY <1>4, <2>1 DEF MapInv
<1>7. OnceInv' /\ ScanInv' /\ CountIsMapSize'
  BY <1>4 DEF IInv, OnceInv, ScanInv, CountIsMapSize, usedKeys
<1>8. QueuedInv'
  BY <1>2, <1>3, <1>4, <1>5 DEF IInv, QueuedInv, Fresh
<1>9. ClientInv'
  <2>1. ASSUME NEW d \in Clients, NEW s \in Requests, current'[d] = s
        PROVE  /\ key'[s] # 0
               /\ \A e \in Clients \ {d} : current'[e] # s
    BY <1>2, <1>3, <2>1 DEF IInv, ClientInv
  <2>2. ASSUME NEW d \in Clients, NEW s \in Requests, current'[d] = s
        PROVE  /\ at'[d] = "add" => Fresh(s)'
               /\ at'[d] = "start" => /\ session'[s].status \in {"CLOSED", "ABORT"}
                                      /\ ~session'[s].mCURL
    BY <1>2, <1>3, <1>4, <1>5, <2>2 DEF IInv, ClientInv, Fresh
  <2> QED
    BY <2>1, <2>2 DEF ClientInv
<1>10. UnbornInv'
  BY <1>2, <1>3, <1>4, <1>5 DEF IInv, UnbornInv, Fresh
<1>11. SessionInv'
  BY <1>4, <1>5 DEF IInv, SessionInv
<1>12. WorkerInv'
  <2>1. at'[Main] = "join" => at[Main] = "join"
    BY <1>2, HEEngineAssumption
  <2> QED
    BY <1>4, <2>1, WorkerUnaffected
<1> QED
  BY <1>6, <1>7, <1>8, <1>9, <1>10, <1>11, <1>12 DEF IInv

\* Posting the Add puts a session into the queue that was not there.
LEMMA startAddInv ==
  ASSUME TypeOK, IInv, NEW c \in Clients, startAdd(c)
  PROVE  IInv'
<1> DEFINE a == current[c]
           cmd == [op |-> "Add", req |-> a]
           n == Len(mCmdFifo) + 1
<1>1. a \in Requests
  BY DEF startAdd, TypeOK
<1>2. /\ DOMAIN mCmdFifo' = 1 .. n
      /\ DOMAIN mCmdFifo = 1 .. Len(mCmdFifo)
      /\ \A i \in DOMAIN mCmdFifo : mCmdFifo'[i] = mCmdFifo[i]
      /\ mCmdFifo'[n] = cmd
      /\ Len(mCmdFifo) \in Nat
  BY DEF startAdd, addSession, post, TypeOK, DriverTypeOK
<1>3. /\ UNCHANGED <<session, key, heard, multi, mSessionInfoPtrMap,
                     mSessionCount, mShutdown, pc, todo, current, mHttpDriver,
                     joinable>>
      /\ at[c] = "add" /\ at'[c] = "start"
      /\ \A d \in Clients \ {c} : at'[d] = at[d]
  BY DEF startAdd, addSession, post, TypeOK
<1>4. /\ Fresh(a)
      /\ key[a] # 0
      /\ \A d \in Clients \ {c} : current[d] # a
  BY <1>1, <1>3 DEF IInv, ClientInv
<1> HIDE DEF a, n
<1>5. \A s \in Requests : /\ InMap(s)' <=> InMap(s)
                          /\ Leaving(s)' <=> Leaving(s)
  BY <1>3, CursorStays DEF InMap, Leaving
<1>6. \A s \in Requests : Queued(s)' => Queued(s) \/ s = a
  BY <1>2 DEF Queued, n
<1>7. OnceInv'
  <2>1. \A i \in DOMAIN mCmdFifo : mCmdFifo[i] # cmd
    <3>1. \A i \in DOMAIN mCmdFifo : ~(mCmdFifo[i].op = "Add" /\ mCmdFifo[i].req = a)
      BY <1>4 DEF Fresh, Queued
    <3> QED
      BY <3>1
  <2> HIDE DEF cmd
  <2>2. \A i \in 1 .. n : i = n \/ i \in DOMAIN mCmdFifo
    BY <1>2 DEF n
  <2> QED
    BY <1>2, <2>1, <2>2 DEF IInv, OnceInv
<1>8. QueuedInv'
  BY <1>3, <1>4, <1>5, <1>6 DEF IInv, QueuedInv, Fresh
<1>9. ClientInv'
  <2>1. ASSUME NEW d \in Clients, NEW s \in Requests, current'[d] = s
        PROVE  /\ key'[s] # 0
               /\ \A e \in Clients \ {d} : current'[e] # s
    BY <1>3, <2>1 DEF IInv, ClientInv
  <2>2. ASSUME NEW d \in Clients, NEW s \in Requests, current'[d] = s
        PROVE  /\ at'[d] = "add" => Fresh(s)'
               /\ at'[d] = "start" => /\ session'[s].status \in {"CLOSED", "ABORT"}
                                      /\ ~session'[s].mCURL
    <3>1. CASE d = c
      BY <1>3, <1>4, <2>2, <3>1 DEF Fresh, a
    <3>2. CASE d # c
      BY <1>3, <1>4, <1>5, <1>6, <2>2, <3>2 DEF IInv, ClientInv, Fresh
    <3> QED
      BY <3>1, <3>2
  <2> QED
    BY <2>1, <2>2 DEF ClientInv
<1>10. UnbornInv'
  BY <1>3, <1>4, <1>5, <1>6 DEF IInv, UnbornInv, Fresh
<1>11. SessionInv'
  BY <1>3, <1>5 DEF IInv, SessionInv
<1>12. MapInv' /\ ScanInv' /\ CountIsMapSize'
  BY <1>3 DEF IInv, MapInv, ScanInv, CountIsMapSize, usedKeys
<1>13. WorkerInv'
  <2>1. at'[Main] = "join" => at[Main] = "join"
    BY <1>3, HEEngineAssumption
  <2> QED
    BY <1>3, <2>1, WorkerUnaffected
<1> QED
  BY <1>7, <1>8, <1>9, <1>10, <1>11, <1>12, <1>13 DEF IInv

\* START is stored in a session that has no handle and was not Started.
LEMMA startStartInv ==
  ASSUME TypeOK, IInv, NEW c \in Clients, startStart(c)
  PROVE  IInv'
<1> DEFINE a == current[c]
<1>1. a \in Requests /\ a # NoRequest
  BY HEDriverAssumption DEF startStart, TypeOK
<1>2. /\ UNCHANGED <<key, heard, multi, mSessionInfoPtrMap, mSessionCount,
                     mCmdFifo, mShutdown, pc, todo, mHttpDriver, joinable>>
      /\ session' = [session EXCEPT ![a] = start(@)]
      /\ at[c] = "start" /\ at'[c] = "idle"
      /\ current'[c] = NoRequest
      /\ \A d \in Clients \ {c} : at'[d] = at[d] /\ current'[d] = current[d]
  BY DEF startStart, TypeOK
<1>3. /\ key[a] # 0
      /\ ~session[a].mCURL
      /\ \A d \in Clients \ {c} : current[d] # a
  BY <1>1, <1>2 DEF IInv, ClientInv
<1> HIDE DEF a
<1>4. /\ session'[a].status = "START"
      /\ ~session'[a].mCURL
      /\ \A s \in Requests \ {a} : session'[s] = session[s]
  <2>1. \A x \in Session : start(x).status = "START" /\ start(x).mCURL = x.mCURL
    BY DEF start, Session
  <2> QED
    BY <1>1, <1>2, <1>3, <2>1 DEF TypeOK, DriverTypeOK
<1>5. \A s \in Requests : /\ InMap(s)' <=> InMap(s)
                          /\ Queued(s)' <=> Queued(s)
                          /\ Leaving(s)' <=> Leaving(s)
  BY <1>2, CursorStays DEF InMap, Queued, Leaving
<1>6. QueuedInv'
  BY <1>2, <1>5, HEDriverAssumption DEF IInv, QueuedInv
<1>7. ClientInv'
  <2>1. ASSUME NEW d \in Clients, NEW s \in Requests, current'[d] = s
        PROVE  /\ d # c /\ current[d] = s /\ s # a
               /\ \A e \in Clients \ {d} : current'[e] # s
    BY <1>2, <1>3, <2>1, HEDriverAssumption DEF IInv, ClientInv
  <2>2. ASSUME NEW d \in Clients, NEW s \in Requests, current'[d] = s
        PROVE  /\ key'[s] # 0
               /\ at'[d] = "add" => Fresh(s)'
               /\ at'[d] = "start" => /\ session'[s].status \in {"CLOSED", "ABORT"}
                                      /\ ~session'[s].mCURL
    BY <1>2, <1>4, <1>5, <2>1, <2>2 DEF IInv, ClientInv, Fresh
  <2> QED
    BY <2>1, <2>2 DEF ClientInv
<1>8. UnbornInv'
  BY <1>2, <1>3, <1>4, <1>5, HEDriverAssumption DEF IInv, UnbornInv, Fresh
<1>9. SessionInv'
  BY <1>2, <1>3, <1>4, <1>5 DEF IInv, SessionInv
<1>10. MapInv' /\ OnceInv' /\ ScanInv' /\ CountIsMapSize'
  BY <1>2 DEF IInv, MapInv, OnceInv, ScanInv, CountIsMapSize, usedKeys
<1>11. WorkerInv'
  <2>1. at'[Main] = "join" => at[Main] = "join"
    BY <1>2, HEEngineAssumption
  <2> QED
    BY <1>2, <2>1, WorkerUnaffected
<1> QED
  BY <1>6, <1>7, <1>8, <1>9, <1>10, <1>11 DEF IInv

\* Asking for progress changes neither status nor handle.
LEMMA setRequestOptionInv ==
  ASSUME TypeOK, IInv, NEW c \in Clients, NEW k \in Keys, setRequestOption(c, k)
  PROVE  IInv'
<1>1. UNCHANGED <<key, heard, multi, mSessionInfoPtrMap, mSessionCount,
                  mCmdFifo, mShutdown, pc, todo, at, current, mHttpDriver,
                  joinable>>
  BY DEF setRequestOption
<1>2. \A s \in Requests : /\ session'[s].status = session[s].status
                          /\ session'[s].mCURL <=> session[s].mCURL
  <2>1. \A x \in Session : /\ setProgressNotifyFrequency(x).status = x.status
                           /\ setProgressNotifyFrequency(x).mCURL = x.mCURL
    BY DEF setProgressNotifyFrequency, Session
  <2> QED
    BY <2>1 DEF setRequestOption, TypeOK, DriverTypeOK
<1>3. \A s \in Requests : /\ InMap(s)' <=> InMap(s)
                          /\ Queued(s)' <=> Queued(s)
                          /\ Leaving(s)' <=> Leaving(s)
  BY <1>1, CursorStays DEF InMap, Queued, Leaving
<1>4. QueuedInv'
  BY <1>1, <1>3 DEF IInv, QueuedInv
<1>5. ClientInv' /\ UnbornInv'
  BY <1>1, <1>2, <1>3 DEF IInv, ClientInv, UnbornInv, Fresh
<1>6. SessionInv'
  BY <1>1, <1>2, <1>3 DEF IInv, SessionInv
<1>7. MapInv' /\ OnceInv' /\ ScanInv' /\ CountIsMapSize'
  BY <1>1 DEF IInv, MapInv, OnceInv, ScanInv, CountIsMapSize, usedKeys
<1>8. WorkerInv'
  BY <1>1, WorkerUnaffected
<1> QED
  BY <1>4, <1>5, <1>6, <1>7, <1>8 DEF IInv

\* Every step of a client keeps the invariant.
LEMMA clientInv ==
  ASSUME TypeOK, IInv, NEW c \in Clients, client(c)
  PROVE  IInv'
BY startUrlRequestInv, startAddInv, startStartInv, beyondLimitInv,
   stopRequestInv, setRequestOptionInv, useDriverInv DEF client

-----------------------------------------------------------------------------
\* The invariant holds before initialize.
LEMMA InitInv == Init => IInv
<1> SUFFICES ASSUME Init
             PROVE  IInv
  OBVIOUS
<1>1. /\ usedKeys(mSessionInfoPtrMap) = {}
      /\ mSessionCount = 0
      /\ pc = "off"
  BY HEDriverAssumption DEF Init, DriverInit, usedKeys
<1>2. \A s \in Requests : /\ ~InMap(s) /\ ~Queued(s) /\ ~Leaving(s)
                          /\ session[s] = NewSession
                          /\ heard[s] = "None"
                          /\ multi[s] = "out"
                          /\ \A c \in Clients : current[c] # s
  BY HEDriverAssumption DEF Init, DriverInit, InMap, Queued, Leaving
<1>3. \A s \in Requests : session[s].status = "CLOSED" /\ ~session[s].mCURL
  BY <1>2 DEF NewSession
<1>4. MapInv /\ ScanInv /\ OnceInv
  BY <1>1 DEF Init, DriverInit, MapInv, ScanInv, OnceInv
<1>5. QueuedInv /\ ClientInv
  BY <1>2 DEF QueuedInv, ClientInv
<1>6. UnbornInv
  BY <1>2, <1>3 DEF UnbornInv, Fresh
<1>7. SessionInv
  BY <1>2, <1>3 DEF SessionInv
<1>8. WorkerInv
  <2>1. at[Main] # "join"
    BY HEEngineAssumption DEF Init
  <2>2. ~mHttpDriver /\ ~mShutdown /\ ~joinable
    BY Zenon DEF Init, DriverInit
  <2> QED
    BY <1>1, <2>1, <2>2 DEF WorkerInv
<1>9. CountIsMapSize
  BY <1>1, FS_EmptySet DEF CountIsMapSize
<1> QED
  BY <1>4, <1>5, <1>6, <1>7, <1>8, <1>9 DEF IInv

\* Steps that change nothing are the calls that change nothing.
LEMMA StutterInv ==
  ASSUME TypeOK, IInv, UNCHANGED vars
  PROVE  IInv'
<1>1. /\ MapInv' /\ ScanInv' /\ OnceInv' /\ CountIsMapSize'
      /\ RequestInv'
  BY QuietCall DEF vars, driverVars, clientVars
<1>2. WorkerInv'
  BY WorkerUnaffected DEF vars, driverVars, clientVars
<1> QED
  BY <1>1, <1>2 DEF IInv, RequestInv

\* Every step of the engine keeps the invariant.
LEMMA NextInv == TypeOK /\ IInv /\ [Next]_vars => IInv'
BY workerInv, initializeInv, unInitializeInv, joinInv, clientInv, StutterInv
   DEF Next

\* The inductive invariant of the engine holds in every reachable state.
THEOREM Invariant == Spec => []IInv
<1>1. Init => TypeOK /\ IInv
  BY InitType, InitInv
<1>2. TypeOK /\ IInv /\ [Next]_vars => (TypeOK /\ IInv)'
  BY NextType, NextInv
<1> QED
  BY <1>1, <1>2, PTL DEF Spec

-----------------------------------------------------------------------------
(***************************************************************************)
(* What follows from the invariant.                                        *)
(***************************************************************************)

\* The counter of the request limit is the size of the session map.
THEOREM CountCorrect == Spec => []CountIsMapSize
<1>1. IInv => CountIsMapSize
  BY DEF IInv
<1> QED
  BY <1>1, Invariant, PTL

\* Easy handles and transfers live exactly as long as their sessions are in
\* the map.
THEOREM HandlesCorrect == Spec => []HandlesOwned
<1>1. IInv => HandlesOwned
  BY DEF IInv, SessionInv, HandlesOwned
<1> QED
  BY <1>1, Invariant, PTL

\* While an outcome is notified its session can be found and, if completed,
\* still has its handle.
THEOREM OutcomeCorrect == Spec => []OutcomeReadable
<1>1. TypeOK /\ IInv => OutcomeReadable
  <2> SUFFICES ASSUME TypeOK, IInv, pc = "release"
               PROVE  /\ todo # {}
                      /\ scanned \in Requests
                      /\ heard[scanned] = "Complated" => session[scanned].mCURL
    BY DEF OutcomeReadable
  <2>1. todo # {}
    BY DEF IInv, ScanInv
  <2>2. scanned \in Requests
    BY <2>1, ScannedInMap DEF IInv, TypeOK
  <2>3. heard[scanned] = "Complated" => session[scanned].mCURL
    BY <2>2 DEF IInv, SessionInv, Leaving
  <2> QED
    BY <2>1, <2>2, <2>3
<1> QED
  BY <1>1, TypeCorrect, Invariant, PTL

\* The worker exits with everything released.
THEOREM ExitCorrect == Spec => []ExitedClean
<1>1. IInv => ExitedClean
  <2> SUFFICES ASSUME IInv, pc = "exited"
               PROVE  /\ usedKeys(mSessionInfoPtrMap) = {}
                      /\ mSessionCount = 0
                      /\ \A s \in Requests : /\ ~session[s].mCURL
                                             /\ heard[s] \in {"None", "Released"}
    BY DEF ExitedClean
  <2>1. usedKeys(mSessionInfoPtrMap) = {}
    BY DEF IInv, WorkerInv
  <2>2. mSessionCount = 0
    BY <2>1, FS_EmptySet DEF IInv, CountIsMapSize
  <2>3. \A s \in Requests : ~InMap(s)
    BY <2>1, HEDriverAssumption DEF InMap, usedKeys
  <2> QED
    BY <2>1, <2>2, <2>3 DEF IInv, SessionInv
<1> QED
  BY <1>1, Invariant, PTL

\* No delegate is called after unInitialize has returned.
THEOREM SilenceCorrect == Spec => SilentAfterUnInitialize
<1>1. TypeOK /\ IInv /\ [Next]_vars => [mShutdown /\ ~joinable => heard' = heard]_vars
  <2> SUFFICES ASSUME TypeOK, IInv, [Next]_vars, mShutdown, ~joinable
               PROVE  heard' = heard
    OBVIOUS
  <2>1. pc = "exited"
    BY DEF IInv, WorkerInv
  <2>2. ~worker
    BY <2>1 DEF worker, thread, threadBegin, threadLoop, threadPerformCommand,
                threadPerform, threadScanQueue, scanPass, scanStart,
                scanStartFails, scanWaitComplete, scanOutcome, scanRelease,
                scanEnd, atSession, threadMultiURLRoop,
                threadNotificationProgress, threadDispatchSession,
                threadQueueCleanup
  <2>3. \A c \in Clients : client(c) => heard' = heard
    BY DEF client, startAdd, addSession, startStart, beyondLimit,
           startUrlRequest, stopRequest, stopSession, setRequestOption,
           useDriver, removeSession, clearSession, post, driverVars
  <2>4. initialize \/ unInitialize \/ join \/ UNCHANGED vars => heard' = heard
    BY DEF initialize, unInitialize, join, vars, driverVars
  <2> QED
    BY <2>2, <2>3, <2>4 DEF Next
<1> QED
  BY <1>1, TypeCorrect, Invariant, PTL DEF Spec, SilentAfterUnInitialize

(***************************************************************************)
(* A stop that arrived is final.                                           *)
(***************************************************************************)

\* What every step does to a session that is in the map and was stopped.
StopKept(s) ==
  /\ StopArrived(s)' \/ heard'[s] = "Released"
  /\ heard'[s] = heard[s] \/ heard'[s] \in {"Stoped", "Released"}

\* A step that leaves the session and what was heard of it alone.
LEMMA StopUntouched ==
  ASSUME NEW s \in Requests, StopArrived(s),
         session'[s].status = session[s].status,
         heard'[s] = heard[s],
         InMap(s) => InMap(s)',
         \A c \in Clients : current'[c] = s => current[c] = s
  PROVE  StopKept(s)
BY DEF StopKept, StopArrived

\* Letting go of sessions releases it or leaves it alone.
LEMMA StopReleased ==
  ASSUME TypeOK, IInv, NEW s \in Requests, StopArrived(s), NEW K \in SUBSET Keys,
         releaseSessions(K), UNCHANGED <<key, current>>
  PROVE  StopKept(s)
<1>1. CASE s \in sessionsUnder(K)
  BY <1>1 DEF releaseSessions, StopKept
<1>2. CASE s \notin sessionsUnder(K)
  <2>1. InMap(s)'
    BY <1>2, ReleaseMap DEF IInv, StopArrived
  <2>2. session'[s] = session[s] /\ heard'[s] = heard[s]
    BY <1>2 DEF releaseSessions
  <2> QED
    BY <2>1, <2>2, StopUntouched
<1> QED
  BY <1>1, <1>2

\* The scan tells about a stopped session or passes others.
LEMMA StopScanned ==
  ASSUME TypeOK, IInv, UNCHANGED clientVars, NEW s \in Requests, StopArrived(s),
         scanPass \/ scanStart \/ scanStartFails \/ scanWaitComplete \/ scanOutcome
  PROVE  StopKept(s)
<1>1. /\ InMap(s)
      /\ session[s].status = "ABORT"
      /\ session \in [Requests -> Session]
      /\ heard \in [Requests -> Notification]
  BY DEF StopArrived, TypeOK, DriverTypeOK
<1>2. UNCHANGED <<mSessionInfoPtrMap, current>>
  BY DEF scanPass, scanStart, scanStartFails, scanWaitComplete, scanOutcome,
         atSession, clientVars
<1>3. InMap(s)'
  BY <1>1, <1>2 DEF InMap
<1>4. CASE scanned = s
  <2>1. ~scanStart /\ ~scanStartFails /\ ~scanWaitComplete
    BY <1>1, <1>4 DEF scanStart, scanStartFails, scanWaitComplete, atSession
  <2>2. session' = session
    BY <2>1 DEF scanPass, scanOutcome
  <2>3. heard'[s] = heard[s] \/ heard'[s] = "Stoped"
    BY <1>1, <1>4, <2>1 DEF scanPass, scanOutcome, outcomeOf
  <2> QED
    BY <1>2, <1>3, <2>2, <2>3 DEF StopKept, StopArrived
<1>5. CASE scanned # s
  <2>1. session'[s] = session[s] /\ heard'[s] = heard[s]
    BY <1>1, <1>5 DEF scanPass, scanStart, scanStartFails, scanWaitComplete,
                      scanOutcome
  <2> QED
    BY <1>2, <1>3, <2>1, StopUntouched
<1> QED
  BY <1>4, <1>5

\* No command brings a stopped session back.
LEMMA StopCommanded ==
  ASSUME TypeOK, IInv, UNCHANGED clientVars, NEW s \in Requests, StopArrived(s),
         threadPerformCommand
  PROVE  StopKept(s)
<1>1. UNCHANGED <<key, current>>
  BY DEF threadPerformCommand, clientVars
<1>2. CASE mCmdFifo = <<>>
  <2>1. UNCHANGED <<session, heard, mSessionInfoPtrMap>>
    BY <1>2 DEF threadPerformCommand
  <2> QED
    BY <1>1, <2>1, StopUntouched DEF InMap
<1>3. CASE mCmdFifo # <<>>
  <2> DEFINE cmd == Head(mCmdFifo)
  <2>1. cmd \in Command /\ execute(cmd)
    BY <1>3 DEF threadPerformCommand, TypeOK, DriverTypeOK
  <2>2. CASE cmd.op = "Add" /\ executeAdd(cmd.req)
    <3>1. cmd.req \in Requests
      BY <2>1, <2>2 DEF Command
    <3>2. Queued(cmd.req)
      BY <1>3, <2>2, <3>1, QueueShrinks
         DEF threadPerformCommand, IInv, TypeOK, DriverTypeOK
    <3>3. key[cmd.req] # 0
      BY <3>1, <3>2 DEF IInv, QueuedInv
    <3> HIDE DEF cmd
    <3>4. InMap(s) => InMap(s)'
      BY <1>1, <2>2, <3>1, <3>3, AddMap DEF IInv
    <3> QED
      BY <1>1, <2>2, <3>4, StopUntouched DEF executeAdd
  <2>3. CASE cmd.op = "Stop" /\ executeStop(cmd.key)
    <3>1. \A x \in Session : stop(x).status = "ABORT"
      BY DEF stop, Session
    <3>2. session'[s].status = "ABORT"
      BY <2>3, <3>1 DEF executeStop, StopArrived, TypeOK, DriverTypeOK
    <3>3. UNCHANGED <<heard, mSessionInfoPtrMap>>
      BY <2>3 DEF executeStop
    <3> QED
      BY <1>1, <3>2, <3>3, StopUntouched DEF StopArrived, InMap
  <2>4. CASE cmd.op = "Remove" /\ executeRemove(cmd.key)
    <3>1. cmd.key \in Keys
      BY <2>1, <2>4 DEF Command
    <3> QED
      BY <1>1, <2>4, <3>1, StopReleased DEF executeRemove
  <2>5. CASE cmd.op = "Clear" /\ executeClear
    BY <1>1, <2>5, StopReleased DEF executeClear, usedKeys
  <2> QED
    BY <2>1, <2>2, <2>3, <2>4, <2>5 DEF execute
<1> QED
  BY <1>2, <1>3

\* No step of the worker does.
LEMMA StopWorker ==
  ASSUME TypeOK, IInv, worker, NEW s \in Requests, StopArrived(s)
  PROVE  StopKept(s)
<1> USE DEF worker
<1>1. CASE threadPerformCommand
  BY <1>1, StopCommanded
<1>2. CASE scanPass \/ scanStart \/ scanStartFails \/ scanWaitComplete \/ scanOutcome
  BY <1>2, StopScanned
<1>3. CASE scanRelease
  <2>1. {cursor} \in SUBSET Keys
    BY <1>3, ScannedInMap DEF scanRelease, IInv, ScanInv, TypeOK
  <2> QED
    BY <1>3, <2>1, StopReleased DEF scanRelease, clientVars
<1>4. CASE threadQueueCleanup
  BY <1>4, StopReleased DEF threadQueueCleanup, keysLeft, usedKeys, clientVars
<1>5. CASE threadDispatchSession
  <2>1. session'[s] = session[s]
    BY <1>5 DEF threadDispatchSession, dispatched, StopArrived
  <2>2. UNCHANGED <<heard, mSessionInfoPtrMap, current>>
    BY <1>5 DEF threadDispatchSession, clientVars
  <2> QED
    BY <2>1, <2>2, StopUntouched DEF InMap
<1>6. CASE \/ threadBegin \/ threadLoop \/ threadPerform \/ scanEnd
           \/ threadMultiURLRoop \/ threadNotificationProgress
  <2>1. UNCHANGED <<session, heard, mSessionInfoPtrMap, current>>
    BY <1>6 DEF threadBegin, threadLoop, threadPerform, scanEnd,
                threadMultiURLRoop, threadNotificationProgress, clientVars
  <2> QED
    BY <2>1, StopUntouched DEF InMap
<1> QED
  BY <1>1, <1>2, <1>3, <1>4, <1>5, <1>6 DEF thread, threadScanQueue

\* No step of a client does: all are out of its startUrlRequest.
LEMMA StopClient ==
  ASSUME TypeOK, IInv, NEW c \in Clients, client(c), NEW s \in Requests,
         StopArrived(s)
  PROVE  StopKept(s)
<1>1. /\ InMap(s)
      /\ session[s].status = "ABORT"
      /\ \A d \in Clients : current[d] # s
  BY DEF StopArrived
<1>2. CASE startAdd(c) \/ beyondLimit(c)
  BY <1>2, StopUntouched DEF startAdd, addSession, post, beyondLimit,
                             driverVars, InMap
<1>3. CASE startStart(c)
  <2>1. /\ session'[s] = session[s]
        /\ UNCHANGED <<heard, mSessionInfoPtrMap>>
        /\ \A d \in Clients : current'[d] # s
    BY <1>1, <1>3, HEDriverAssumption DEF startStart, TypeOK, DriverTypeOK
  <2> QED
    BY <2>1, StopUntouched DEF InMap
<1>4. ASSUME NEW k \in Keys, startUrlRequest(c, k)
      PROVE  StopKept(s)
  <2>1. PICK a \in Requests : key[a] = 0 /\ current' = [current EXCEPT ![c] = a]
    BY <1>4 DEF startUrlRequest
  <2>2. a # s
    BY <1>1, <2>1 DEF IInv, UnbornInv, Fresh
  <2>3. UNCHANGED <<session, heard, mSessionInfoPtrMap>>
    BY <1>4 DEF startUrlRequest
  <2>4. \A d \in Clients : current'[d] # s
    BY <1>1, <2>1, <2>2 DEF TypeOK
  <2> QED
    BY <2>3, <2>4, StopUntouched DEF InMap
<1>5. ASSUME NEW k \in Keys, stopRequest(c, k) \/ useDriver(c, k)
      PROVE  StopKept(s)
  BY <1>5, StopUntouched DEF stopRequest, stopSession, useDriver, removeSession,
                             clearSession, post, InMap
<1>6. ASSUME NEW k \in Keys, setRequestOption(c, k)
      PROVE  StopKept(s)
  <2>1. \A x \in Session : setProgressNotifyFrequency(x).status = x.status
    BY DEF setProgressNotifyFrequency, Session
  <2>2. session'[s].status = session[s].status
    BY <1>6, <2>1 DEF setRequestOption, TypeOK, DriverTypeOK
  <2>3. UNCHANGED <<heard, mSessionInfoPtrMap, current>>
    BY <1>6 DEF setRequestOption
  <2> QED
    BY <2>2, <2>3, StopUntouched DEF InMap
<1> QED
  BY <1>2, <1>3, <1>4, <1>5, <1>6 DEF client

\* A request that was stopped after its startUrlRequest was over is not
\* started, completed or failed any more.
THEOREM StopFinal == Spec => StopIsFinal
<1>1. TypeOK /\ IInv /\ [Next]_vars =>
        [\A s \in Requests : StopArrived(s) => StopKept(s)]_vars
  <2> SUFFICES ASSUME TypeOK, IInv, Next, NEW s \in Requests, StopArrived(s)
               PROVE  StopKept(s)
    OBVIOUS
  <2>1. CASE worker
    BY <2>1, StopWorker
  <2>2. CASE \E c \in Clients : client(c)
    BY <2>2, StopClient
  <2>3. CASE initialize \/ unInitialize \/ join
    <3>1. UNCHANGED <<session, heard, mSessionInfoPtrMap, current>>
      BY <2>3 DEF initialize, unInitialize, join, driverVars
    <3> QED
      BY <3>1, StopUntouched DEF InMap
  <2> QED
    BY <2>1, <2>2, <2>3 DEF Next
<1> QED
  BY <1>1, TypeCorrect, Invariant, PTL DEF Spec, StopIsFinal, StopKept

(***************************************************************************)
(* The engine implements the lifecycle of requests.                        *)
(***************************************************************************)

\* The requests that are active for the lifecycle
admitted == {s \in Requests : InMap(s)}

\* Letting go of sessions is a Release.
LEMMA ReleaseRefines ==
  ASSUME TypeOK, IInv, NEW K \in SUBSET Keys, releaseSessions(K), UNCHANGED key
  PROVE  Lifecycle!Next
<1> DEFINE gone == sessionsUnder(K)
<1>1. gone \subseteq admitted
  BY DEF sessionsUnder, admitted, InMap
<1>2. admitted' = admitted \ gone
  BY ReleaseMap DEF IInv, admitted
<1>3. heard' = [s \in Requests |-> IF s \in gone THEN "Released" ELSE heard[s]]
  BY DEF releaseSessions
<1>4. gone \in SUBSET Requests
  BY DEF sessionsUnder
<1>5. Lifecycle!Release(gone)
  BY <1>1, <1>2, <1>3 DEF Lifecycle!Release, admitted
<1> QED
  BY <1>4, <1>5 DEF Lifecycle!Next

\* The scan's notifications are the ones the lifecycle allows.
LEMMA NotifyRefines ==
  ASSUME TypeOK, IInv, scanStart \/ scanOutcome
  PROVE  Lifecycle!Next
<1>1. /\ scanned \in Requests
      /\ InMap(scanned)
      /\ ~Leaving(scanned)
  BY ScannedInMap DEF scanStart, scanOutcome, atSession, IInv, TypeOK, Leaving
<1>2. /\ heard[scanned] \in {"None", "Started"}
      /\ heard[scanned] = "Started" => session[scanned].mCURL
      /\ session[scanned].status = "COMPLETE" => heard[scanned] = "Started"
  BY <1>1 DEF IInv, SessionInv
<1>3. UNCHANGED <<key, mSessionInfoPtrMap>>
  BY DEF scanStart, scanOutcome, atSession
<1>4. admitted' = admitted /\ scanned \in admitted
  BY <1>1, <1>3 DEF admitted, InMap
<1>5. CASE scanStart
  <2>1. heard' = [heard EXCEPT ![scanned] = "Started"] /\ heard[scanned] = "None"
    BY <1>2, <1>5 DEF scanStart
  <2>2. Lifecycle!Notify(scanned, "Started")
    BY <1>3, <1>4, <2>1 DEF Lifecycle!Notify, Lifecycle!Follows, admitted
  <2> QED
    BY <1>1, <2>2 DEF Lifecycle!Next
<1>6. CASE scanOutcome
  <2> DEFINE n == outcomeOf(session[scanned].status)
  <2>1. heard' = [heard EXCEPT ![scanned] = n]
    BY <1>6 DEF scanOutcome
  <2>2. /\ n \in {"Stoped", "Complated", "Errored"}
        /\ n = "Complated" => session[scanned].status = "COMPLETE"
    BY <1>6 DEF scanOutcome, atSession, outcomeOf
  <2> HIDE DEF n
  <2>3. <<heard[scanned], n>> \in Lifecycle!Follows
    BY <1>2, <2>2 DEF Lifecycle!Follows
  <2>4. Lifecycle!Notify(scanned, n)
    BY <1>3, <1>4, <2>1, <2>3 DEF Lifecycle!Notify, admitted
  <2> QED
    BY <1>1, <2>2, <2>4 DEF Lifecycle!Next
<1> QED
  BY <1>5, <1>6

\* An Add admits its session, or does nothing when the key is taken.
LEMMA AddRefines ==
  ASSUME TypeOK, IInv, NEW a \in Requests, Queued(a), executeAdd(a), UNCHANGED key
  PROVE  Lifecycle!Next \/ UNCHANGED Lifecycle!vars
<1>1. /\ key[a] # 0
      /\ key[a] \in Keys
      /\ heard[a] = "None"
  BY DEF IInv, QueuedInv, TypeOK, DriverTypeOK
<1>2. UNCHANGED heard
  BY DEF executeAdd
<1>3. CASE mSessionInfoPtrMap[key[a]] = NoRequest
  <2>1. admitted' = admitted \cup {a}
    BY <1>1, <1>3, AddMap DEF admitted, IInv
  <2>2. \A t \in admitted : key[t] # key[a]
    BY <1>1, <1>3, HEDriverAssumption DEF admitted, InMap, IInv, MapInv
  <2>3. Lifecycle!Admit(a)
    BY <1>1, <1>2, <2>1, <2>2 DEF Lifecycle!Admit, admitted
  <2> QED
    BY <2>3 DEF Lifecycle!Next
<1>4. CASE mSessionInfoPtrMap[key[a]] # NoRequest
  <2>1. admitted' = admitted
    BY <1>1, <1>4, AddMap DEF admitted, IInv
  <2> QED
    BY <1>2, <2>1 DEF Lifecycle!vars, admitted
<1> QED
  BY <1>3, <1>4

\* Executing a command is a step of the lifecycle or changes nothing of it.
LEMMA CommandRefines ==
  ASSUME TypeOK, IInv, threadPerformCommand
  PROVE  Lifecycle!Next \/ UNCHANGED Lifecycle!vars
<1>1. CASE mCmdFifo = <<>>
  BY <1>1 DEF threadPerformCommand, Lifecycle!vars, InMap
<1>2. CASE mCmdFifo # <<>>
  <2> DEFINE cmd == Head(mCmdFifo)
  <2>1. /\ cmd \in Command
        /\ execute(cmd)
        /\ UNCHANGED key
    BY <1>2 DEF threadPerformCommand, TypeOK, DriverTypeOK
  <2>2. CASE cmd.op = "Add" /\ executeAdd(cmd.req)
    <3>1. cmd.req \in Requests
      BY <2>1, <2>2 DEF Command
    <3>2. Queued(cmd.req)
      BY <1>2, <2>2, <3>1, QueueShrinks
         DEF threadPerformCommand, IInv, TypeOK, DriverTypeOK
    <3> QED
      BY <2>1, <2>2, <3>1, <3>2, AddRefines
  <2>3. CASE cmd.op = "Stop" /\ executeStop(cmd.key)
    BY <2>1, <2>3 DEF executeStop, Lifecycle!vars, InMap
  <2>4. CASE cmd.op = "Remove" /\ executeRemove(cmd.key)
    <3>1. cmd.key \in Keys
      BY <2>1, <2>4 DEF Command
    <3> QED
      BY <2>1, <2>4, <3>1, ReleaseRefines DEF executeRemove
  <2>5. CASE cmd.op = "Clear" /\ executeClear
    BY <2>1, <2>5, ReleaseRefines DEF executeClear, usedKeys
  <2> QED
    BY <2>1, <2>2, <2>3, <2>4, <2>5 DEF execute
<1> QED
  BY <1>1, <1>2

\* So is every step of the worker.
LEMMA WorkerRefines ==
  ASSUME TypeOK, IInv, worker
  PROVE  Lifecycle!Next \/ UNCHANGED Lifecycle!vars
<1>1. CASE threadPerformCommand
  BY <1>1, CommandRefines
<1>2. CASE scanStart \/ scanOutcome
  BY <1>2, NotifyRefines
<1>3. CASE scanRelease
  <2>1. {cursor} \in SUBSET Keys
    BY <1>3, ScannedInMap DEF scanRelease, IInv, ScanInv, TypeOK
  <2> QED
    BY <1>3, <2>1, ReleaseRefines DEF scanRelease
<1>4. CASE threadQueueCleanup
  BY <1>4, ReleaseRefines DEF threadQueueCleanup, keysLeft, usedKeys
<1>5. CASE \/ threadBegin \/ threadLoop \/ threadPerform \/ scanPass
           \/ scanStartFails \/ scanWaitComplete \/ scanEnd
           \/ threadMultiURLRoop \/ threadNotificationProgress
           \/ threadDispatchSession
  <2>1. UNCHANGED <<key, heard, mSessionInfoPtrMap>>
    BY <1>5 DEF threadBegin, threadLoop, threadPerform, scanPass,
                scanStartFails, scanWaitComplete, scanEnd, atSession,
                threadMultiURLRoop, threadNotificationProgress,
                threadDispatchSession
  <2> QED
    BY <2>1 DEF Lifecycle!vars, InMap
<1> QED
  BY <1>1, <1>2, <1>3, <1>4, <1>5 DEF worker, thread, threadScanQueue

\* Of the steps of clients only startUrlRequest is one, a Submit.
LEMMA ClientRefines ==
  ASSUME TypeOK, IInv, NEW c \in Clients, client(c)
  PROVE  Lifecycle!Next \/ UNCHANGED Lifecycle!vars
<1>1. ASSUME NEW k \in Keys, startUrlRequest(c, k)
      PROVE  Lifecycle!Next
  <2>1. PICK a \in Requests : key[a] = 0 /\ key' = [key EXCEPT ![a] = k]
    BY <1>1 DEF startUrlRequest
  <2>2. UNCHANGED <<heard, mSessionInfoPtrMap>>
    BY <1>1 DEF startUrlRequest
  <2>3. Lifecycle!Submit(a, k)
    BY <2>1, <2>2 DEF Lifecycle!Submit, InMap
  <2> QED
    BY <2>3 DEF Lifecycle!Next
<1>2. CASE startAdd(c) \/ startStart(c) \/ beyondLimit(c)
  <2>1. UNCHANGED <<key, heard, mSessionInfoPtrMap>>
    BY <1>2 DEF startAdd, startStart, beyondLimit, addSession, post, driverVars
  <2> QED
    BY <2>1 DEF Lifecycle!vars, InMap
<1>3. ASSUME NEW k \in Keys,
             stopRequest(c, k) \/ setRequestOption(c, k) \/ useDriver(c, k)
      PROVE  UNCHANGED Lifecycle!vars
  <2>1. UNCHANGED <<key, heard, mSessionInfoPtrMap>>
    BY <1>3 DEF stopRequest, setRequestOption, useDriver, stopSession,
                removeSession, clearSession, post
  <2> QED
    BY <2>1 DEF Lifecycle!vars, InMap
<1> QED
  BY <1>1, <1>2, <1>3 DEF client

\* What the engine does to a request under any interleaving of worker and
\* clients is a behaviour of the lifecycle: one request per key is active,
\* the notifications come in order and the release is the last of them.
THEOREM LifecycleImplemented == Spec => LifecycleSpec
<1>1. Init => Lifecycle!Init
  BY HEDriverAssumption DEF Init, DriverInit, Lifecycle!Init, InMap
<1>2. TypeOK /\ IInv /\ [Next]_vars => [Lifecycle!Next]_(Lifecycle!vars)
  <2> SUFFICES ASSUME TypeOK, IInv, [Next]_vars
               PROVE  Lifecycle!Next \/ UNCHANGED Lifecycle!vars
    OBVIOUS
  <2>1. CASE worker
    BY <2>1, WorkerRefines
  <2>2. CASE \E c \in Clients : client(c)
    BY <2>2, ClientRefines
  <2>3. CASE initialize \/ unInitialize \/ join \/ UNCHANGED vars
    <3>1. UNCHANGED <<key, heard, mSessionInfoPtrMap>>
      BY <2>3 DEF initialize, unInitialize, join, vars, driverVars
    <3> QED
      BY <3>1 DEF Lifecycle!vars, InMap
  <2> QED
    BY <2>1, <2>2, <2>3 DEF Next
<1> QED
  BY <1>1, <1>2, TypeCorrect, Invariant, PTL DEF Spec, LifecycleSpec, Lifecycle!Spec
=============================================================================
