---------------------------- MODULE HEEngineInv ----------------------------
(***************************************************************************)
(* The inductive invariant of HEEngineImpl: why the properties of the      *)
(* engine hold.  TLC checks it on small instances, HEEngine_proofs proves  *)
(* it for every instance.                                                  *)
(***************************************************************************)
EXTENDS HEEngineImpl

\* The session whose outcome was just notified and that is about to go
Leaving(s) == pc = "release" /\ s = scanned

\* No thread but the one inside startUrlRequest has seen this session yet
Fresh(s) == /\ session[s].status = "CLOSED"
            /\ ~session[s].mCURL
            /\ heard[s] = "None"
            /\ ~InMap(s)
            /\ ~Queued(s)

\* A session is in the map under its own key only
MapInv == \A k \in Keys : mSessionInfoPtrMap[k] # NoRequest =>
                            key[mSessionInfoPtrMap[k]] = k

\* The iteration never runs past an entry that is gone
ScanInv == /\ pc \in {"scan", "release"} => todo \subseteq usedKeys(mSessionInfoPtrMap)
           /\ pc = "release" => todo # {}

\* A session is posted once ...
OnceInv == \A i, j \in DOMAIN mCmdFifo :
             mCmdFifo[i].op = "Add" /\ mCmdFifo[i] = mCmdFifo[j] => i = j

\* ... by a caller that has let go of it, and was not in the map before
QueuedInv == \A s \in Requests : Queued(s) =>
               /\ key[s] # 0
               /\ heard[s] = "None"
               /\ ~InMap(s)
               /\ \A c \in Clients : at[c] = "add" => current[c] # s

\* Each client inside startUrlRequest works on a session of its own
ClientInv ==
  \A c \in Clients, s \in Requests : current[c] = s =>
    /\ key[s] # 0
    /\ \A d \in Clients \ {c} : current[d] # s
    /\ at[c] = "add" => Fresh(s)
    /\ at[c] = "start" => /\ session[s].status \in {"CLOSED", "ABORT"}
                          /\ ~session[s].mCURL

UnbornInv == \A s \in Requests : key[s] = 0 =>
               /\ Fresh(s)
               /\ \A c \in Clients : current[c] # s

\* How far a request has come fits its status, its handle and what the
\* application was told
SessionInv ==
  \A s \in Requests :
    /\ multi[s] # "out" => session[s].mCURL
    /\ ~InMap(s) =>
         /\ ~session[s].mCURL
         /\ heard[s] \in {"None", "Released"}
         /\ heard[s] = "None" => session[s].status \in {"CLOSED", "START"}
    /\ Leaving(s) =>
         /\ heard[s] \in Outcome
         /\ heard[s] = "Complated" => session[s].mCURL
    /\ InMap(s) /\ ~Leaving(s) =>
         /\ heard[s] \in {"None", "Started"}
         /\ heard[s] = "Started" => session[s].mCURL
         /\ session[s].status = "CLOSED" => ~session[s].mCURL
         /\ session[s].status \in {"WAITCOMPLATE", "COMPLETE"} => session[s].mCURL
         /\ session[s].mCURL /\ session[s].status \in {"START", "WAITCOMPLATE", "COMPLETE"}
              => heard[s] = "Started"

\* The worker exists from initialize to the join, and holds nothing before
\* its loop and after its cleanup
WorkerInv ==
  /\ pc \in {"off", "init", "exited"} => usedKeys(mSessionInfoPtrMap) = {}
  /\ pc = "off" <=> ~mHttpDriver
  /\ ~mHttpDriver => ~mShutdown /\ ~joinable /\ at[Main] # "join"
  /\ mHttpDriver /\ ~joinable => pc = "exited"

\* The engine's state is consistent: the conjunction of the above is
\* preserved by every step of the worker and of the clients, and it implies
\* the safety properties of HEEngineImpl.
IInv == /\ MapInv
        /\ ScanInv
        /\ OnceInv
        /\ QueuedInv
        /\ ClientInv
        /\ UnbornInv
        /\ SessionInv
        /\ WorkerInv
        /\ CountIsMapSize
=============================================================================
