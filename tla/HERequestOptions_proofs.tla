----------------------- MODULE HERequestOptions_proofs -----------------------
(***************************************************************************)
(* The properties of HERequestOptions, for any number of options.          *)
(*                                                                         *)
(* TransferKeepsLists is not inductive: that the lists are alive while the *)
(* multi handle has the easy handle follows from the place the session is  *)
(* at with the worker, before the clean-up or after it.                    *)
(***************************************************************************)
EXTENDS HERequestOptions, TLAPS

Early == {"new", "queued", "waiting"}
Over == {"release", "gone"}

\* The handles and the lists by the place of the session
HandlesInv ==
  /\ at \in Early \cup Over => ~mCURL
  /\ at \in {"started", "running", "data"} => mCURL
  /\ multi => mCURL
  /\ at = "failed" => ~multi

ListsInv ==
  /\ at \notin Over => mChunk # "freed" /\ mFormstart # "freed"
  /\ ~freedTwice

\* A client thread sets options only when the application has one
ClientInv == client # "none" \/ appended => "client" \in callers

NoClient == "client" \notin callers

\* Without a handle there are no lists, unless a client or the callback of the
\* outcome made one
BareInv ==
  NoClient /\ ~mCURL /\ at \in Early \cup {"failed"} =>
    mChunk = "NULL" /\ mFormstart = "NULL"

\* After the clean-up nothing is alive, or was not freed but never made
LeftInv ==
  NoClient /\ "release" \notin callers /\ at \in Over =>
    mChunk # "alive" /\ mFormstart # "alive"

\* With options set in the callback of the start alone: none before it, and
\* what was set then is with the handle, the form once it was given
StartInv ==
  callers \subseteq {"started"} =>
    /\ at \in Early => asked = {}
    /\ at \in {"started", "running", "data"} /\ "header" \in asked => "header" \in setopt
    /\ at = "started" /\ "form" \in asked => mFormstart = "alive"
    /\ at \in {"running", "data"} /\ "form" \in asked /\ mHttpMethod => "form" \in setopt

IInv ==
  HandlesInv /\ ListsInv /\ ClientInv /\ BareInv /\ LeftInv /\ StartInv /\ OptionsInTime

--------------------------------------------------------------------------------
(***************************************************************************)
(* The steps one by one.                                                   *)
(***************************************************************************)
LEMMA TypeStep ==
  ASSUME TypeOK, HandlesInv, [Next]_vars
  PROVE  TypeOK'
<1> USE OptionsAssumption DEF TypeOK, CallSite, Option, Pointer, vars, sessionVars,
                              requestVars, clientVars
<1>1. CASE startUrlRequest
  BY <1>1 DEF startUrlRequest
<1>2. CASE executeAdd
  BY <1>2 DEF executeAdd
<1>3. CASE scanStart
  BY <1>3 DEF scanStart, initSessionInfo, added
<1>4. CASE scanStartFails
  BY <1>4 DEF scanStartFails, initSessionInfo, added
<1>5. CASE startedReturns
  BY <1>5 DEF startedReturns, givesForm, HandlesInv
<1>6. CASE curl_multi_perform
  BY <1>6 DEF curl_multi_perform
<1>7. CASE dataReturns
  BY <1>7 DEF dataReturns
<1>8. CASE scanOutcome
  BY <1>8 DEF scanOutcome
<1>9. CASE scanRelease
  BY <1>9 DEF scanRelease, uninitSessionInfo, freed, curl_multi_remove_handle
<1>10. CASE releaseAnyway
  BY <1>10 DEF releaseAnyway, uninitSessionInfo, freed, curl_multi_remove_handle
<1>11. CASE releaseReturns
  BY <1>11 DEF releaseReturns
<1>12. ASSUME NEW option \in Option, setRequestOption(option)
      PROVE  TypeOK'
  <2>1. CASE appendCustomHeader
    BY <1>12, <2>1 DEF setRequestOption, appendCustomHeader, added, told, counts
  <2>2. CASE appendPostForm
    <3>1. mFormstart' \in Pointer /\ asked' \subseteq Option
      BY <2>2 DEF appendPostForm, added
    <3> QED
      BY <1>12, <2>2, <3>1 DEF setRequestOption, appendPostForm, counts
  <2> QED
    BY <1>12, <2>1, <2>2 DEF setRequestOption
<1>13. ASSUME NEW option \in Option, clientFinds(option)
      PROVE  TypeOK'
  BY <1>13 DEF clientFinds, counts
<1>14. CASE clientAppends
  BY <1>14 DEF clientAppends, appendPostForm, added
<1>15. CASE clientSetsOption
  BY <1>15 DEF clientSetsOption, told
<1>16. CASE UNCHANGED vars
  BY <1>16
<1> QED
  BY <1>1, <1>2, <1>3, <1>4, <1>5, <1>6, <1>7, <1>8, <1>9, <1>10, <1>11, <1>12, <1>13, <1>14, <1>15, <1>16 DEF Next, worker

\* The worker alone makes and releases the handles.
LEMMA HandlesStep ==
  ASSUME TypeOK, HandlesInv, [Next]_vars
  PROVE  HandlesInv'
<1> USE DEF HandlesInv, Early, Over, TypeOK, CallSite, Option, Pointer, vars,
            sessionVars, requestVars, clientVars
<1>1. CASE startUrlRequest
  BY <1>1 DEF startUrlRequest
<1>2. CASE executeAdd
  BY <1>2 DEF executeAdd
<1>3. CASE scanStart
  BY <1>3 DEF scanStart, initSessionInfo, added
<1>4. CASE scanStartFails
  BY <1>4 DEF scanStartFails, initSessionInfo, added
<1>5. CASE startedReturns
  BY <1>5 DEF startedReturns, givesForm
<1>6. CASE curl_multi_perform
  BY <1>6 DEF curl_multi_perform
<1>7. CASE dataReturns
  BY <1>7 DEF dataReturns
<1>8. CASE scanOutcome
  BY <1>8 DEF scanOutcome
<1>9. CASE scanRelease
  BY <1>9 DEF scanRelease, uninitSessionInfo, freed, curl_multi_remove_handle
<1>10. CASE releaseAnyway
  BY <1>10 DEF releaseAnyway, uninitSessionInfo, freed, curl_multi_remove_handle
<1>11. CASE releaseReturns
  BY <1>11 DEF releaseReturns
<1>12. ASSUME NEW option \in Option, setRequestOption(option)
      PROVE  HandlesInv'
  <2>1. CASE option = "header" /\ appendCustomHeader
    BY <1>12, <2>1 DEF setRequestOption, appendCustomHeader, added, told, counts
  <2>2. CASE option = "form" /\ appendPostForm
    BY <1>12, <2>2 DEF setRequestOption, appendPostForm, added, counts
  <2> QED
    BY <1>12, <2>1, <2>2 DEF setRequestOption
<1>13. ASSUME NEW option \in Option, clientFinds(option)
      PROVE  HandlesInv'
  BY <1>13 DEF clientFinds, counts
<1>14. CASE clientAppends
  BY <1>14 DEF clientAppends, appendPostForm, added
<1>15. CASE clientSetsOption
  BY <1>15 DEF clientSetsOption, told
<1>16. CASE UNCHANGED vars
  BY <1>16
<1> QED
    BY <1>1, <1>2, <1>3, <1>4, <1>5, <1>6, <1>7, <1>8, <1>9, <1>10, <1>11,
     <1>12, <1>13, <1>14, <1>15, <1>16 DEF Next, worker

\* No list is freed before the clean-up, and the clean-up comes once.
LEMMA ListsStep ==
  ASSUME TypeOK, ListsInv, [Next]_vars
  PROVE  ListsInv'
<1> USE DEF ListsInv, Over, TypeOK, CallSite, Option, Pointer, vars, sessionVars,
            requestVars, clientVars
<1>1. CASE startUrlRequest
  BY <1>1 DEF startUrlRequest
<1>2. CASE executeAdd
  BY <1>2 DEF executeAdd
<1>3. CASE scanStart
  BY <1>3 DEF scanStart, initSessionInfo, added
<1>4. CASE scanStartFails
  BY <1>4 DEF scanStartFails, initSessionInfo, added
<1>5. CASE startedReturns
  BY <1>5 DEF startedReturns, givesForm
<1>6. CASE curl_multi_perform
  BY <1>6 DEF curl_multi_perform
<1>7. CASE dataReturns
  BY <1>7 DEF dataReturns
<1>8. CASE scanOutcome
  BY <1>8 DEF scanOutcome
<1>9. CASE scanRelease
  BY <1>9 DEF scanRelease, uninitSessionInfo, freed, curl_multi_remove_handle
<1>10. CASE releaseAnyway
  BY <1>10 DEF releaseAnyway, uninitSessionInfo, freed, curl_multi_remove_handle
<1>11. CASE releaseReturns
  BY <1>11 DEF releaseReturns
<1>12. ASSUME NEW option \in Option, setRequestOption(option)
      PROVE  ListsInv'
  <2>1. CASE option = "header" /\ appendCustomHeader
    BY <1>12, <2>1 DEF setRequestOption, appendCustomHeader, added, told, counts
  <2>2. CASE option = "form" /\ appendPostForm
    BY <1>12, <2>2 DEF setRequestOption, appendPostForm, added, counts
  <2> QED
    BY <1>12, <2>1, <2>2 DEF setRequestOption
<1>13. ASSUME NEW option \in Option, clientFinds(option)
      PROVE  ListsInv'
  BY <1>13 DEF clientFinds, counts
<1>14. CASE clientAppends
  BY <1>14 DEF clientAppends, appendPostForm, added
<1>15. CASE clientSetsOption
  BY <1>15 DEF clientSetsOption, told
<1>16. CASE UNCHANGED vars
  BY <1>16
<1> QED
    BY <1>1, <1>2, <1>3, <1>4, <1>5, <1>6, <1>7, <1>8, <1>9, <1>10, <1>11,
     <1>12, <1>13, <1>14, <1>15, <1>16 DEF Next, worker

\* Only a client thread that the application has sets options.
LEMMA ClientStep ==
  ASSUME TypeOK, ClientInv, [Next]_vars
  PROVE  ClientInv'
<1> USE DEF ClientInv, TypeOK, CallSite, Option, Pointer, vars, sessionVars,
            requestVars, clientVars
<1>1. CASE startUrlRequest
  BY <1>1 DEF startUrlRequest
<1>2. CASE executeAdd
  BY <1>2 DEF executeAdd
<1>3. CASE scanStart
  BY <1>3 DEF scanStart, initSessionInfo, added
<1>4. CASE scanStartFails
  BY <1>4 DEF scanStartFails, initSessionInfo, added
<1>5. CASE startedReturns
  BY <1>5 DEF startedReturns, givesForm
<1>6. CASE curl_multi_perform
  BY <1>6 DEF curl_multi_perform
<1>7. CASE dataReturns
  BY <1>7 DEF dataReturns
<1>8. CASE scanOutcome
  BY <1>8 DEF scanOutcome
<1>9. CASE scanRelease
  BY <1>9 DEF scanRelease, uninitSessionInfo, freed, curl_multi_remove_handle
<1>10. CASE releaseAnyway
  BY <1>10 DEF releaseAnyway, uninitSessionInfo, freed, curl_multi_remove_handle
<1>11. CASE releaseReturns
  BY <1>11 DEF releaseReturns
<1>12. ASSUME NEW option \in Option, setRequestOption(option)
      PROVE  ClientInv'
  <2>1. CASE option = "header" /\ appendCustomHeader
    BY <1>12, <2>1 DEF setRequestOption, appendCustomHeader, added, told, counts
  <2>2. CASE option = "form" /\ appendPostForm
    BY <1>12, <2>2 DEF setRequestOption, appendPostForm, added, counts
  <2> QED
    BY <1>12, <2>1, <2>2 DEF setRequestOption
<1>13. ASSUME NEW option \in Option, clientFinds(option)
      PROVE  ClientInv'
  BY <1>13 DEF clientFinds, counts
<1>14. CASE clientAppends
  BY <1>14 DEF clientAppends, appendPostForm, added
<1>15. CASE clientSetsOption
  BY <1>15 DEF clientSetsOption, told
<1>16. CASE UNCHANGED vars
  BY <1>16
<1> QED
    BY <1>1, <1>2, <1>3, <1>4, <1>5, <1>6, <1>7, <1>8, <1>9, <1>10, <1>11,
     <1>12, <1>13, <1>14, <1>15, <1>16 DEF Next, worker

\* Freed lists are touched by the callback of the release or by a client.
LEMMA InTimeStep ==
  ASSUME TypeOK, ListsInv, ClientInv, OptionsInTime, [Next]_vars
  PROVE  OptionsInTime'
<1> USE DEF ListsInv, ClientInv, OptionsInTime, Over, TypeOK, CallSite, Option, Pointer,
            vars, sessionVars, requestVars, clientVars
<1>1. CASE startUrlRequest
  BY <1>1 DEF startUrlRequest
<1>2. CASE executeAdd
  BY <1>2 DEF executeAdd
<1>3. CASE scanStart
  BY <1>3 DEF scanStart, initSessionInfo, added
<1>4. CASE scanStartFails
  BY <1>4 DEF scanStartFails, initSessionInfo, added
<1>5. CASE startedReturns
  BY <1>5 DEF startedReturns, givesForm
<1>6. CASE curl_multi_perform
  BY <1>6 DEF curl_multi_perform
<1>7. CASE dataReturns
  BY <1>7 DEF dataReturns
<1>8. CASE scanOutcome
  BY <1>8 DEF scanOutcome
<1>9. CASE scanRelease
  BY <1>9 DEF scanRelease, uninitSessionInfo, freed, curl_multi_remove_handle
<1>10. CASE releaseAnyway
  BY <1>10 DEF releaseAnyway, uninitSessionInfo, freed, curl_multi_remove_handle
<1>11. CASE releaseReturns
  BY <1>11 DEF releaseReturns
<1>12. ASSUME NEW option \in Option, setRequestOption(option)
      PROVE  OptionsInTime'
  <2>1. CASE option = "header" /\ appendCustomHeader
    BY <1>12, <2>1 DEF setRequestOption, appendCustomHeader, added, told, counts
  <2>2. CASE option = "form" /\ appendPostForm
    BY <1>12, <2>2 DEF setRequestOption, appendPostForm, added, counts
  <2> QED
    BY <1>12, <2>1, <2>2 DEF setRequestOption
<1>13. ASSUME NEW option \in Option, clientFinds(option)
      PROVE  OptionsInTime'
  BY <1>13 DEF clientFinds, counts
<1>14. CASE clientAppends
  BY <1>14 DEF clientAppends, appendPostForm, added
<1>15. CASE clientSetsOption
  BY <1>15 DEF clientSetsOption, told
<1>16. CASE UNCHANGED vars
  BY <1>16
<1> QED
    BY <1>1, <1>2, <1>3, <1>4, <1>5, <1>6, <1>7, <1>8, <1>9, <1>10, <1>11,
     <1>12, <1>13, <1>14, <1>15, <1>16 DEF Next, worker

\* Lists without a handle come from a client or from the outcome.
LEMMA BareStep ==
  ASSUME TypeOK, HandlesInv, ClientInv, BareInv, [Next]_vars
  PROVE  BareInv'
<1> USE DEF HandlesInv, ClientInv, BareInv, NoClient, Early, Over, TypeOK, CallSite,
            Option, Pointer, vars, sessionVars, requestVars, clientVars
<1>1. CASE startUrlRequest
  BY <1>1 DEF startUrlRequest
<1>2. CASE executeAdd
  BY <1>2 DEF executeAdd
<1>3. CASE scanStart
  BY <1>3 DEF scanStart, initSessionInfo, added
<1>4. CASE scanStartFails
  BY <1>4 DEF scanStartFails, initSessionInfo, added
<1>5. CASE startedReturns
  BY <1>5 DEF startedReturns, givesForm
<1>6. CASE curl_multi_perform
  BY <1>6 DEF curl_multi_perform
<1>7. CASE dataReturns
  BY <1>7 DEF dataReturns
<1>8. CASE scanOutcome
  BY <1>8 DEF scanOutcome
<1>9. CASE scanRelease
  BY <1>9 DEF scanRelease, uninitSessionInfo, freed, curl_multi_remove_handle
<1>10. CASE releaseAnyway
  BY <1>10 DEF releaseAnyway, uninitSessionInfo, freed, curl_multi_remove_handle
<1>11. CASE releaseReturns
  BY <1>11 DEF releaseReturns
<1>12. ASSUME NEW option \in Option, setRequestOption(option)
      PROVE  BareInv'
  <2>1. CASE option = "header" /\ appendCustomHeader
    BY <1>12, <2>1 DEF setRequestOption, appendCustomHeader, added, told, counts
  <2>2. CASE option = "form" /\ appendPostForm
    BY <1>12, <2>2 DEF setRequestOption, appendPostForm, added, counts
  <2> QED
    BY <1>12, <2>1, <2>2 DEF setRequestOption
<1>13. ASSUME NEW option \in Option, clientFinds(option)
      PROVE  BareInv'
  BY <1>13 DEF clientFinds, counts
<1>14. CASE clientAppends
  BY <1>14 DEF clientAppends, appendPostForm, added
<1>15. CASE clientSetsOption
  BY <1>15 DEF clientSetsOption, told
<1>16. CASE UNCHANGED vars
  BY <1>16
<1> QED
    BY <1>1, <1>2, <1>3, <1>4, <1>5, <1>6, <1>7, <1>8, <1>9, <1>10, <1>11,
     <1>12, <1>13, <1>14, <1>15, <1>16 DEF Next, worker

\* What is left after the clean-up.
LEMMA LeftStep ==
  ASSUME TypeOK, HandlesInv, ClientInv, BareInv, LeftInv, [Next]_vars
  PROVE  LeftInv'
<1> USE DEF HandlesInv, ClientInv, BareInv, LeftInv, NoClient, Early, Over, TypeOK,
            CallSite, Option, Pointer, vars, sessionVars, requestVars, clientVars
<1>1. CASE startUrlRequest
  BY <1>1 DEF startUrlRequest
<1>2. CASE executeAdd
  BY <1>2 DEF executeAdd
<1>3. CASE scanStart
  BY <1>3 DEF scanStart, initSessionInfo, added
<1>4. CASE scanStartFails
  BY <1>4 DEF scanStartFails, initSessionInfo, added
<1>5. CASE startedReturns
  BY <1>5 DEF startedReturns, givesForm
<1>6. CASE curl_multi_perform
  BY <1>6 DEF curl_multi_perform
<1>7. CASE dataReturns
  BY <1>7 DEF dataReturns
<1>8. CASE scanOutcome
  BY <1>8 DEF scanOutcome
<1>9. CASE scanRelease
  BY <1>9 DEF scanRelease, uninitSessionInfo, freed, curl_multi_remove_handle
<1>10. CASE releaseAnyway
  BY <1>10 DEF releaseAnyway, uninitSessionInfo, freed, curl_multi_remove_handle
<1>11. CASE releaseReturns
  BY <1>11 DEF releaseReturns
<1>12. ASSUME NEW option \in Option, setRequestOption(option)
      PROVE  LeftInv'
  <2>1. CASE option = "header" /\ appendCustomHeader
    BY <1>12, <2>1 DEF setRequestOption, appendCustomHeader, added, told, counts
  <2>2. CASE option = "form" /\ appendPostForm
    BY <1>12, <2>2 DEF setRequestOption, appendPostForm, added, counts
  <2> QED
    BY <1>12, <2>1, <2>2 DEF setRequestOption
<1>13. ASSUME NEW option \in Option, clientFinds(option)
      PROVE  LeftInv'
  BY <1>13 DEF clientFinds, counts
<1>14. CASE clientAppends
  BY <1>14 DEF clientAppends, appendPostForm, added
<1>15. CASE clientSetsOption
  BY <1>15 DEF clientSetsOption, told
<1>16. CASE UNCHANGED vars
  BY <1>16
<1> QED
    BY <1>1, <1>2, <1>3, <1>4, <1>5, <1>6, <1>7, <1>8, <1>9, <1>10, <1>11,
     <1>12, <1>13, <1>14, <1>15, <1>16 DEF Next, worker

\* Options of the callback of the start reach the handle.
LEMMA StartStep ==
  ASSUME TypeOK, HandlesInv, ListsInv, ClientInv, StartInv, [Next]_vars
  PROVE  StartInv'
<1> USE DEF HandlesInv, ListsInv, ClientInv, StartInv, Early, Over, TypeOK, CallSite,
            Option, Pointer, vars, sessionVars, requestVars, clientVars
<1>1. CASE startUrlRequest
  BY <1>1 DEF startUrlRequest
<1>2. CASE executeAdd
  BY <1>2 DEF executeAdd
<1>3. CASE scanStart
  BY <1>3 DEF scanStart, initSessionInfo, added
<1>4. CASE scanStartFails
  BY <1>4 DEF scanStartFails, initSessionInfo, added
<1>5. CASE startedReturns
  BY <1>5 DEF startedReturns, givesForm
<1>6. CASE curl_multi_perform
  BY <1>6 DEF curl_multi_perform
<1>7. CASE dataReturns
  BY <1>7 DEF dataReturns
<1>8. CASE scanOutcome
  BY <1>8 DEF scanOutcome
<1>9. CASE scanRelease
  BY <1>9 DEF scanRelease, uninitSessionInfo, freed, curl_multi_remove_handle
<1>10. CASE releaseAnyway
  BY <1>10 DEF releaseAnyway, uninitSessionInfo, freed, curl_multi_remove_handle
<1>11. CASE releaseReturns
  BY <1>11 DEF releaseReturns
<1>12. ASSUME NEW option \in Option, setRequestOption(option)
      PROVE  StartInv'
  <2>1. CASE option = "header" /\ appendCustomHeader
    BY <1>12, <2>1 DEF setRequestOption, appendCustomHeader, added, told, counts
  <2>2. CASE option = "form" /\ appendPostForm
    BY <1>12, <2>2 DEF setRequestOption, appendPostForm, added, counts
  <2> QED
    BY <1>12, <2>1, <2>2 DEF setRequestOption
<1>13. ASSUME NEW option \in Option, clientFinds(option)
      PROVE  StartInv'
  BY <1>13 DEF clientFinds, counts
<1>14. CASE clientAppends
  BY <1>14 DEF clientAppends, appendPostForm, added
<1>15. CASE clientSetsOption
  BY <1>15 DEF clientSetsOption, told
<1>16. CASE UNCHANGED vars
  BY <1>16
<1> QED
    BY <1>1, <1>2, <1>3, <1>4, <1>5, <1>6, <1>7, <1>8, <1>9, <1>10, <1>11,
     <1>12, <1>13, <1>14, <1>15, <1>16 DEF Next, worker

--------------------------------------------------------------------------------
(***************************************************************************)
(* The invariant and what follows from it.                                 *)
(***************************************************************************)
\* Type correctness; lists are given to handles that are there.
THEOREM TypeCorrect == Spec => [](TypeOK /\ HandlesInv)
<1>1. Init => TypeOK /\ HandlesInv
  <2>1. Init => {mHttpMethod, mPostArg, mCURL, multi, appended, usedFreed, freedTwice}
                  \subseteq BOOLEAN
    BY Zenon DEF Init
  <2>2. Init => options \in 0..MaxOptions
    BY OptionsAssumption, SMT DEF Init
  <2> QED
    BY <2>1, <2>2 DEF Init, TypeOK, HandlesInv, CallSite, Option, Pointer, Early, Over
<1>2. TypeOK /\ HandlesInv /\ [Next]_vars => TypeOK' /\ HandlesInv'
  BY TypeStep, HandlesStep
<1> QED
  BY <1>1, <1>2, PTL DEF Spec

\* What the places of a session say of its handles and lists, for every mix of
\* callers: the inductive invariant.
THEOREM Invariant == Spec => []IInv
<1>1. Init => IInv
  BY DEF Init, IInv, HandlesInv, ListsInv, ClientInv, BareInv, LeftInv, StartInv,
         OptionsInTime, NoClient, Early, Over
<1>2. TypeOK /\ IInv /\ [Next]_vars => IInv'
  BY HandlesStep, ListsStep, ClientStep, InTimeStep, BareStep, LeftStep, StartStep
     DEF IInv
<1> QED
  BY <1>1, <1>2, TypeCorrect, PTL DEF Spec

\* While the multi handle has the easy handle, the handle is there and none of
\* its lists was freed; no list is freed twice.
THEOREM TransferCorrect == Spec => []TransferKeepsLists
<1>1. IInv => TransferKeepsLists
  BY DEF IInv, HandlesInv, ListsInv, Early, Over, TransferKeepsLists
<1> QED
  BY <1>1, Invariant, PTL

\* Options set in callbacks up to the outcome never touch a freed list.
THEOREM OptionsInTimeCorrect == Spec => []OptionsInTime
<1>1. IInv => OptionsInTime
  BY DEF IInv
<1> QED
  BY <1>1, Invariant, PTL

\* Headers and form fields set when the request is reported started are sent.
THEOREM SentCorrect == Spec => []OptionsSent
<1>1. IInv => OptionsSent
  BY DEF IInv, StartInv, OptionsSent
<1> QED
  BY <1>1, Invariant, PTL

\* No list outlives a session's stay in the map unless a client thread or the
\* callback of the release made it.
THEOREM LeakCorrect == Spec => []NothingLeaked
<1>1. IInv => NothingLeaked
  BY DEF IInv, LeftInv, NoClient, Over, NothingLeaked
<1> QED
  BY <1>1, Invariant, PTL

=============================================================================
