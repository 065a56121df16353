-------------------------- MODULE HERequestOptions --------------------------
(***************************************************************************)
(* The options of a request, setRequestOption: custom headers and form     *)
(* fields are lists the HESessionInfo owns and its easy handle refers to.  *)
(* The worker builds, uses and frees them on the session's way through the *)
(* driver (module HEDriver has that way in detail); the application adds   *)
(* to them from the engine's callbacks or from a thread of its own.        *)
(***************************************************************************)
EXTENDS Naturals

CONSTANT MaxOptions   \* bound of the model: options set in all

ASSUME OptionsAssumption == MaxOptions \in Nat

\* Where the application sets options: in a callback, when the request starts,
\* on headers and data, on its outcome, when it is released; in a client thread
CallSite == {"started", "data", "outcome", "release", "client"}
Option == {"header", "form"}
Pointer == {"NULL", "alive", "freed"}

VARIABLES
  at,           \* where the session is with the worker; the callback's name
                \* while one runs
  mHttpMethod,  \* is it HM_POSTFORM?
  mPostArg,     \* is it not empty?
  mCURL, multi, \* is there an easy handle, has the multi handle taken it?
  mChunk, mFormstart,
  setopt,       \* the lists the easy handle was given
  client,       \* the option a client thread found the session for
  appended,     \* it has appended to mChunk, the handle is not told yet
  asked,        \* options the application has set and the lists have taken
  options,      \* how many
  usedFreed, freedTwice,
  callers       \* chosen at the beginning: where options are set

sessionVars == <<mCURL, multi, mChunk, mFormstart, setopt, usedFreed, freedTwice>>
requestVars == <<mHttpMethod, mPostArg, callers>>
clientVars == <<client, appended, asked, options>>
vars == <<at, sessionVars, requestVars, clientVars>>

\* Lists are given to a handle that is there.
TypeOK ==
  /\ at \in CallSite \cup {"new", "queued", "waiting", "running", "failed", "gone"}
  /\ {mHttpMethod, mPostArg, mCURL, multi, appended, usedFreed, freedTwice} \subseteq BOOLEAN
  /\ mChunk \in Pointer /\ mFormstart \in Pointer
  /\ setopt \subseteq Option
  /\ client \in Option \cup {"none"}
  /\ asked \subseteq Option
  /\ options \in 0..MaxOptions
  /\ callers \subseteq CallSite
  /\ setopt # {} => mCURL

Init ==
  /\ at = "new"
  /\ mHttpMethod \in BOOLEAN /\ mPostArg \in BOOLEAN
  /\ mCURL = FALSE /\ multi = FALSE
  /\ mChunk = "NULL" /\ mFormstart = "NULL" /\ setopt = {}
  /\ client = "none" /\ appended = FALSE
  /\ asked = {} /\ options = 0
  /\ usedFreed = FALSE /\ freedTwice = FALSE
  /\ callers \in SUBSET CallSite

\* getSession finds it
inMap == at \notin {"new", "queued", "gone"}

--------------------------------------------------------------------------------
(***************************************************************************)
(* Setting options.                                                        *)
(***************************************************************************)
\* curl_slist_append and curl_formadd: a first element, or one more
added(list) == IF list = "freed" THEN list ELSE "alive"

told == IF mCURL THEN setopt \cup {"header"} ELSE setopt

appendCustomHeader ==
  /\ mChunk' = added(mChunk)
  /\ asked' = asked \cup {"header"}
  /\ usedFreed' = (usedFreed \/ mChunk = "freed")
  /\ setopt' = told
  /\ UNCHANGED mFormstart

\* curl_formadd may refuse it.
appendPostForm ==
  /\ \/ mFormstart' = added(mFormstart) /\ asked' = asked \cup {"form"}
     \/ UNCHANGED <<mFormstart, asked>>
  /\ usedFreed' = (usedFreed \/ mFormstart = "freed")
  /\ UNCHANGED <<mChunk, setopt>>

counts == options < MaxOptions /\ options' = options + 1

setRequestOption(option) ==
  /\ at \in callers \cap CallSite
  /\ \/ option = "header" /\ appendCustomHeader
     \/ option = "form" /\ appendPostForm
  /\ counts
  /\ UNCHANGED <<at, mCURL, multi, freedTwice, requestVars, client, appended>>

clientFinds(option) ==
  /\ "client" \in callers /\ inMap
  /\ client = "none"
  /\ counts
  /\ client' = option
  /\ UNCHANGED <<at, sessionVars, requestVars, appended, asked>>

clientAppends ==
  /\ client # "none" /\ ~appended
  /\ \/ /\ client = "form" /\ appendPostForm
        /\ client' = "none"
        /\ UNCHANGED appended
     \/ /\ client = "header"
        /\ mChunk' = added(mChunk)
        /\ asked' = asked \cup {"header"}
        /\ usedFreed' = (usedFreed \/ mChunk = "freed")
        /\ appended' = TRUE
        /\ UNCHANGED <<mFormstart, setopt, client>>
  /\ UNCHANGED <<at, mCURL, multi, freedTwice, requestVars, options>>

clientSetsOption ==
  /\ appended
  /\ setopt' = told
  /\ client' = "none" /\ appended' = FALSE
  /\ UNCHANGED <<at, mCURL, multi, mChunk, mFormstart, usedFreed, freedTwice,
                 requestVars, asked, options>>

--------------------------------------------------------------------------------
(***************************************************************************)
(* The worker.                                                             *)
(***************************************************************************)
\* startUrlRequest posts it.
startUrlRequest ==
  /\ at = "new"
  /\ at' = "queued"
  /\ UNCHANGED <<sessionVars, requestVars, clientVars>>

executeAdd ==
  /\ at = "queued"
  /\ at' = "waiting"
  /\ UNCHANGED <<sessionVars, requestVars, clientVars>>

\* initSessionInfo turns the post argument of a form into fields, if there are
\* any in it.
initSessionInfo ==
  IF mHttpMethod /\ mPostArg
  THEN /\ mFormstart' \in {mFormstart, added(mFormstart)}
       /\ usedFreed' = (usedFreed \/ mFormstart = "freed")
  ELSE UNCHANGED <<mFormstart, usedFreed>>

\* The handle is made and added, OnRequestStartedNotify called.
scanStart ==
  /\ at = "waiting"
  /\ mCURL' = TRUE /\ multi' = TRUE
  /\ initSessionInfo
  /\ at' = "started"
  /\ UNCHANGED <<mChunk, setopt, freedTwice, requestVars, clientVars>>

\* curl_easy_init or curl_multi_add_handle fails.
scanStartFails ==
  /\ at = "waiting"
  /\ \/ UNCHANGED <<mCURL, mFormstart, usedFreed>>
     \/ mCURL' = TRUE /\ initSessionInfo
  /\ at' = "failed"
  /\ UNCHANGED <<multi, mChunk, setopt, freedTwice, requestVars, clientVars>>

\* Fault: the form is given to the handle before the notification.
formGivenFirst == setopt' = setopt

givesForm ==
  setopt' = IF mHttpMethod /\ mFormstart # "NULL" THEN setopt \cup {"form"} ELSE setopt

\* onStart after its notification
startedReturns ==
  /\ at = "started"
  /\ givesForm
  /\ at' = "running"
  /\ UNCHANGED <<mCURL, multi, mChunk, mFormstart, usedFreed, freedTwice,
                 requestVars, clientVars>>

\* curl calls back with headers and data
curl_multi_perform ==
  /\ at = "running"
  /\ at' = "data"
  /\ UNCHANGED <<sessionVars, requestVars, clientVars>>

dataReturns ==
  /\ at = "data"
  /\ at' = "running"
  /\ UNCHANGED <<sessionVars, requestVars, clientVars>>

freed(list) == IF list = "NULL" THEN "NULL" ELSE "freed"

\* Fault: the form is freed for the method that sends it only.
uninitFormOfMethod ==
  /\ mFormstart' = IF mHttpMethod THEN freed(mFormstart) ELSE mFormstart
  /\ mChunk' = freed(mChunk)
  /\ freedTwice' = (freedTwice \/ mFormstart = "freed" \/ mChunk = "freed")
  /\ mCURL' = FALSE /\ setopt' = {}

\* Pointers of what is freed stay.
uninitSessionInfo ==
  /\ mFormstart' = freed(mFormstart) /\ mChunk' = freed(mChunk)
  /\ freedTwice' = (freedTwice \/ mFormstart = "freed" \/ mChunk = "freed")
  /\ mCURL' = FALSE /\ setopt' = {}

\* Fault: the handle stays in the multi handle.
stays == UNCHANGED multi

curl_multi_remove_handle == multi' = FALSE

\* Fault: the outcome is reported after the clean-up.
outcomeLast ==
  /\ at \in {"waiting", "failed", "running"}
  /\ curl_multi_remove_handle
  /\ uninitSessionInfo
  /\ at' = "outcome"
  /\ UNCHANGED <<usedFreed, requestVars, clientVars>>

\* It was stopped, has failed or is complete; onAbort, onError or onComplate.
scanOutcome ==
  /\ at \in {"waiting", "failed", "running"}
  /\ at' = "outcome"
  /\ UNCHANGED <<sessionVars, requestVars, clientVars>>

\* Then it is cleaned up and OnRequestReleaseNotify is called.
scanRelease ==
  /\ at = "outcome"
  /\ curl_multi_remove_handle
  /\ uninitSessionInfo
  /\ at' = "release"
  /\ UNCHANGED <<usedFreed, requestVars, clientVars>>

\* Remove, Clear and the cleanup at the end skip the clean-up without a handle.
releaseAnyway ==
  /\ at \in {"waiting", "failed", "running"}
  /\ \/ mCURL /\ curl_multi_remove_handle /\ uninitSessionInfo
     \/ ~mCURL /\ UNCHANGED <<mCURL, multi, mChunk, mFormstart, setopt, freedTwice>>
  /\ at' = "release"
  /\ UNCHANGED <<usedFreed, requestVars, clientVars>>

releaseReturns ==
  /\ at = "release"
  /\ at' = "gone"
  /\ UNCHANGED <<sessionVars, requestVars, clientVars>>

--------------------------------------------------------------------------------
worker ==
  \/ executeAdd \/ scanStart \/ scanStartFails \/ startedReturns
  \/ curl_multi_perform \/ dataReturns
  \/ scanOutcome \/ scanRelease \/ releaseAnyway \/ releaseReturns

Next ==
  \/ startUrlRequest \/ worker
  \/ \E option \in Option : setRequestOption(option) \/ clientFinds(option)
  \/ clientAppends \/ clientSetsOption

Spec == Init /\ [][Next]_vars

--------------------------------------------------------------------------------
(* Properties. *)

\* While the multi handle has the easy handle it is there, and no list it may
\* send from was freed, whichever way the request ends and whoever sets options;
\* and no list is freed twice although the pointers stay.
TransferKeepsLists ==
  /\ multi => mCURL /\ mChunk # "freed" /\ mFormstart # "freed"
  /\ ~freedTwice

\* What is set in the callbacks up to the outcome never touches a freed list;
\* a release notification or a client thread could.
OptionsInTime == callers \cap {"release", "client"} = {} => ~usedFreed

\* What the application sets when the request is reported started goes with it,
\* if curl takes it.
\* "Http form, for post method, use setRequestOption."
OptionsSent ==
  (at = "running" /\ callers \subseteq {"started"}) =>
    /\ "header" \in asked => "header" \in setopt
    /\ "form" \in asked /\ mHttpMethod => "form" \in setopt

\* No list is left when the session is out of the map; unless a client thread
\* set options before there was a handle, or after the clean-up.
NothingLeaked ==
  (at = "gone" /\ callers \cap {"release", "client"} = {}) =>
    mChunk # "alive" /\ mFormstart # "alive"
=============================================================================
