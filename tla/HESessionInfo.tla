--------------------------- MODULE HESessionInfo ---------------------------
(***************************************************************************)
(* One HTTP request as HttpEngine keeps it: the class HESessionInfo of     *)
(* HttpEngine/src/HESessionInfo.cxx.  A session is a record with the       *)
(* fields the driver decides on: the status, whether an easy handle is     *)
(* held (mCURL # NULL) and whether the application asked for progress      *)
(* notifications (mProgressFrequency > 0).  URL, headers, form and proxy   *)
(* are payload and do not influence the control flow.                      *)
(***************************************************************************)

\* enum enHttpStatus; WAITCOMPLATE is the source's spelling
HttpStatus == {"CLOSED", "START", "ABORT", "WAITCOMPLATE", "COMPLETE", "ERROR"}

Session == [status : HttpStatus, mCURL : BOOLEAN, progress : BOOLEAN]

\* What the constructor leaves
NewSession == [status |-> "CLOSED", mCURL |-> FALSE, progress |-> FALSE]

\* start() stores START whatever the status was
start(x) == [x EXCEPT !.status = "START"]

\* stop() stores ABORT whatever the status was
stop(x) == [x EXCEPT !.status = "ABORT"]

setCurrentStatus(x, status) == [x EXCEPT !.status = status]

\* Fault: the handle is cleaned up and its pointer kept
uninitKeepsPointer(x) == x

\* uninitSessionInfo cleans the easy handle up, if there is one
uninitSessionInfo(x) == [x EXCEPT !.mCURL = FALSE]

setProgressNotifyFrequency(x) == [x EXCEPT !.progress = TRUE]

(***************************************************************************)
(* The delegates of IHttpEngine the application hears about a request by,  *)
(* in the spelling of the source.  "None": no delegate was called yet.     *)
(***************************************************************************)
Outcome == {"Stoped", "Complated", "Errored"}
Notification == {"None", "Started", "Released"} \cup Outcome

\* Fault: the cases after the first fall through
outcomeFallsThrough(status) == IF status = "ABORT" THEN "Stoped" ELSE status

\* Fault: a stopped request is reported as a failed one
outcomeOfStopIsError(status) == IF status = "COMPLETE" THEN "Complated"
                                                       ELSE "Errored"

\* The delegate called for a session that the scan is about to release
outcomeOf(status) == CASE status = "ABORT"    -> "Stoped"
                       [] status = "COMPLETE" -> "Complated"
                       [] status = "ERROR"    -> "Errored"
============================================================================
