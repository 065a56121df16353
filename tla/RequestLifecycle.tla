-------------------------- MODULE RequestLifecycle --------------------------
(***************************************************************************)
(* What the HTTP engine promises about every request, without threads,     *)
(* commands or curl: a request is submitted under a key, may be admitted   *)
(* when no active request has that key, hears at most one Started and at   *)
(* most one outcome while active, in that order, and the notification that *)
(* it was released is its last.                                            *)
(***************************************************************************)
EXTENDS Integers

CONSTANTS Requests, Keys

VARIABLES
  key,     \* the key a request was submitted under, 0 before
  active,  \* the requests admitted and not released
  heard    \* the last notification about each request

vars == <<key, active, heard>>

(***************************************************************************)
(* The notification that may follow another one, releases left aside.      *)
(* Only a request that was Started can be Complated; one that was never    *)
(* Started may still be Stoped or Errored.                                 *)
(***************************************************************************)
Follows == {<<"None", "Started">>, <<"None", "Stoped">>, <<"None", "Errored">>,
            <<"Started", "Stoped">>, <<"Started", "Errored">>,
            <<"Started", "Complated">>}

Init ==
  /\ key = [s \in Requests |-> 0]
  /\ active = {}
  /\ heard = [s \in Requests |-> "None"]

Submit(s, k) ==
  /\ key[s] = 0
  /\ key' = [key EXCEPT ![s] = k]
  /\ UNCHANGED <<active, heard>>

Admit(s) ==
  /\ key[s] # 0
  /\ heard[s] = "None"
  /\ \A t \in active : key[t] # key[s]
  /\ active' = active \cup {s}
  /\ UNCHANGED <<key, heard>>

Notify(s, n) ==
  /\ s \in active
  /\ <<heard[s], n>> \in Follows
  /\ heard' = [heard EXCEPT ![s] = n]
  /\ UNCHANGED <<key, active>>

Release(S) ==
  /\ S \subseteq active
  /\ active' = active \ S
  /\ heard' = [s \in Requests |-> IF s \in S THEN "Released" ELSE heard[s]]
  /\ UNCHANGED key

Next ==
  \/ \E s \in Requests : \/ \E k \in Keys : Submit(s, k)
                         \/ Admit(s)
                         \/ \E n \in {"Started", "Stoped", "Complated",
                                      "Errored"} : Notify(s, n)
  \/ \E S \in SUBSET Requests : Release(S)

Spec == Init /\ [][Next]_vars
=============================================================================
