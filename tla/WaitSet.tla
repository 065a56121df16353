------------------------------- MODULE WaitSet -------------------------------
(***************************************************************************)
(* What a condition variable promises its callers, without semaphores or   *)
(* counters: a signal wakes one of the threads that wait and are not woken *)
(* yet, if there is one, a broadcast wakes all of them, and nobody who     *)
(* begins to wait later takes their place.  One that gives up leaves the   *)
(* wake-ups to those who go on waiting.                                    *)
(***************************************************************************)
EXTENDS Integers, FiniteSets

CONSTANT Threads

VARIABLES
  doing,    \* what a thread does with the condition variable
  wakeups   \* wake-ups that threads which wait have yet to notice

vars == <<doing, wakeups>>

Init ==
  /\ doing = [t \in Threads |-> "other"]
  /\ wakeups = 0

Waiters == {t \in Threads : doing[t] = "wait"}

ends(t, what) == doing[t] = what /\ doing' = [doing EXCEPT ![t] = "other"]

\* A thread may begin to wait when those woken before it have left.
begin(t) ==
  /\ doing[t] = "other"
  /\ \E what \in {"wait", "signal", "broadcast"} :
       /\ what = "wait" => wakeups = 0
       /\ doing' = [doing EXCEPT ![t] = what]
  /\ UNCHANGED wakeups

wake(t) ==
  /\ ends(t, "wait")
  /\ wakeups > 0
  /\ wakeups' = wakeups - 1

giveUp(t) ==
  /\ wakeups < Cardinality(Waiters)
  /\ ends(t, "wait")
  /\ UNCHANGED wakeups

signal(t) ==
  /\ ends(t, "signal")
  /\ wakeups' = IF wakeups < Cardinality(Waiters) THEN wakeups + 1 ELSE wakeups

broadcast(t) ==
  /\ ends(t, "broadcast")
  /\ wakeups' = Cardinality(Waiters)

Next == \E t \in Threads : begin(t) \/ wake(t) \/ giveUp(t) \/ signal(t) \/ broadcast(t)

Spec == Init /\ [][Next]_vars
==============================================================================
