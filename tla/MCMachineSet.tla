---------------------------- MODULE MCMachineSet ----------------------------
(* MachineSet for TLC: a machine that is ready or busy, and ways to use it. *)
EXTENDS MachineSet

CONSTANTS m1, m2, a1

Transition(kind, to, internal) == [on |-> kind, to |-> to, internal |-> internal]

\* An idle machine is called, a busy one takes notes until it ends or its time
\* is up; it is reset in any state.
PhoneTransitions ==
  [s \in {"ready", "busy", "meta"} |->
     CASE s = "ready" -> <<Transition("call", "busy", FALSE)>>
       [] s = "busy"  -> <<Transition("call", "busy", TRUE), Transition("timeout", "ready", FALSE),
                           Transition("end", "ready", FALSE)>>
       [] s = "meta"  -> <<Transition("reset", "busy", FALSE)>>]

BothMachines == {<<m1, m2>>, <<m1, a1>>}
AllOrTwo == {<<>>, <<m2, m1>>}

Use(handler, exceptions, direct, changes, throws) ==
  [mEventHandler |-> handler, hasExceptions |-> exceptions, direct |-> direct,
   changes |-> changes, throws |-> throws]

\* Callbacks that only queue, that process events at once where this is safe
\* and where it is not, and add and remove machines at once or do not, and that
\* throw, with a handler and without.
PhoneUses ==
  {Use(handler, TRUE, {}, FALSE, throws) : handler, throws \in BOOLEAN}
  \cup {Use(FALSE, FALSE, {"enter", "action"}, changes, FALSE) : changes \in BOOLEAN}
  \cup {Use(TRUE, FALSE, {"exit", "transition", "enter"}, changes, FALSE) : changes \in BOOLEAN}
  \cup {Use(FALSE, FALSE, {"enter"}, FALSE, TRUE)}
=============================================================================
