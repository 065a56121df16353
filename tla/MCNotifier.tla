----------------------------- MODULE MCNotifier -----------------------------
(* Notifier for TLC: two functors of the application, one of callbacks. *)
EXTENDS Notifier

CONSTANTS app, other, worker, f, g, h

\* Functions all, or g a pair of an object and a member function.
TypeChoices == {[x \in Functors |-> "function"],
                [x \in Functors |-> IF x = g THEN "member" ELSE "function"]}

Owners == [x \in Functors |-> CASE x = f -> app [] x = g -> other [] x = h -> worker]

Use(kind, inCallback, throws, again) ==
  [policy |-> kind, inCallback |-> inCallback, throws |-> throws, again |-> again]

CommonUses ==
  {Use("plain", {}, throws, TRUE) : throws \in BOOLEAN}
  \cup {Use("recursive", acts, throws, FALSE) :
           acts \in {{"remove"}, {"add"}, {"remove", "add"}}, throws \in BOOLEAN}
  \cup {Use("recursive", {"remove"}, FALSE, TRUE),
        Use("single", {"remove"}, FALSE, TRUE), Use("single", {"add"}, TRUE, FALSE)}
=============================================================================
