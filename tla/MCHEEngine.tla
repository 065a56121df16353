----------------------------- MODULE MCHEEngine -----------------------------
(***************************************************************************)
(* HEEngineImpl for TLC.  Requests are interchangeable.                    *)
(***************************************************************************)
EXTENDS HEEngineInv, TLC

RequestSymmetry == Permutations(Requests)

\* Main: initialize, unInitialize and one call of its own; the others: two
FewCalls == [c \in Clients |-> IF c = Main THEN 3 ELSE 2]

\* Main: initialize, unInitialize, initialize, unInitialize
RestartCalls == [c \in Clients |-> IF c = Main THEN 4 ELSE 1]
=============================================================================
