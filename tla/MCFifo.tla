------------------------------- MODULE MCFifo -------------------------------
(* Fifo for TLC: the ways the queue is used. *)
EXTENDS Fifo

CONSTANTS t1      \* one of Threads

\* Any thread waits, without timeouts; or one only, with timeouts too.
SafeUses == {[consumers |-> Threads, timed |-> {}],
             [consumers |-> {t1}, timed |-> {t1}]}

\* Any thread waits, one of them with timeouts too.
MixedUses == {[consumers |-> Threads, timed |-> {t1}]}
================================================================================
