------------------------------ MODULE TimedWait ------------------------------
(***************************************************************************)
(* The deadline of Condition::wait(mutex, ms) in the POSIX build: the time *)
(* of day plus ms, as the timespec pthread_cond_timedwait asks for.        *)
(***************************************************************************)
EXTENDS Integers

Million == 1000000
Billion == 1000000000

CONSTANTS Usecs,     \* the microseconds of the time of day a wait may begin at
          Timeouts   \* the timeouts in milliseconds it may be given

ASSUME TimedWaitAssumption ==
  /\ Usecs \subseteq Nat /\ \A u \in Usecs : u < Million
  /\ Timeouts \subseteq Nat \ {0}

VARIABLES
  begin,     \* the arguments of the wait: tv_usec of the time of day, and ms
  deadline,  \* now: tv_sec relative to the second the wait began in, tv_nsec
  result     \* what the call came to

vars == <<begin, deadline, result>>

Init ==
  /\ begin \in [tv_usec : Usecs, ms : Timeouts]
  /\ deadline = [tv_sec |-> 0, tv_nsec |-> 0]
  /\ result = "none"

\* timespec now = {...}: whole seconds, the rest in nanoseconds.
added == [tv_sec  |-> begin.ms \div 1000,
          tv_nsec |-> (begin.tv_usec + (begin.ms % 1000) * 1000) * 1000]

\* Fault: the second is not counted.
carriedLost(t) ==
  IF t.tv_nsec > Billion
    THEN [t EXCEPT !.tv_nsec = @ - Billion]
    ELSE t

\* Fault: nothing is carried.
carriedNever(t) == t

carried(t) ==
  IF t.tv_nsec > Billion
    THEN [tv_sec |-> t.tv_sec + 1, tv_nsec |-> t.tv_nsec - Billion]
    ELSE t

setDeadline ==
  /\ result = "none"
  /\ deadline' = carried(added)
  /\ result' = "waiting"
  /\ UNCHANGED begin

\* EINVAL for a timespec that is not one; otherwise woken, or out of time.
pthread_cond_timedwait ==
  /\ result = "waiting"
  /\ result' \in IF 0 <= deadline.tv_nsec /\ deadline.tv_nsec < Billion
                   THEN {"woken", "timeout"} ELSE {"EINVAL"}
  /\ UNCHANGED <<begin, deadline>>

Next == setDeadline \/ pthread_cond_timedwait

Spec == Init /\ [][Next]_vars

--------------------------------------------------------------------------------
\* The deadline is ms milliseconds after the beginning, to the microsecond, and
\* has at most one second left in its nanoseconds.
DeadlineIsMsLater ==
  result # "none" =>
    /\ 0 <= deadline.tv_nsec /\ deadline.tv_nsec <= Billion
    /\ deadline.tv_nsec % 1000 = 0
    /\ deadline.tv_sec * Million + deadline.tv_nsec \div 1000
         = begin.tv_usec + begin.ms * 1000

\* The call is refused, if at all, when the microseconds come to one second.
WholeSecond(u, m) == u + (m % 1000) * 1000 = Million

RefusedAtWholeSecond == result = "EINVAL" => WholeSecond(begin.tv_usec, begin.ms)

\* "assert( rc == 0 )" where the call was neither interrupted nor out of time.  It
\* does not hold (README, findings): RefusedAtWholeSecond says when.
WaitAccepted == result # "EINVAL"
================================================================================
