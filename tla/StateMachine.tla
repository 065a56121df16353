---------------------------- MODULE StateMachine ----------------------------
(***************************************************************************)
(* Util::StateMachine and Util::ActionMachine: the current state of each   *)
(* machine, its timer, and what processing an event calls.                 *)
(*                                                                         *)
(* A transition runs callbacks of the application: the exit action of the  *)
(* state it leaves, its own action, the enter action of the state it goes  *)
(* to.  While one runs the machine is between two statements of process;   *)
(* the call is a frame of stack, the calls the owner's thread is in, the   *)
(* innermost last.                                                         *)
(***************************************************************************)
EXTENDS Naturals, Sequences

CONSTANTS Machines,
          ActionMachines, \* the machines without states
          actionKinds,    \* what their actions match
          States,
          NoState,        \* NULL
          Kinds,          \* what predicates tell apart: types of events
          TimeoutKind,    \* TimeoutEvent
          mTransitions,   \* the transitions of a state, in order
          hasTimeout,     \* the states with a timeout other than 0
          mMetaState,     \* the meta-state of the machines, or NoState
          Start

ASSUME StateMachineAssumption ==
  /\ NoState \notin States /\ Start \in States
  /\ TimeoutKind \in Kinds
  /\ ActionMachines \subseteq Machines /\ actionKinds \subseteq Kinds
  /\ hasTimeout \subseteq States
  /\ mMetaState \in States \cup {NoState}
  /\ mTransitions \in [States -> Seq([on : Kinds, to : States, internal : BOOLEAN])]
  /\ \A s \in States : \A i \in DOMAIN mTransitions[s] :
       mTransitions[s][i].internal => mTransitions[s][i].to = s

VARIABLES
  mCurrent,    \* [Machines -> States]
  mPrevious,
  mTimeoutMS,  \* the state whose timeout a machine's deadline is, NoState for 0
  stack,
  entered,     \* the state whose enter action was called last
  left         \* the machines whose exit action was called since

machineVars == <<mCurrent, mPrevious, mTimeoutMS, entered, left>>

\* Where process is while a callback of the application runs
Place == {"exit", "transition", "internal", "enter", "action"}
Call == [at : Place, m : Machines, to : States, meta : BOOLEAN]

MachineTypeOK ==
  /\ mCurrent \in [Machines -> States]
  /\ mPrevious \in [Machines -> States \cup {NoState}]
  /\ mTimeoutMS \in [Machines -> hasTimeout \cup {NoState}]
  /\ entered \in [Machines -> States]
  /\ left \subseteq Machines

\* setStartState: nothing is called
MachineInit ==
  /\ mCurrent = [m \in Machines |-> Start]
  /\ mPrevious = [m \in Machines |-> NoState]
  /\ mTimeoutMS = [m \in Machines |-> NoState]
  /\ entered = [m \in Machines |-> Start]
  /\ left = {}

--------------------------------------------------------------------------------
\* The first transition of s for the event, as a set of at most one
firstMatch(s, kind) ==
  {mTransitions[s][i] : i \in {j \in DOMAIN mTransitions[s] :
     /\ mTransitions[s][j].on = kind
     /\ \A k \in 1 .. (j - 1) : mTransitions[s][k].on # kind}}

metaMatch(kind) == IF mMetaState = NoState THEN {} ELSE firstMatch(mMetaState, kind)

\* Fault: transitions of the meta-state call no exit action.
beginningInMeta(m, transition, meta) ==
  [at |-> IF transition.internal THEN "internal" ELSE IF meta THEN "transition" ELSE "exit",
   m |-> m, to |-> transition.to, meta |-> meta]

\* Fault: the type of the transition is not looked at.
beginningInternal(m, transition, meta) ==
  [at |-> "internal", m |-> m, to |-> transition.to, meta |-> meta]

\* The call a transition begins with
beginning(m, transition, meta) ==
  [at |-> IF transition.internal THEN "internal" ELSE "exit",
   m |-> m, to |-> transition.to, meta |-> meta]

\* The call that processing an event begins; none when nothing matches.
\* Transitions of the meta-state come after those of the current state.
callsFor(m, kind) ==
  CASE m \in ActionMachines ->
         {[at |-> "action", m |-> m, to |-> Start, meta |-> FALSE] :
            k \in actionKinds \cap {kind}}
    [] m \notin ActionMachines /\ firstMatch(mCurrent[m], kind) # {} ->
         {beginning(m, t, FALSE) : t \in firstMatch(mCurrent[m], kind)}
    [] OTHER -> {beginning(m, t, TRUE) : t \in metaMatch(kind)}

\* The machine m processes an event on top of the calls below; OnExit of the
\* current state is called at once.
process(m, kind, below) ==
  \/ /\ callsFor(m, kind) = {}
     /\ stack' = below
     /\ UNCHANGED left
  \/ \E call \in callsFor(m, kind) :
       /\ stack' = Append(below, call)
       /\ left' = IF call.at = "exit" THEN left \cup {m} ELSE left

--------------------------------------------------------------------------------
(***************************************************************************)
(* A callback returns.                                                     *)
(***************************************************************************)
top == stack[Len(stack)]
popped == SubSeq(stack, 1, Len(stack) - 1)
Running(place) == stack # <<>> /\ top.at = place

exitReturns ==
  /\ Running("exit")
  /\ stack' = [stack EXCEPT ![Len(stack)].at = "transition"]
  /\ UNCHANGED machineVars

\* Fault: the deadline of the state that is left stays.
enterKeepsDeadline(to, m) == IF to \in hasTimeout THEN to ELSE mTimeoutMS[m]

\* setTimeout(mTo->getTimeout()): 0 clears the deadline
deadlineFor(to, m) == IF to \in hasTimeout THEN to ELSE NoState

\* The machine is in its new state, the enter action is called.
transitionReturns ==
  /\ Running("transition")
  /\ LET m == top.m IN
     /\ mPrevious' = IF top.meta THEN mPrevious
                     ELSE [mPrevious EXCEPT ![m] = mCurrent[m]]
     /\ mCurrent' = [mCurrent EXCEPT ![m] = top.to]
     /\ mTimeoutMS' = [mTimeoutMS EXCEPT ![m] = deadlineFor(top.to, m)]
     /\ entered' = [entered EXCEPT ![m] = top.to]
     /\ left' = left \ {m}
  /\ stack' = [stack EXCEPT ![Len(stack)].at = "enter"]

\* An internal transition ends: it goes to the state it belongs to.
internalReturns ==
  /\ Running("internal")
  /\ mPrevious' = IF top.meta THEN mPrevious
                  ELSE [mPrevious EXCEPT ![top.m] = mCurrent[top.m]]
  /\ mCurrent' = [mCurrent EXCEPT ![top.m] = top.to]
  /\ stack' = popped
  /\ UNCHANGED <<mTimeoutMS, entered, left>>

enterReturns ==
  /\ Running("enter") \/ Running("action")
  /\ stack' = popped
  /\ UNCHANGED machineVars

callbackReturns ==
  exitReturns \/ transitionReturns \/ internalReturns \/ enterReturns
=============================================================================
