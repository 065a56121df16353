----------------------------- MODULE MachineSet -----------------------------
(***************************************************************************)
(* Util::MachineSet: the machines of one thread, the owner, and the events *)
(* that any thread may queue for them.                                     *)
(*                                                                         *)
(* The owner calls process again and again: it takes the events from the   *)
(* queue one by one, shows each to the machines it is meant for, and looks *)
(* for machines whose time is up.  With a handler registered, the handler  *)
(* keeps the timers, and may keep the events too.                          *)
(*                                                                         *)
(* The actions of a machine are callbacks of the application.  While one   *)
(* runs it may queue events, have the owner process one on the spot        *)
(* (enqueueDirect), add or remove machines on the spot, or throw.          *)
(***************************************************************************)
EXTENDS StateMachine, SequencesExt

CONSTANTS Uses,       \* ways to use the set: see use
          Targets,    \* the target machines of an event, <<>> for all
          Added,      \* lists of machines the owner adds before anything else
          MaxPosts    \* bound of the model: events posted in all

ASSUME MachineSetAssumption ==
  /\ Kinds \cap {"AddMachine", "RemoveMachine"} = {}
  /\ Uses \subseteq [mEventHandler : BOOLEAN, hasExceptions : BOOLEAN,
                     direct : SUBSET Place, changes : BOOLEAN, throws : BOOLEAN]
  /\ Targets \subseteq Seq(Machines)
  /\ Added \subseteq {list \in Seq(Machines) : IsInjective(list)}
  /\ MaxPosts \in Nat

VARIABLES
  mMachines,      \* the machines, in the order they were added
  mMachinesSet,
  mFifo,          \* the queue; Fifo is verified on its own
  handlerEvents,  \* events the handler took over
  handlerTimers,  \* timers the handler was asked for: <<machine, state>>
  posts,
  use             \* chosen at the beginning: is a handler registered; does the
                  \* build catch exceptions in process(event); the callbacks
                  \* that call enqueueDirect; do they add and remove
                  \* machines with it; do callbacks throw

setVars == <<mMachines, mMachinesSet>>
queueVars == <<mFifo, handlerEvents, posts>>
vars == <<machineVars, stack, setVars, queueVars, handlerTimers, use>>

Event == [kind : Kinds \ {TimeoutKind}, targets : Targets]
         \cup [kind : {"AddMachine", "RemoveMachine"}, targets : {<<m>> : m \in Machines}]

\* The calls of the set: process(), the scan for timers at its end and
\* processTimeoutMachine; process(event) with the number of machines left to
\* show the event to.
SetCall == [at : {"process", "timers", "timeout"}, i : Nat]
           \cup [at : {"event"}, event : Event, i : Nat]

TypeOK ==
  /\ MachineTypeOK
  /\ stack \in Seq(Call \cup SetCall)
  /\ mMachines \in Seq(Machines)
  /\ mMachinesSet \subseteq Machines
  /\ mFifo \in Seq(Event) /\ handlerEvents \in Seq(Event)
  /\ handlerTimers \subseteq Machines \X hasTimeout
  /\ posts \in 0..MaxPosts
  /\ use \in Uses

Init ==
  /\ MachineInit
  /\ stack = <<>>
  /\ mMachines \in Added /\ mMachinesSet = ToSet(mMachines)
  /\ mFifo = <<>> /\ handlerEvents = <<>>
  /\ handlerTimers = {}
  /\ posts = 0
  /\ use \in Uses

Idle == stack = <<>>

--------------------------------------------------------------------------------
(***************************************************************************)
(* The machines of the set.                                                *)
(***************************************************************************)
addMachine(m) ==
  /\ mMachinesSet' = mMachinesSet \cup {m}
  /\ mMachines' = IF m \in mMachinesSet THEN mMachines ELSE Append(mMachines, m)

\* Fault: the machine stays in the list.
removeFromSetOnly(m) ==
  /\ mMachinesSet' = mMachinesSet \ {m}
  /\ UNCHANGED mMachines

removeMachine(m) ==
  /\ mMachinesSet' = mMachinesSet \ {m}
  /\ IF m \in mMachinesSet
     THEN \E i \in DOMAIN mMachines :
            /\ mMachines[i] = m /\ \A j \in 1 .. (i - 1) : mMachines[j] # m
            /\ mMachines' = RemoveAt(mMachines, i)
     ELSE UNCHANGED mMachines

--------------------------------------------------------------------------------
(***************************************************************************)
(* process(event), from the queue, the handler or enqueueDirect.           *)
(***************************************************************************)
\* The event is carried out on top of the calls below.
processEvent(e, below) ==
  \/ /\ e.kind = "AddMachine" /\ addMachine(e.targets[1])
     /\ stack' = below
  \/ /\ e.kind = "RemoveMachine" /\ removeMachine(e.targets[1])
     /\ stack' = below
  \/ /\ e.kind \in Kinds
     /\ stack' = Append(below, [at |-> "event", event |-> e, i |->
                     IF e.targets = <<>> THEN Len(mMachines) ELSE Len(e.targets)])
     /\ UNCHANGED setVars

\* Targets in their order; all machines from the last to the first
comesTo(call) == IF call.event.targets = <<>> THEN mMachines[call.i]
                 ELSE call.event.targets[Len(call.event.targets) + 1 - call.i]

\* Fault: a target is not looked up.
showUnchecked(m, kind, below) == process(m, kind, below)

\* processTargetMachineEvent looks the target up in the set.
show(m, kind, below) ==
  IF m \in mMachinesSet THEN process(m, kind, below)
  ELSE stack' = below /\ UNCHANGED left

\* A loop over the list that a callback changed at once goes on by position, as
\* erase in place and push_back without reallocation leave it.  Outside the list
\* its iterator points at nothing: the model goes no further then.
eventNext ==
  /\ Running("event") /\ top.i > 0
  /\ top.event.targets = <<>> => top.i <= Len(mMachines)
  /\ show(comesTo(top), top.event.kind, [stack EXCEPT ![Len(stack)].i = @ - 1])
  /\ UNCHANGED <<mCurrent, mPrevious, mTimeoutMS, entered, setVars, queueVars,
                 handlerTimers, use>>

eventEnds ==
  /\ Running("event") /\ top.i = 0
  /\ stack' = popped
  /\ UNCHANGED <<machineVars, setVars, queueVars, handlerTimers, use>>

--------------------------------------------------------------------------------
(***************************************************************************)
(* process(), called by the owner.                                         *)
(***************************************************************************)
processBegins ==
  /\ Idle
  /\ stack' = <<[at |-> "process", i |-> 1]>>
  /\ UNCHANGED <<machineVars, setVars, queueVars, handlerTimers, use>>

takeEvent ==
  /\ Running("process") /\ mFifo # <<>>
  /\ mFifo' = Tail(mFifo)
  /\ processEvent(Head(mFifo), stack)
  /\ UNCHANGED <<machineVars, handlerEvents, posts, handlerTimers, use>>

\* Fault: timers are looked for with a handler, not without.
timersWithHandler ==
  /\ Running("process") /\ mFifo = <<>>
  /\ stack' = IF ~use.mEventHandler THEN popped
              ELSE [stack EXCEPT ![Len(stack)].at = "timers"]
  /\ UNCHANGED <<machineVars, setVars, queueVars, handlerTimers, use>>

queueEmpty ==
  /\ Running("process") /\ mFifo = <<>>
  /\ stack' = IF use.mEventHandler THEN popped
              ELSE [stack EXCEPT ![Len(stack)].at = "timers"]
  /\ UNCHANGED <<machineVars, setVars, queueVars, handlerTimers, use>>

clearsDeadline(m) == mTimeoutMS' = [mTimeoutMS EXCEPT ![m] = NoState]

\* The scan comes to a machine whose time is up; the deadlines of those
\* before it have not passed.
timerFires(m) ==
  /\ Running("timers") /\ mTimeoutMS[m] # NoState
  /\ \E i \in DOMAIN mMachines :
       /\ i >= top.i /\ mMachines[i] = m
       /\ process(m, TimeoutKind, [stack EXCEPT ![Len(stack)].i = i + 1])
  /\ clearsDeadline(m)
  /\ UNCHANGED <<mCurrent, mPrevious, entered, setVars, queueVars, handlerTimers, use>>

timersEnd ==
  /\ Running("timers") /\ top.i <= Len(mMachines) + 1
  /\ stack' = popped
  /\ UNCHANGED <<machineVars, setVars, queueVars, handlerTimers, use>>

--------------------------------------------------------------------------------
(***************************************************************************)
(* The handler: a message loop of the application in the owner's thread.   *)
(***************************************************************************)
handlerProcessesEvent ==
  /\ Idle /\ handlerEvents # <<>>
  /\ handlerEvents' = Tail(handlerEvents)
  /\ processEvent(Head(handlerEvents), stack)
  /\ UNCHANGED <<machineVars, mFifo, posts, handlerTimers, use>>

\* onUpdateMachineTimeOut: one timer more, or one in place of the last
onUpdateMachineTimeOut(m, s) ==
  handlerTimers' \in {handlerTimers \cup {<<m, s>>},
                     {t \in handlerTimers : t[1] # m} \cup {<<m, s>>}}

processTimeoutMachine(m) ==
  IF m \in mMachinesSet
  THEN /\ clearsDeadline(m)
       /\ process(m, TimeoutKind, <<[at |-> "timeout", i |-> 0]>>)
  ELSE UNCHANGED <<mTimeoutMS, stack, left>>

handlerTimerFires ==
  /\ Idle
  /\ \E t \in handlerTimers :
       /\ handlerTimers' = handlerTimers \ {t}
       /\ processTimeoutMachine(t[1])
  /\ UNCHANGED <<mCurrent, mPrevious, entered, setVars, queueVars, use>>

timeoutEnds ==
  /\ Running("timeout")
  /\ stack' = popped
  /\ UNCHANGED <<machineVars, setVars, queueVars, handlerTimers, use>>

--------------------------------------------------------------------------------
(***************************************************************************)
(* Callbacks of the application, and the other threads.                    *)
(***************************************************************************)
InCallback == stack # <<>> /\ top.at \in Place

\* updateTimeoutMahcine on the way into the new state
callbackEnds ==
  /\ callbackReturns
  /\ IF Running("transition") /\ use.mEventHandler /\ top.to \in hasTimeout
     THEN onUpdateMachineTimeOut(top.m, top.to)
     ELSE UNCHANGED handlerTimers
  /\ UNCHANGED <<setVars, queueVars, use>>

\* The calls that catch an exception: processTimeoutMachine, and
\* process(event) in the builds that catch
catching == {k \in DOMAIN stack :
               \/ stack[k].at = "timeout"
               \/ stack[k].at = "event" /\ use.hasExceptions}

callbackThrows ==
  /\ InCallback /\ use.throws
  /\ \/ catching = {} /\ stack' = <<>>
     \/ \E k \in catching : /\ \A j \in catching : j <= k
                           /\ stack' = SubSeq(stack, 1, k - 1)
  /\ UNCHANGED <<machineVars, setVars, queueVars, handlerTimers, use>>

\* Fault: what the build with ENQUEUE_DIRECT_IF_SAME_THREAD does.
enqueueAtOnce(e) ==
  /\ posts < MaxPosts /\ posts' = posts + 1
  /\ processEvent(e, stack)
  /\ UNCHANGED <<machineVars, mFifo, handlerEvents, handlerTimers, use>>

\* By any thread, a callback too.  The handler takes the event over (MS_Skip)
\* or has the set queue it.
enqueue(e) ==
  /\ posts < MaxPosts /\ posts' = posts + 1
  /\ \/ /\ use.mEventHandler
        /\ handlerEvents' = Append(handlerEvents, e)
        /\ UNCHANGED mFifo
     \/ /\ mFifo' = Append(mFifo, e)
        /\ UNCHANGED handlerEvents
  /\ UNCHANGED <<machineVars, stack, setVars, handlerTimers, use>>

\* By the owner, between two calls of process or from a callback: process(event)
\* adds or removes a machine at once, whatever loop over the list is under way.
enqueueDirect(e) ==
  /\ Idle \/ (InCallback /\ top.at \in use.direct)
  /\ e.kind \in Kinds \/ Idle \/ use.changes
  /\ posts < MaxPosts /\ posts' = posts + 1
  /\ processEvent(e, stack)
  /\ UNCHANGED <<machineVars, mFifo, handlerEvents, handlerTimers, use>>

--------------------------------------------------------------------------------
\* The owner's thread, without what it is free to do
owner ==
  \/ processBegins \/ takeEvent \/ queueEmpty \/ timersEnd
  \/ eventNext \/ eventEnds \/ timeoutEnds
  \/ callbackEnds

Next ==
  \/ owner
  \/ handlerProcessesEvent \/ handlerTimerFires
  \/ \E m \in Machines : timerFires(m)
  \/ callbackThrows
  \/ \E e \in Event : enqueue(e) \/ enqueueDirect(e)

Spec == Init /\ [][Next]_vars

\* The owner goes on calling process and its callbacks return; a deadline
\* passes some day.
FairSpec == Spec /\ WF_vars(owner) /\ \A m \in Machines : SF_vars(timerFires(m))

--------------------------------------------------------------------------------
(* Properties. *)

\* The list events are shown along and the set targets are looked up in have
\* the same machines, each once: addMachine and removeMachine keep both.
ListMatchesSet == ToSet(mMachines) = mMachinesSet /\ IsInjective(mMachines)

UnderWay(m) == \E k \in DOMAIN stack : stack[k].at \in Place /\ stack[k].m = m

\* Targets are looked up when their turn comes: no transition begins in a machine
\* that is not in the set, though a callback of an earlier target has just removed
\* it.  And nothing removes a machine in the middle of a transition but a callback
\* that does so at once.
RemovedIsIdle ==
  [][/\ Len(stack') > Len(stack) /\ top'.at \in Place => top'.m \in mMachinesSet
     /\ \A m \in mMachinesSet \ mMachinesSet' : UnderWay(m) => InCallback /\ use.changes]_vars

\* What the application must keep to for the machines to be in the state they
\* entered: the action of an internal transition processes no event at once,
\* and no transition of the meta-state is internal.
KeepsState ==
  /\ "internal" \notin use.direct
  /\ mMetaState # NoState =>
       \A i \in DOMAIN mTransitions[mMetaState] : ~mTransitions[mMetaState][i].internal

\* Then a machine is in the state whose enter action was called last, through
\* nested events, exceptions and removals ("call OnEnter", Machine.cxx).
CurrentWasEntered == KeepsState => mCurrent = entered

\* "reset timer only on entry": the deadline of a machine is that of the state
\* it is in, never of one it left.
DeadlineOfCurrent ==
  KeepsState => \A m \in Machines : mTimeoutMS[m] \in {NoState, mCurrent[m]}

\* A machine whose exit action was called is on its way into a state: unless
\* callbacks throw, or the actions of a transition process events at once.
LeftIsUnderWay ==
  ~use.throws /\ use.direct \subseteq {"enter", "action"}
    => left = {stack[k].m : k \in {j \in DOMAIN stack : stack[j].at \in {"exit", "transition"}}}

\* While an event is shown along the list or it is searched for timers, only a
\* callback that adds or removes a machine at once changes it: nothing that is
\* queued, by a callback, the handler or another thread, and no handler's timer.
\* The iterators of both loops stay valid as long as callbacks leave that be.
TraversalUndisturbed ==
  [][mMachines' # mMachines =>
       \/ InCallback /\ use.changes
       \/ \A k \in DOMAIN stack : stack[k].at \notin {"event", "timers", "timeout"}]_vars

\* Without a handler, the deadline of a machine of the set is acted on or
\* replaced, unless the machine is removed; if callbacks leave the list alone.
DeadlineActedOn ==
  \A m \in Machines, s \in hasTimeout :
    (~use.mEventHandler /\ ~use.changes /\ m \in mMachinesSet /\ mTimeoutMS[m] = s)
      ~> (mTimeoutMS[m] # s \/ m \notin mMachinesSet)
=============================================================================
