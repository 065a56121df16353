# TLA+ models of weibo-sdk-util

The repository is the utility layer of a C++ client SDK: an HTTP engine that runs
requests on a worker thread over libcurl (`src/HttpEngine`), a library of threading,
queueing, state-machine, delegate, logging and scripting classes (`src/libutil/util`),
and string conversion (`src/Common`). The rest of the tree is vendored: libjson, CppUnit,
and the headers of boost, curl, cppunit and json under `src/include`
(`src/include/HttpEngine` and `src/include/libutil` are copies of the headers modelled here).

This directory holds TLA+ modules of the parts where several threads or callbacks meet,
configurations that model-check them with TLC, and proofs checked by TLAPS.

## Inventory

| Component | State it keeps | Operations | What is hard about it |
|---|---|---|---|
| HTTP engine, interface (`HEEngineImpl.cxx`) | the driver, the request limit, the proxy | initialize, unInitialize, startUrlRequest, stopRequest, set/getOption, set/getRequestOption | called by any thread, also from the worker's callbacks; start is three steps |
| HTTP engine, driver (`HEDriver.cxx`, `HEDriverCommand.cxx`) | session map, atomic counter, command queue, curl multi handle | post a command; the worker's loop: execute one, perform, scan, perform, report progress, dispatch messages | commands, client writes and curl's messages change the status of a session in any order; four ways for a session to leave |
| HTTP engine, session (`HESessionInfo.cxx`) | status, easy handle, headers, form, progress settings | start, stop, init/uninit, append header/form/argument, notifications | shared between the client that made it, the queue and the worker |
| ThreadIf | thread, id, shutdown flag | run, join, shutdown, isShutdown, isRunning | id written by both threads; flag never reset |
| Mutex, Condition, RWMutex | Win32: events, gates and counters; POSIX: wrappers | lock, wait, timed wait, signal, broadcast, readlock, writelock, unlock | lost wake-ups, starvation, the bookkeeping of the hand-made Win32 versions |
| Fifo | deque, mutex, condition | add, getNext with and without time limit, clear | waiting and time limits |
| FSM (`Machine.cxx`, `Transition.cxx`, `MachineSet.cxx`) | current state, machines, event queue, timers | addMachine, removeMachine, enqueue, process, timeouts | re-entrant events, stale timers, machines that end during their event |
| Delegate | list of callbacks, lock | connect, disconnect, invoke | callbacks run under the lock |
| Log, Logger | levels, ring of lines, file | log, rotate | callbacks under a static mutex |
| Lua script engine | scripts, mutex | link, unlink, update | scripts run under the mutex they call back into |
| Urlcode | none | encode, decode | boundaries of escapes |

What makes each correct: a request is heard about in order and released exactly once (HTTP
engine); join returns and a running thread is known to run (ThreadIf); no reader beside a
writer and no lost wake-up (RWMutex, Condition); an element is handed out once, in order
(Fifo); a machine is in one state between events and hears no timer it did not set (FSM);
a callback is invoked for every event between connect and disconnect (Delegate); decode
undoes encode (Urlcode).

## Plan

Done, in this order:

1. HTTP engine: `HESessionInfo`, `HEDriver`, `HEEngineImpl`, the abstract
   `RequestLifecycle`, the inductive invariant `HEEngineInv` and its proofs.
2. `RWMutex` (Windows branch); a run that shows what its uncounted readers lead to; the
   count of pending writers, the wake-ups and the writers' exclusion proved.
3. `Condition` (Windows branch) under every use of its interface, shown to implement the abstract
   `WaitSet` until a wait that timed out leaves during a signal, and `Fifo` over it; the safety properties of both proved.
   `TimedWait`, the deadline arithmetic of the POSIX branch, proved.
4. `StateMachine` and `MachineSet`: transitions with nested and throwing callbacks, events from
   any thread, timers with and without a handler; all safety properties proved.
5. `Delegate` and `ThreadIf`, composed in `Notifier` the way the engine uses both; all safety
   properties proved.
6. `HERequestOptions`: the lists of headers and form fields from whoever sets them to their
   release; proved.

What is left to do:

7. What `Condition` still guarantees after a wait that timed out has left during a signal: how many
   wake-ups at most are lost or left over, and with how many threads it cannot block for ever.
8. `LuaScriptEngine` over `RWMutex`, with scripts that link and unlink.
9. `Urlcode` against a reference definition.

## Modules

| Module | Models |
|---|---|
| `HESessionInfo` | a session as a record (status, easy handle held, progress wanted), what start, stop, setCurrentStatus and uninitSessionInfo do to it, and the outcome reported for a status |
| `HEDriver` | the worker: state of the driver, the four posting operations, the commands, the loop of `thread()` one action per part, one action per kind of session `threadScanQueue` meets |
| `HEEngineImpl` | the callers: `Clients` are threads of the application, `Main` is the one that calls initialize and unInitialize; composes with `HEDriver` by EXTENDS; the properties are stated here |
| `RequestLifecycle` | abstract specification: what a request is promised, without threads, commands or curl |
| `HEEngineInv` | the inductive invariant |
| `MCHEEngine` | constants and symmetry for TLC |
| `HEEngine_proofs` | the theorems about the engine |
| `HERequestOptions`, `HERequestOptions_proofs` | one request with its headers and form: setting options in each callback and from a client thread, building, handing over and freeing the lists; theorems about it |
| `StateMachine` | state machines and action machines: which transition an event takes, and the callbacks it calls, one after the other |
| `MachineSet`, `MCMachineSet`, `MachineSet_proofs` | the set: list, queue, timers and their handler, the loop of `process`; extends `StateMachine`; theorems about it |
| `Delegate` | the list of functors, its lock, and the call that goes along it |
| `ThreadIf` | an object that runs, stops and joins a thread (POSIX build) |
| `Notifier`, `MCNotifier`, `Notifier_proofs` | a delegate called by a `ThreadIf` while application threads and its own callbacks change it; extends `Delegate` and `ThreadIf`; theorems about it |
| `RWMutex`, `RWMutex_proofs` | the readers-writer lock of the Windows build, and theorems about it |
| `Condition` | the condition variable of the Windows build: the steps of `wait`, timed `wait`, `signal` and `broadcast`, as operators for the modules that use one |
| `ConditionUse`, `MCCondition`, `ConditionUse_proofs` | threads that do everything the interface of `Condition` allows; the properties of the condition variable, and theorems about it |
| `WaitSet` | abstract specification: what a condition variable promises, as a number of wake-ups and the threads that wait |
| `Fifo`, `MCFifo`, `Fifo_proofs` | `Fifo.hxx` over the steps of `Condition`, not over an idealised condition variable; theorems about it, which use those about `Condition` |
| `TimedWait`, `TimedWait_proofs` | the deadline a timed wait of the POSIX build computes, and theorems about it |

How the state of the engine corresponds to the code. `session[s]` is the `HESessionInfo` object of one
accepted startUrlRequest, `key[s]` its `mRequestDetails->mKey` (0: not constructed; the
engine never stores key 0 unless a URL hashes to 0, which the model leaves out),
`mSessionInfoPtrMap`, `mSessionCount`, `mCmdFifo`, `mShutdown`, `mHttpDriver` are the
members of these names. `pc`, `todo` and `bHasHandle` are the worker's place in `thread()`
and the iterator of the scan; `multi` is what libcurl's multi handle knows about each
transfer (external). `heard[s]` is the last notification the application received about a
request. `at` and `current` are the place and the local variable of a client inside
startUrlRequest.

Grain of atomicity. The worker's steps are separated wherever a client's step in between can
be observed: between the loop's parts, between two sessions of the scan, and between the
delegate that reports an outcome and the release. startUrlRequest is three steps (check the
limit and construct; post; store START), because the worker reads the session after the
second. A delegate the worker calls runs on the worker's thread and may call the engine; such
a call does what a client scheduled at that moment does, so it is covered.

How the state of the threading classes corresponds to the code. `mReaderCount`,
`mWriterHasLock`, `mPendingWriterCount`, `m_gate`, `m_queue`, `m_mutex`, `m_blocked`, `m_gone`,
`m_waiting`, `mFifo` and `mSize` are the members of these names; a semaphore is its count, a mutex
the thread that holds it, the deque its length (which message is which does not matter for who
waits). `mtx` is the mutex the caller passes to `wait`. `timed`, `ret`, `was_gone` and `signals` are
the arguments and locals of the methods, `pc`, `at` and `call` the place a thread has reached.

Their grain. `RWMutex` and `Fifo` hold their mutex from the first statement to the last except in a
wait, so a stretch between two such points is a step. In `RWMutex` a condition is the set of
threads blocked in it, woken only when signalled; the two conditions are signalled with the mutex
held and waited for without timeouts, for which `WaitSetImplemented` shows the real one to behave like that. In `Condition` a step ends wherever the code blocks (the gate, the queue, `m_mutex`, the
caller's mutex) and where `ReleaseSemaphore(m_queue)` follows the release of `m_mutex`. Code under
`m_mutex` that only releases the gate is part of the step that took `m_mutex`; `m_mutex` stays held
across the places that wait for the gate. `Condition.hxx` defines
`_CONDITION_WIN32_CONFORMANCE_TO_POSIX`, so this is the branch a Windows build has.

How the state of the machine set corresponds to the code. `stack` is the owner thread's call
stack, as far as `Machine.cxx` and `MachineSet.cxx` are on it: a frame of `process()`, of its scan
for timers, of `process(event)` with the number of machines still to come, of
`processTimeoutMachine`, and on top of them the callbacks of the application that a transition is
calling (`exit`, `transition`, `enter`, `internal`, `action`). A step ends where a callback begins
or returns, since there the application acts; between two callbacks only the owner runs, and other
threads reach nothing but the queue. `mMachines`, `mMachinesSet`, `mFifo`, `mCurrent` and `mPrevious`
are the members of these names, `mTimeoutMS` the state whose timeout is running; the deadline itself
is left out, since any deadline may pass before any other. `entered` and `left` are history
variables. `use` holds what differs between applications and builds: a handler, `_HAS_EXCEPTIONS`,
the callbacks that call `enqueueDirect`, whether they add and remove machines with it, and whether
callbacks throw. A callback that does changes the list under the loops at MachineSet.cxx:230 and 263, whose
iterators are then invalid: the model goes on by position, as `erase` in place and `push_back` without reallocation
leave a vector's iterator, and no further where the iterator is outside the list.

How `Notifier` corresponds to the code. `list` is the chain of `Previous` pointers, oldest first; a
node has an id because a functor connected again is another object. `holder`, `older`, `running`
and `atLast` are the place of `operator()` in its recursion. `mId`, `mThread`, `mShutdown` are the members of
`ThreadIf`. The lock is held over a whole method, so a method is a step, except for `Add`, which locks
twice, and the call, which has the callbacks in it. What happens to a call whose last node is gone is
undefined in C++; the model stops there, and the properties say when that cannot be. `dangling` is the state in
which `operator=` leaves the delegate when it has freed the list and `new` finds no memory: `_last` points at
freed nodes (`AssignFails`). Every later method is undefined; the delegate goes no further, the thread does.

How `HERequestOptions` corresponds to the code. `mChunk` and `mFormstart` are the pointers of
`HESessionInfo`, `setopt` what `curl_easy_setopt` was told; a client thread that sets an option is
split where the worker can come in between: after `getSession`, and between appending and
`curl_easy_setopt`. `curl_formadd` may refuse a form, which the code only logs; the option is
set as far as the application knows, and nothing is sent of it.

Each module names its fault operators (`\* Fault: ...`): they are not part of the model, they
are the plausible mistakes each property is tested against (`mutants` in `PROJECT.json`).

## Runs

| Run | Instance | Shows |
|---|---|---|
| `engine_safety` | 2 requests, 2 keys, 2 clients with 3 and 2 calls, limit 2, Remove and Clear posted directly too; 466 000 states | the safety properties, refinement of `RequestLifecycle` |
| `engine_liveness` | the same without Remove and Clear, no symmetry; 330 000 states | the liveness properties |
| `engine_progress` | 1 request, 1 key | progress of a request that has no easy handle (violation) |
| `options` | 1 request, 3 options, every choice of callers; 48 000 states | lists are neither freed during a transfer nor twice nor forgotten, options arrive |
| `machineset` | 2 state machines, or one and an action machine; 3 states, one of them the meta-state; 2 events; 9 ways to use the set; 85 000 states | list, set, states and deadlines stay consistent; no transition begins in a removed machine; only a callback at once changes the list under a loop; deadlines are acted on |
| `notifier` | 2 application threads, the thread twice, 3 functors, 5 nodes; 11 ways to use both, `new` with and without memory; 615 000 states | no freed node is called, nobody is called once disconnected, everyone else once and in order; join returns and leaves nothing |
| `rwmutex` | 2 readers, 2 writers, a thread that is both; 3 500 states | the pending writers stay counted and nobody is stranded, whatever unlock takes a reader for; writers exclude each other until a read lock is unlocked |
| `rwmutex_readers` | 1 reader, 1 writer | the assertion in `RWMutex::unlock` fails (violation) |
| `condition` | 3 threads with and without timeouts, `Word` 6; 252 000 states | a closed gate can be opened again, with the limits stated; until a wait that timed out leaves during a signal, the counters mean what they are named for, `m_blocked` does not wrap and `WaitSet` is implemented |
| `fifo` | 4 threads, 2 messages; all wait without timeouts, or one waits with timeouts too, which is how `MachineSet` uses the queue; `Word` 8; 38 600 states | nobody is left blocked beside a message with nothing under way; who waits beside messages is served, or others are |
| `fifo_timed` | 3 consumers, one with timeouts, `Word` 64 | a wake-up is lost (violation) |
| `timedwait` | 11 times, 11 timeouts around each boundary; 480 states | the deadline is ms later, refused in one case at most |

Bounds and why they are enough. Two requests on two keys give the cases of a key that is free,
taken, and taken by a request that leaves; two sessions in one scan in either order; and a
session that ends while another is running. Two clients give a startUrlRequest overtaken at
each of its steps by a Stop of another thread, by unInitialize, and by another
startUrlRequest. `MaxCalls` bounds the calls of a client, three for `Main` so that one call of
its own fits between initialize and unInitialize. `mMaxRunning` is 2 so that the third
startUrlRequest is rejected. The queue is bounded by the calls. Deadlock is not checked because
the system stops when the calls are used up and the worker has exited.

`rwmutex` has two threads of each kind, so that a woken one is overtaken by an arriving one of
either kind, and a thread that mixes them. Three threads in `condition` give a waiter that leaves, one that
arrives and a signal under way, or two signals that meet; four are beyond what TLC can do in a few
minutes, with timeouts, and `fifo` runs the same steps with four. `Word` stands for `ULONG_MAX + 1`: at 6, `m_gone` is
settled when two threads are gone, which takes `ULONG_MAX / 2` timeouts in the program; so the wrap at
Condition.cxx:307 is within reach of the run. The counterexample of `fifo_timed` is found with 64 and does not rest
on that. A word is at least twice the number of threads (`ConditionAssumption`), hence 8 in `fifo`. `MaxLength` bounds the queue of `Fifo`: 2 gives a message added to an empty and
to a non-empty queue.

`machineset` has the fewest machines for an event that removes one while another is still to be shown
it, and for a callback of one machine that processes an event for the other. Two posts give a nested
event on top of a queued one, and a removal during either; in one of them a callback removes or adds a machine on the spot while both loops
are under way. The machines have a normal, an internal
and a meta transition and one state with a timeout, so that each kind is interrupted by each.
`notifier` needs five nodes for two functors to be connected, disconnected and connected again while
a call is in them, and two runs of the thread for the second start. Nodes are not freed and reused:
ids grow to `MaxNodes`. In `options` three options give one per list and one more on either.

Deadlock is not checked where all threads may be waiting with nobody obliged
to signal (`condition`, `fifo`), where the application may stop using the system (`notifier`), where the program stops because a loop has
left the list (`machineset`), where a request ends (`options`) and in `timedwait` because the call ends.

Fairness. `WF_vars(worker)`, `WF_vars(join)` and weak fairness of the two later steps of
startUrlRequest: an operating system runs a thread that can run. Nothing obliges a client to
make a call, and nothing obliges a transfer to finish (`curl_multi_perform` may always finish
none), so no liveness property rests on the network.

`fifo` assumes strong fairness of a thread's steps inside a call: a thread that waits for a semaphore, a Windows
mutex or a critical section that is released again and again gets it at some time, since the
kernel queues the threads blocked on it. No thread is assumed to begin a call.

`machineset` assumes that the owner goes on calling process and that callbacks return
(`WF_vars(owner)`), and that a deadline passes some day while the owner looks again and again
(`SF_vars(timerFires(m))`: the scan may come too early any number of times). Nothing obliges anyone to post
an event. `notifier` assumes that the thread runs, that callbacks return (`SF_vars`: a callback whose `Add` finds no memory
may try again any number of times, but not for ever), and that `thread()` returns once the flag is set, which is the contract of `ThreadIf`; the joining thread runs too.

Properties.
- `CountIsMapSize`: three different pieces of code keep the counter that the limit is checked
  against.
- `HandlesOwned`, `OutcomeReadable`: on every path a session leaves by, the handle is cleaned up,
  and not before the application could read the outcome from it.
- `ExitedClean`, `SilentAfterUnInitialize`: what holds once the worker is gone.
- `StopIsFinal`: after a Stop that met a request whose startUrlRequest was over, neither curl's
  messages nor the scan bring it back. The premise is needed: a Stop that overtakes the third step
  of startUrlRequest is undone by it.
- `LifecycleSpec`: one active request per key, Started before Complated, one outcome, release last,
  for every request, under all interleavings.
- `PostedIsServed`, `StopCatches`, `FinishedIsReleased`, `UnInitializeReturns`: liveness. Each is
  about an unshared key where a shared one is legitimately dropped, and allows for a worker
  that exits, since commands still queued at shutdown are never executed.
- `PendingCounted`, `NobodyStranded` (`RWMutex`): `unlock` chooses whom to wake by a count that every
  path through the loop of `writelock` must keep; a wrong count or choice leaves all blocked.
- `WritersExclude` (`RWMutex`): stated up to the first unlock of a read lock (`readUnlocked` is a
  history variable), since that one can release a writer's lock.
- `WakeUpsCounted`, `ImplementsWaitSet` (`ConditionUse`): the counters against the threads that
  really are blocked; and what they are for: a signal wakes one blocked thread if there is one, a
  broadcast all of them, and no wake-up is left for a thread that blocks later.
  They are stated until a wait that timed out leaves while a signal is under way, because of the findings below;
  `late` is a history variable and no step depends on it. Timeouts outside a signal are within the premise.
- `SettledExactly`: the one subtraction that can take a counter below zero is where `wait` settles `m_gone`;
  `normalise` takes it modulo `Word`, as the machine does, and records in `wrapped` that it went below zero. It
  does so only after such a late leave.
- `ConditionTypeOK`: not only a type: every other subtraction is in `Int`, and a counter below zero
  would leave its type.
- `GateOpensAgain`: the gate is closed exactly while a signal is under way, and the signal can come to its end: those
  it waits for are there or have tokens, nobody keeps `m_mutex` from them, and the last one opens the gate.
  Two parts have a premise, `~wrapped` and `~late`, and without them do not hold (below).
- `NobodyStranded`, `WaitingServed` (`Fifo`): what the condition variable is for.
- `TransferKeepsLists`, `NothingLeaked` (`HERequestOptions`): the lists are freed on four paths, and the pointers stay
  set; curl reads them during the whole transfer.
- `OptionsInTime`, `OptionsSent`: from which callbacks options may be set, and that they take effect.
- `ListMatchesSet`, `RemovedIsIdle`, `TraversalUndisturbed` (`MachineSet`): the set is kept twice, as a
  list and as a look-up set, and both loops over the list call the application. `RemovedIsIdle` says that no
  transition begins in a machine that a callback has just removed. That a machine is removed in the middle of
  its own transition, or the list changed under a loop, the code does not prevent: the last two say that only a
  callback which does so at once (`use.changes`) can bring it about, none of the queue, the handler or another thread.
- `CurrentWasEntered`, `LeftIsUnderWay`, `DeadlineOfCurrent`: state, callbacks and timer of a machine fit
  together while callbacks process further events, throw, or remove machines. `KeepsState` and the premise of
  `LeftIsUnderWay` say which of that an application must not do: an internal transition whose action
  processes events at once takes the machine back to the state it left meanwhile. The run keeps to
  `KeepsState` and goes beyond the other premise.
- `DeadlineActedOn`: the timers are looked for when the queue is empty, and callbacks refill it.
- `NoNodeFreed`, `HeardOnce` (`Notifier`): the call goes along nodes that callbacks may free. `RemovesItself`
  is what they must keep to, and `~dangling` that no `operator=` has found no memory. `HeardOnce` says that a call in which callbacks only take themselves out has
  invoked, when it ends, exactly the functors that were connected when it began, in their order.
- `SilentOnceRemoved`: the application may destroy an object once it has disconnected it.
- `JoinedForGood`, `JoinReturns`: `run` may store the id of a thread that is over.
- `DeadlineIsMsLater`, `RefusedAtWholeSecond` (`TimedWait`): additions, carry and comparison against
  the plain sum.

## Where code and documentation disagree

Shown by a run (`findings` in `PROJECT.json`):

- Progress can be asked of a request whose handle is NULL (`engine_progress`).
- In the Windows build `RWMutex::readlock` counts no reader, so that writers enter beside readers and
  the unlock of a read lock fails an assertion or releases a writer's lock (`rwmutex_readers`).
- A timed `Condition::wait` of the Windows build that times out while a signal is under way can,
  through `m_gone`, lose the next wake-up (`fifo_timed`). It needs two consumers of one queue, of which
  one uses a timeout; `MachineSet`, the only user in the repository, has one.

Stated in a module, not part of a run; adding the definition to the cfg of the module's run shows it:

- `JoinSucceeds` (`HEEngineImpl`): a second initialize keeps the driver and starts no thread, so the
  second unInitialize joins a thread that was joined, and the assertion in `ThreadIf::join` fails.
- `NoSpuriousLater` (`ConditionUse`): the same timeout can instead leave a token behind that wakes a
  later wait without a signal.
- `BlockedNeverBelowZero` (`ConditionUse`): after such a timeout `m_gone` can be above `m_blocked` where `wait` settles
  it (Condition.cxx:307), and `m_blocked`, for which Condition.hxx has "# threads blocked on the condition", becomes about
  four billion. The next signal then closes the gate with nobody blocked, and nobody opens it: that is why
  a part of `GateOpensAgain` ends there. It takes `ULONG_MAX / 2` timeouts that no signal settles.
- `TakeBackEnds` (`ConditionUse`, with `Threads = {t1, t2, t3, t4}` and `Word = 12` in condition.cfg): the thread that
  takes left-over tokens back before it opens the gate waits for `was_gone` of them; after such a timeout one
  of them can go to a thread `m_blocked` does not count, and the gate stays closed without any wrap.
- `WaitAccepted` (`TimedWait`): the carry is tested with `>`, so the nanoseconds of a deadline can
  come to exactly 1000000000, which `pthread_cond_timedwait` refuses. `RefusedCorrect` proves that it is refused in
  no other case.

Seen while translating, and modelled as the code has it:

- `setRequestOption` returns `HE_GENERAL_ERROR` although the option was set.
- An option set in `OnRequestReleaseNotify`, or by a client thread that found the session just before
  its release, is appended to a list that was freed: `uninitSessionInfo` leaves the pointers. An
  option set before the easy handle exists never reaches it, if it is a header, and is leaked when
  Remove, Clear or the cleanup at the end drop the session without a handle.
- The limit of running requests is checked against the map, so requests that wait in the queue come
  on top of it.
- An internal transition of the meta-state makes the meta-state the current one, against the comment
  at Machine.cxx:329; transitions of the meta-state never set `mPrevious`. Hence the second half of `KeepsState`.
- A state without a timeout does not tell the handler to stop the timer of the state before
  (Machine.cxx:238, MachineSet.cxx:353); it fires later, and the machine sees a `TimeoutEvent` it did not ask
  for. A handler's timer that fires while its machine is out of the set is lost.
- MachineSet.hxx:41 says "thread safe now!" of `addMachine` and `removeMachine`; they take no lock, and the loops at
  MachineSet.cxx:230-239 and 263-268 hold iterators of the list they change. A callback that hands an
  `AddMachineEvent` or `RemoveMachineEvent` to `enqueueDirect` (or calls them) changes the list under the loop it is called from, and
  can remove the machine whose transition is under way. The model has that (`use.changes`); a call from
  another thread, a data race, it has not.
- `Delegate::operator=` frees the list before it asks for memory (delegateTemplate.hxx:399-404): without any, or when copying the
  functor throws, `_last` keeps pointing at the freed nodes, and the next call invokes them. `Add` is not affected.
- `_HAS_EXCEPTIONS` is defined by the Windows library only: elsewhere `process(event)` catches nothing,
  and the scan for timers catches nothing anywhere.
- Two threads that add the same functor to a delegate at the same time can both find it absent
  (delegateTemplate.hxx:285), and `Exist` stops at the first functor of another type (:356): it is then
  connected twice. A callback that connects makes the call skip the functor that was the last (:470). A
  callback that disconnects a functor other than itself may free a node that the call still goes along.
- With the plain mutex a callback that uses its delegate blocks for ever; with any, a callback blocks
  that waits for a thread which connects or disconnects.
- `ThreadIf::isShutdown` returns the flag only; the flag is never reset, so the `thread()` of a second `run` is
  told to stop at once.

## Proofs

### HTTP engine

Assumed: `HEDriverAssumption` (keys are positive integers, finitely many; `NoRequest` is no request)
and `HEEngineAssumption` (types of the constants). Nothing bounds requests, keys, clients or
calls.

`TypeOK` is proved first (`TypeCorrect`); it includes that exactly the clients inside
startUrlRequest hold a session, without which a posted Add need not carry one. The safety
properties are not inductive, `IInv` is (`Invariant`). Its parts and why they are needed:
- `MapInv`: a session is in the map under its own key only, so that letting go of a key lets go of
  the session, and the refinement can treat the map as a set.
- `ScanInv`: the iterator is at an entry that exists; with `CursorIn` (a non-empty set of naturals
  has a least element) it gives a session at the cursor in every scan step.
- `OnceInv`, `QueuedInv`, `ClientInv`, `UnbornInv`: a session travels from its client through
  the queue into the map once, so an executed Add meets a request nobody has heard about.
- `SessionInv`: status, handle and last notification fit together. "Started implies a handle" is what
  forbids a second Started; "COMPLETE implies Started" is what orders Complated after it.
- `WorkerInv`: the worker exists from initialize to join; gives `SilentAfterUnInitialize`.
- `CountIsMapSize` is inductive given `ScanInv`: the scan decrements for an entry that exists.

There is one lemma per action and, under it, a step per conjunct the action can disturb; four
kinds of steps that many actions are instances of have lemmas of their own (`QuietStep`,
`ReleaseStep`, `AdvanceStep` for the worker, `QuietCall` for clients). From `TypeOK` and `IInv`
follow `CountCorrect`, `HandlesCorrect`, `OutcomeCorrect`, `ExitCorrect`, `SilenceCorrect`,
`StopFinal` and the refinement `LifecycleImplemented`.

### RWMutex

Assumed: there are finitely many threads. `IInv` is `TypeOK`, that no reader is counted,
`PendingCounted` and `NobodyStranded`. None of the four is inductive alone: the type of the count (it
is taken down) needs `PendingCounted`; `NobodyStranded` needs that no reader is counted, since a
writer waits for counted readers too, and `PendingCounted`, since `unlock` chooses by the count.
`PendingStep` follows the set of pending writers through each action by the facts on the
cardinality of a set with one element more or less. `WritersCorrect` is the exclusion of writers, with readers in the lock or not.

### TimedWait

Assumed: microseconds are below a million, timeouts positive. `Deadline` is the arithmetic for one
pair of arguments, in two cases of the carry; `DeadlineCorrect` and `RefusedCorrect` apply it to
the state. The second theorem says how far the finding reaches: only the exact second is refused.

### HERequestOptions

Assumed: `MaxOptions` is a natural number. `HandlesInv` says in which places of its way a session has a
handle, is in the multi handle and can have a list; with `TypeOK` it is inductive (`TypeCorrect`).
`IInv` adds where a freed list can be, which depends on where the application sets options.

### MachineSet

Assumed: `StateMachineAssumption`, `MachineSetAssumption`, which type the constants; an internal transition
goes to the state it belongs to; events to add and remove machines are no events for machines; the
machines added at the start are different. Machines, states, transitions, targets, posts and the depth of
the stack are not bounded.

The inductive invariant is about the stack (`Placed`): every frame is sound (an event is shown no further
than there are targets, an internal transition goes to the current state as long as the application keeps to
`KeepsState`), frames of `process` and of timers are at the bottom, and a frame below another is one
whose machine may be changed meanwhile (`Quiet`). Unless a callback changes the list at once, it changes only on an empty stack or on a lone `process` frame
(`ListChanges`), which is `TraversalCorrect` and half of `RemovedCorrect`; the other half is that a frame of a transition is
pushed by `process` alone, after the look-up (`ProcessBegins`). `LeftTop` is
`LeftIsUnderWay` in a form that is inductive: only the top frame can be between exit and enter. Lemmas on replacing, pushing and
popping frames come first, then one per group of actions.

### Notifier

Assumed: `DelegateAssumption`, `ThreadIfAssumption`, `NotifierAssumption`; the latter says that each functor has one thread
that connects it, and that callbacks leave a delegate with a plain mutex alone. `CallInv` keeps
the nodes a call has yet to invoke, `rest`, inside the list, with functors different from each other
and from the one that is running; so a callback that takes itself out takes none of them. `AddingInv` keeps a functor
that is being added out of the list and out of `silent`, which makes `ListInv` (each functor once) and
`SilentInv` inductive. `SilentInv` is `SilentOnceRemoved` without `~dangling`: an `operator=` that finds no memory leaves the list of the
model as it was, a list of freed nodes from then on, and only says so in `dangling`. The properties have the
premise because what is read in freed nodes is not known. `ThreadInv` says that one created thread at most is not over, and that a
call is under way only in it.

`HeardInv` says where a call has got to: the functors it has invoked, followed by those it has yet to
invoke, are those connected when it began, as long as callbacks only take themselves out. It needs that the
node the call stops at stays the last one (`lastNode`), and gives `HeardCorrect`.

### Condition

Assumed: finitely many threads, and a word of at least three values that counts twice as many. Nothing
bounds the calls.

`CInv` holds whatever times out. It has `GateInv` (when the gate is closed, with the thread named that will
open it), `MutexHeld` (who holds `m_mutex` across the wait for the gate), `ReleaseInv`, and
`BoundInv`, without which the counters could not be shown to stay in range: while a signal is under way
`m_waiting + m_blocked + m_gone` is below the word, and every step in that time only moves threads from one
of the three to another or takes them away; while none is, `m_gone` is settled at half the word. During a signal
`m_gone` leaves zero only when `m_blocked` is zero, so a gate that is opened again finds one of them zero.

`OpenInv` compares the counters with the threads, in the direction that timeouts leave intact: `m_waiting`
is at most the tokens and the threads that leave, and, until `m_blocked` wraps, `m_waiting` and `m_blocked`
together are at most the threads that wait and, outside a signal, those gone. With `GateInv` it gives
`GateOpensAgain`, but for the last part, which is `Drained`.

`CountInv` holds until a wait that timed out leaves during a signal: `Counted` is `WakeUpsCounted` without its
premise, `Drained` says that there is no token to take back, and `~wrapped` is `SettledExactly`. `Counted` is what
proves `~wrapped`: `m_blocked - m_gone` is a number of threads, less those that tokens are meant for, of which there
are none when the gate is open. There is one lemma per group of actions over facts about cardinalities (`MemberCount`, how a
set of threads changes when one of them moves; `PromisedCount`, how the tokens promised do).

`WaitSetImplemented` follows step by step: by `Counted` the tokens are the threads not yet woken that `m_blocked`,
less `m_gone`, does not count, so a step shows when it changes that difference (`TokensMove`). A thread blocks only while
the gate is open; then `m_waiting` is zero and no token is left, which is why none can be meant for somebody
else. A wait that timed out gives up, in the abstract specification, when it leaves; the theorem covers it
unless it does so during a signal.

### Fifo

The assumptions are those of `Condition` and the types of the constants. `CallInv` ties the place of a call of the queue to the
place of its thread in `Condition`, from which each step of `Fifo` is one that `UseSpec` allows
(`ConditionUsed`); the invariants of `Condition` hold for that reason and are not proved again. `StrandedCorrect` has the
premise that is in the run: all wait without a timeout, or only one thread ever waits.
- Without timeouts, `WokenInv`: as long as a thread is blocked that nobody signalled, the tokens and the
  threads that will look at the queue, or are about to signal, are as many as the messages. `Counted` is what
  makes it inductive (without timeouts no wait leaves late): a signal that finds `m_blocked` zero meets nobody who is not signalled already.
- With one consumer, `SoleInv`: outside a signal `m_blocked` exceeds `m_gone` by one exactly while the
  consumer is counted, so a signal always finds it; while it is blocked beside a message a token or a signal
  is on its way. A timeout may leave a token over, which later wakes it for nothing; none is ever missing.

### Only model-checked

The liveness properties `PostedIsServed`, `StopCatches`, `FinishedIsReleased`, `UnInitializeReturns`,
`WaitingServed`, `DeadlineActedOn` and `JoinReturns` (liveness under fairness is beyond the prover), and the
violations. Every other property of the runs is a theorem.

## Not modelled

The read of the session map without a lock in `HEDriver::getSession` is a data race whose outcomes
cannot be enumerated; it is an atomic look-up here. Payload (URLs, cookies, post data, data callbacks) does
not influence the control flow that is modelled; a header or form field is present or absent.

Of the modelled classes: engine options and the hash that names requests; a `ThreadIf` that destroys
itself, and its Windows build, where `join` returns at once when the id is NULL; the Windows condition that is a
plain event; `forceState`, `setMetaState` and `clearMetaState` while events are processed, `setTimeout`
by the application, and message loops nested in a callback; copying a delegate, and its light build.

Of the other components: `LuaScriptEngine::update` holds the read lock of its list while scripts run;
what they do is decided in the Lua interpreter. `Log` and `Logger` format and write. `Urlcode` and the
charset conversion turn text into text without state.

About nine thousand lines of the repository are its own; the rest are libjson, CppUnit and the
headers of boost, curl, cppunit and json, third-party code that keeps most of the lines in `src/`. Nothing of it is
modelled, except for what `src/HttpEngine` uses of libcurl.
