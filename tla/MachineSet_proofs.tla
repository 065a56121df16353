------------------------- MODULE MachineSet_proofs --------------------------
(***************************************************************************)
(* The safety properties of MachineSet, for any machines, states,          *)
(* transitions, lists of machines and ways to use the set.                 *)
(*                                                                         *)
(* What makes them hold is where frames can be on the stack of the owner:  *)
(* process and the handler's timer only at its bottom, so that what is     *)
(* queued changes the list when no event is shown along it; and the        *)
(* callbacks that process no event at once only at its top, so that        *)
(* nothing happens to their machine before they return.                    *)
(***************************************************************************)
EXTENDS MachineSet, SequenceTheorems, TLAPS

Frame == Call \cup SetCall

\* No event is processed at once by the actions of a transition
NoNesting == use.direct \subseteq {"enter", "action"}

\* A frame that may be below others
Quiet(f) == /\ KeepsState => f.at # "internal"
            /\ NoNesting => f.at \notin {"exit", "transition"}

\* A frame wherever it is
Sound(f) == /\ f.at = "event" /\ f.event.targets # <<>> => f.i <= Len(f.event.targets)
            /\ KeepsState /\ f.at = "internal" => f.to = mCurrent[f.m]

\* Bottom frames are at the bottom, and what is not quiet at the top
Placed(s) == \A k \in DOMAIN s :
  /\ Sound(s[k])
  /\ s[k].at \in {"process", "timers", "timeout"} => k = 1
  /\ k # Len(s) => Quiet(s[k])

\* The machine that was left is the one at the top
LeftTop ==
  ~use.throws /\ NoNesting =>
    left = IF stack # <<>> /\ top.at \in {"exit", "transition"} THEN {top.m} ELSE {}

IInv == Placed(stack) /\ ListMatchesSet /\ CurrentWasEntered /\ DeadlineOfCurrent /\ LeftTop

--------------------------------------------------------------------------------
(***************************************************************************)
(* Frames.                                                                 *)
(***************************************************************************)
LEMMA FrameFields ==
  ASSUME NEW f \in Frame
  PROVE  /\ f.at \in Place \cup {"process", "timers", "timeout", "event"}
         /\ f.at \in Place => f \in Call /\ f.m \in Machines /\ f.to \in States
         /\ f.at \notin Place => f \in SetCall /\ f.i \in Nat
         /\ f.at = "event" => f.event \in Event
<1>1. CASE f \in Call
  BY <1>1 DEF Call, Place
<1>2. CASE f \in SetCall
  BY <1>2 DEF SetCall, Place
<1> QED
  BY <1>1, <1>2 DEF Frame

LEMMA CallMoves ==
  ASSUME NEW f \in Call, NEW place \in Place
  PROVE  LET g == [f EXCEPT !.at = place]
         IN  g \in Call /\ g.at = place /\ g.m = f.m /\ g.to = f.to /\ g.meta = f.meta
BY DEF Call

LEMMA EventMoves ==
  ASSUME NEW f \in Frame, f.at = "event", f.i > 0
  PROVE  LET g == [f EXCEPT !.i = f.i - 1]
         IN  g \in Frame /\ g.at = "event" /\ g.event = f.event /\ g.i = f.i - 1
BY FrameFields DEF Frame, SetCall, Place

LEMMA TimersMove ==
  ASSUME NEW f \in Frame, f.at \in {"process", "timers"}, NEW n \in Nat
  PROVE  /\ LET g == [f EXCEPT !.i = n] IN g \in Frame /\ g.at = f.at
         /\ LET g == [f EXCEPT !.at = "timers"] IN g \in Frame /\ g.at = "timers"
BY FrameFields DEF Frame, SetCall, Place

LEMMA TopFacts ==
  ASSUME stack \in Seq(Frame), stack # <<>>
  PROVE  /\ Len(stack) \in Nat \ {0}
         /\ DOMAIN stack = 1 .. Len(stack)
         /\ top \in Frame
         /\ popped = SubSeq(stack, 1, Len(stack) - 1)
BY EmptySeq DEF top, popped

\* Replacing the last frame
LEMMA PlacedReplace ==
  ASSUME NEW s \in Seq(Frame), s # <<>>, Placed(s), NEW f \in Frame, Sound(f),
         f.at \in {"process", "timers", "timeout"} => Len(s) = 1
  PROVE  LET r == [s EXCEPT ![Len(s)] = f]
         IN  r \in Seq(Frame) /\ r # <<>> /\ Placed(r) /\ Len(r) = Len(s) /\ r[Len(r)] = f
<1> DEFINE r == [s EXCEPT ![Len(s)] = f]
<1>1. Len(s) \in Nat \ {0}
  BY EmptySeq
<1>2. /\ r \in Seq(Frame) /\ Len(r) = Len(s)
      /\ \A j \in 1 .. Len(s) : r[j] = IF j = Len(s) THEN f ELSE s[j]
  BY <1>1, ExceptSeq
<1>3. DOMAIN r = 1 .. Len(s) /\ DOMAIN s = 1 .. Len(s)
  BY <1>2, LenProperties
<1> HIDE DEF r
<1>4. Placed(r)
  BY <1>1, <1>2, <1>3 DEF Placed
<1> QED
  BY <1>1, <1>2, <1>4 DEF r

\* Calling on top of quiet frames
LEMMA PlacedAppend ==
  ASSUME NEW s \in Seq(Frame), Placed(s), s # <<>> => Quiet(s[Len(s)]),
         NEW f \in Frame, Sound(f),
         f.at \in {"process", "timers", "timeout"} => s = <<>>
  PROVE  LET r == Append(s, f)
         IN  r \in Seq(Frame) /\ r # <<>> /\ Placed(r) /\ r[Len(r)] = f
<1> DEFINE r == Append(s, f)
<1>1. /\ Len(s) \in Nat /\ DOMAIN s = 1 .. Len(s)
      /\ s = <<>> => Len(s) = 0
  BY LenProperties
<1>2. /\ r \in Seq(Frame) /\ Len(r) = Len(s) + 1 /\ DOMAIN r = 1 .. Len(r)
      /\ \A j \in 1 .. Len(s) : r[j] = s[j]
      /\ r[Len(r)] = f
  BY <1>1
<1> HIDE DEF r
<1>3. Placed(r)
  <2> SUFFICES ASSUME NEW k \in DOMAIN r
               PROVE  /\ Sound(r[k])
                      /\ r[k].at \in {"process", "timers", "timeout"} => k = 1
                      /\ k # Len(r) => Quiet(r[k])
    BY DEF Placed
  <2>1. CASE k = Len(r)
    BY <1>1, <1>2, <2>1
  <2>2. CASE k # Len(r)
    <3>1. k \in 1 .. Len(s) /\ r[k] = s[k] /\ s # <<>>
      BY <1>1, <1>2, <2>2
    <3> QED
      BY <1>1, <2>2, <3>1 DEF Placed
  <2> QED
    BY <2>1, <2>2
<1> QED
  BY <1>1, <1>2, <1>3 DEF r

\* Returning, from one frame or several
LEMMA PlacedSubSeq ==
  ASSUME NEW s \in Seq(Frame), Placed(s), NEW n \in Nat, n < Len(s)
  PROVE  LET r == SubSeq(s, 1, n)
         IN  /\ r \in Seq(Frame) /\ Placed(r)
             /\ \A k \in DOMAIN r : Quiet(r[k])
             /\ r # <<>> => Quiet(r[Len(r)])
<1> DEFINE r == SubSeq(s, 1, n)
<1>1. Len(s) \in Nat /\ DOMAIN s = 1 .. Len(s) /\ \A k \in 1 .. n : s[k] \in Frame
  BY LenProperties, ElementOfSeq
<1>2. r \in Seq(Frame) /\ Len(r) = n /\ \A k \in 1 .. n : r[k] = s[k]
  BY <1>1, SubSeqProperties
<1>3. DOMAIN r = 1 .. n /\ (r # <<>> => n \in 1 .. n)
  BY <1>2, LenProperties, EmptySeq
<1> HIDE DEF r
<1>4. Placed(r) /\ \A k \in DOMAIN r : Quiet(r[k])
  BY <1>1, <1>2, <1>3 DEF Placed
<1> QED
  BY <1>2, <1>3, <1>4 DEF r

\* Placed speaks of states that a step leaves alone.
LEMMA PlacedKept ==
  ASSUME Placed(stack'), UNCHANGED use,
         \/ mCurrent' = mCurrent
         \/ \A k \in DOMAIN stack' : KeepsState => stack'[k].at # "internal"
  PROVE  Placed(stack)'
BY DEF Placed, Sound, Quiet, KeepsState, NoNesting

--------------------------------------------------------------------------------
(***************************************************************************)
(* Processing an event.                                                    *)
(***************************************************************************)
LEMMA MatchFacts ==
  ASSUME NEW s \in States, NEW kind, NEW t \in firstMatch(s, kind)
  PROVE  /\ t.to \in States
         /\ t.internal => t.to = s
         /\ \E i \in DOMAIN mTransitions[s] : t = mTransitions[s][i]
<1>1. PICK i \in DOMAIN mTransitions[s] : t = mTransitions[s][i]
  BY DEF firstMatch
<1>2. mTransitions[s] \in Seq([on : Kinds, to : States, internal : BOOLEAN])
  BY StateMachineAssumption
<1>3. mTransitions[s][i] \in [on : Kinds, to : States, internal : BOOLEAN]
  BY <1>2, LenProperties, ElementOfSeq
<1>4. mTransitions[s][i].internal => mTransitions[s][i].to = s
  BY StateMachineAssumption
<1> QED
  BY <1>1, <1>3, <1>4

\* What processing calls; the callback of an internal transition belongs to the
\* current state.
LEMMA CallFacts ==
  ASSUME MachineTypeOK, NEW m \in Machines, NEW kind, NEW call \in callsFor(m, kind)
  PROVE  /\ call \in Call /\ call.m = m
         /\ call.at \in {"exit", "internal", "action"}
         /\ KeepsState /\ call.at = "internal" => call.to = mCurrent[m]
<1>1. CASE m \in ActionMachines
  <2>1. call = [at |-> "action", m |-> m, to |-> Start, meta |-> FALSE]
    BY <1>1 DEF callsFor
  <2>2. Start \in States
    BY StateMachineAssumption
  <2> QED
    BY <2>1, <2>2 DEF Call, Place
<1>2. CASE m \notin ActionMachines /\ firstMatch(mCurrent[m], kind) # {}
  <2>1. PICK t \in firstMatch(mCurrent[m], kind) : call = beginning(m, t, FALSE)
    BY <1>2 DEF callsFor
  <2>2. t.to \in States /\ (t.internal => t.to = mCurrent[m])
    BY MatchFacts DEF MachineTypeOK
  <2> QED
    BY <2>1, <2>2 DEF beginning, Call, Place
<1>3. CASE m \notin ActionMachines /\ firstMatch(mCurrent[m], kind) = {}
  <2>1. PICK t \in metaMatch(kind) : call = beginning(m, t, TRUE)
    BY <1>3 DEF callsFor
  <2>2. mMetaState # NoState /\ mMetaState \in States /\ t \in firstMatch(mMetaState, kind)
    BY StateMachineAssumption DEF metaMatch
  <2>3. t.to \in States /\ (KeepsState => ~t.internal)
    BY <2>2, MatchFacts DEF KeepsState
  <2> QED
    BY <2>1, <2>3 DEF beginning, Call, Place
<1> QED
  BY <1>1, <1>2, <1>3

\* The frames stay where they belong, and the machine that is left is at the top.
LEMMA ProcessKeeps ==
  ASSUME MachineTypeOK, NEW m \in mMachinesSet, m \in Machines, NEW kind,
         NEW below \in Seq(Frame), Placed(below),
         below # <<>> => Quiet(below[Len(below)]) /\ below[Len(below)].at \notin Place,
         ~use.throws /\ NoNesting => left = {},
         process(m, kind, below), UNCHANGED <<mCurrent, setVars, use>>
  PROVE  stack' \in Seq(Frame) /\ left' \subseteq Machines /\ Placed(stack)' /\ LeftTop'
<1>1. CASE stack' = below /\ left' = left
  <2>1. Placed(stack)'
    BY <1>1, PlacedKept
  <2>2. LeftTop'
    <3>1. stack' # <<>> => top' = below[Len(below)]
      BY <1>1 DEF top
    <3> QED
      BY <1>1, <3>1 DEF LeftTop, NoNesting, Place
  <2> QED
    BY <1>1, <2>1, <2>2 DEF MachineTypeOK
<1>2. ASSUME NEW call \in callsFor(m, kind), stack' = Append(below, call),
             left' = IF call.at = "exit" THEN left \cup {m} ELSE left
      PROVE  stack' \in Seq(Frame) /\ left' \subseteq Machines /\ Placed(stack)' /\ LeftTop'
  <2>1. /\ call \in Frame /\ call.m = m
        /\ call.at \in {"exit", "internal", "action"}
        /\ Sound(call)
    BY CallFacts DEF Sound, Frame
  <2>2. /\ stack' \in Seq(Frame) /\ stack' # <<>> /\ Placed(stack')
        /\ top' = call
    BY <1>2, <2>1, PlacedAppend DEF top
  <2>3. Placed(stack)'
    BY <2>2, PlacedKept
  <2>4. LeftTop'
    BY <1>2, <2>1, <2>2 DEF LeftTop, NoNesting
  <2> QED
    BY <1>2, <2>2, <2>3, <2>4 DEF MachineTypeOK
<1> QED
  BY <1>1, <1>2 DEF process

--------------------------------------------------------------------------------
(***************************************************************************)
(* The list of machines.                                                   *)
(***************************************************************************)
LEMMA AddKeepsList ==
  ASSUME mMachines \in Seq(Machines), mMachinesSet \subseteq Machines, ListMatchesSet,
         NEW m \in Machines, addMachine(m)
  PROVE  mMachines' \in Seq(Machines) /\ mMachinesSet' \subseteq Machines /\ ListMatchesSet'
<1>1. CASE m \in mMachinesSet
  BY <1>1 DEF addMachine, ListMatchesSet
<1>2. CASE m \notin mMachinesSet
  <2>1. /\ Len(mMachines) \in Nat /\ DOMAIN mMachines = 1 .. Len(mMachines)
        /\ mMachines' = Append(mMachines, m) /\ mMachinesSet' = mMachinesSet \cup {m}
    BY <1>2, LenProperties DEF addMachine
  <2>2. /\ mMachines' \in Seq(Machines) /\ DOMAIN mMachines' = 1 .. (Len(mMachines) + 1)
        /\ \A i \in 1 .. Len(mMachines) : mMachines'[i] = mMachines[i]
        /\ mMachines'[Len(mMachines) + 1] = m
    BY <2>1
  <2>3. \A i \in DOMAIN mMachines : mMachines[i] # m
    BY <1>2 DEF ListMatchesSet, ToSet
  <2>4. ToSet(mMachines') = mMachinesSet'
    BY <2>1, <2>2 DEF ListMatchesSet, ToSet
  <2>5. IsInjective(mMachines')
    BY <2>1, <2>2, <2>3 DEF ListMatchesSet, IsInjective
  <2> QED
    BY <2>1, <2>2, <2>4, <2>5 DEF ListMatchesSet
<1> QED
  BY <1>1, <1>2

LEMMA RemoveKeepsList ==
  ASSUME mMachines \in Seq(Machines), mMachinesSet \subseteq Machines, ListMatchesSet,
         NEW m \in Machines, removeMachine(m)
  PROVE  mMachines' \in Seq(Machines) /\ mMachinesSet' \subseteq Machines /\ ListMatchesSet'
<1>1. CASE m \notin mMachinesSet
  BY <1>1 DEF removeMachine, ListMatchesSet
<1>2. CASE m \in mMachinesSet
  <2> DEFINE n == Len(mMachines)
  <2>1. n \in Nat /\ DOMAIN mMachines = 1 .. n /\ \A j \in 1 .. n : mMachines[j] \in Machines
    BY LenProperties, ElementOfSeq
  <2>2. PICK i \in 1 .. n : mMachines[i] = m /\ mMachines' = RemoveAt(mMachines, i)
    BY <1>2, <2>1 DEF removeMachine
  <2> DEFINE before == SubSeq(mMachines, 1, i - 1)
             after  == SubSeq(mMachines, i + 1, n)
  <2>3. /\ before \in Seq(Machines) /\ Len(before) = i - 1
        /\ \A j \in 1 .. (i - 1) : before[j] = mMachines[j]
    <3>1. \A j \in 1 .. (i - 1) : mMachines[j] \in Machines
      BY <2>1
    <3> QED
      BY <2>1, <3>1, SubSeqProperties
  <2>4. /\ after \in Seq(Machines) /\ Len(after) = n - i
        /\ \A j \in 1 .. (n - i) : after[j] = mMachines[i + j]
    <3>1. i + 1 \in Int /\ n \in Int /\ \A j \in (i + 1) .. n : mMachines[j] \in Machines
      BY <2>1
    <3>2. /\ after \in Seq(Machines)
          /\ Len(after) = IF i + 1 <= n THEN n - (i + 1) + 1 ELSE 0
          /\ \A j \in 1 .. (n - (i + 1) + 1) : after[j] = mMachines[(i + 1) + j - 1]
      BY <3>1, SubSeqProperties
    <3> HIDE DEF after, n
    <3>3. n - (i + 1) + 1 = n - i /\ (~(i + 1 <= n) => n - i = 0)
      BY <2>1
    <3>4. \A j \in 1 .. (n - i) : (i + 1) + j - 1 = i + j
      BY <2>1
    <3> QED
      BY <3>2, <3>3, <3>4
  <2>5. mMachines' = before \o after
    BY <2>2 DEF RemoveAt
  <2> HIDE DEF before, after, n
  <2>6. /\ mMachines' \in Seq(Machines) /\ DOMAIN mMachines' = 1 .. (n - 1)
        /\ \A j \in 1 .. (n - 1) :
             mMachines'[j] = IF j < i THEN mMachines[j] ELSE mMachines[j + 1]
    <3>1. /\ mMachines' \in Seq(Machines) /\ Len(mMachines') = Len(before) + Len(after)
          /\ \A j \in 1 .. (Len(before) + Len(after)) :
               mMachines'[j] = IF j <= Len(before) THEN before[j] ELSE after[j - Len(before)]
      BY <2>3, <2>4, <2>5, ConcatProperties
    <3>2. Len(before) + Len(after) = n - 1
      BY <2>1, <2>3, <2>4
    <3>3. ASSUME NEW j \in 1 .. (n - 1)
          PROVE  mMachines'[j] = IF j < i THEN mMachines[j] ELSE mMachines[j + 1]
      <4>1. CASE j < i
        BY <2>1, <2>3, <3>1, <3>2, <4>1
      <4>2. CASE j >= i
        <5>1. j - Len(before) \in 1 .. (n - i) /\ i + (j - Len(before)) = j + 1
          BY <2>1, <2>3, <4>2
        <5>2. j \in 1 .. (Len(before) + Len(after)) /\ ~(j <= Len(before))
          BY <2>1, <2>3, <3>2, <4>2
        <5>3. mMachines'[j] = after[j - Len(before)]
          BY <3>1, <5>2
        <5> QED
          BY <2>1, <2>4, <4>2, <5>1, <5>3
      <4> QED
        BY <2>1, <4>1, <4>2
    <3> QED
      BY <3>1, <3>2, <3>3, LenProperties
  <2>7. IsInjective(mMachines')
    <3> SUFFICES ASSUME NEW a \in 1 .. (n - 1), NEW b \in 1 .. (n - 1),
                        mMachines'[a] = mMachines'[b]
                 PROVE  a = b
      BY <2>6 DEF IsInjective
    <3> DEFINE old(j) == IF j < i THEN j ELSE j + 1
    <3>1. /\ old(a) \in 1 .. n /\ mMachines'[a] = mMachines[old(a)]
          /\ old(b) \in 1 .. n /\ mMachines'[b] = mMachines[old(b)]
      BY <2>1, <2>6
    <3>2. old(a) = old(b)
      BY <2>1, <3>1 DEF ListMatchesSet, IsInjective
    <3> QED
      BY <2>1, <3>2
  <2>8. ToSet(mMachines') = ToSet(mMachines) \ {m}
    <3>1. ASSUME NEW j \in DOMAIN mMachines'
          PROVE  mMachines'[j] \in ToSet(mMachines) \ {m}
      <4>1. PICK k \in 1 .. n : k # i /\ mMachines'[j] = mMachines[k]
        BY <2>1, <2>6
      <4>2. mMachines[k] # m
        BY <2>1, <2>2, <4>1 DEF ListMatchesSet, IsInjective
      <4> QED
        BY <2>1, <4>1, <4>2 DEF ToSet
    <3>2. ASSUME NEW k \in DOMAIN mMachines, mMachines[k] # m
          PROVE  \E j \in DOMAIN mMachines' : mMachines'[j] = mMachines[k]
      <4>1. k \in 1 .. n /\ k # i
        BY <2>1, <2>2, <3>2
      <4>2. CASE k < i
        BY <2>1, <2>6, <4>1, <4>2
      <4>3. CASE k > i
        <5>1. k - 1 \in 1 .. (n - 1) /\ ~(k - 1 < i) /\ (k - 1) + 1 = k
          BY <2>1, <4>1, <4>3
        <5> QED
          BY <2>6, <5>1
      <4> QED
        BY <2>1, <4>1, <4>2, <4>3
    <3> QED
      BY <3>1, <3>2 DEF ToSet
  <2> QED
    BY <1>2, <2>6, <2>7, <2>8 DEF ListMatchesSet, removeMachine
<1> QED
  BY <1>1, <1>2

--------------------------------------------------------------------------------
(***************************************************************************)
(* What several actions have in common.                                    *)
(***************************************************************************)
\* No machine changes its state.
LEMMA MachinesKept ==
  ASSUME MachineTypeOK, CurrentWasEntered, DeadlineOfCurrent, left' \subseteq Machines,
         UNCHANGED <<mCurrent, mPrevious, entered, use>>,
         \/ mTimeoutMS' = mTimeoutMS
         \/ \E m \in Machines : clearsDeadline(m)
  PROVE  MachineTypeOK' /\ CurrentWasEntered' /\ DeadlineOfCurrent'
<1>1. KeepsState' <=> KeepsState
  BY DEF KeepsState
<1>2. CurrentWasEntered'
  BY <1>1 DEF CurrentWasEntered
<1>3. CASE mTimeoutMS' = mTimeoutMS
  BY <1>1, <1>2, <1>3 DEF MachineTypeOK, DeadlineOfCurrent
<1>4. ASSUME NEW m \in Machines, clearsDeadline(m)
      PROVE  MachineTypeOK' /\ CurrentWasEntered' /\ DeadlineOfCurrent'
  <2>1. MachineTypeOK'
    BY <1>4 DEF MachineTypeOK, clearsDeadline
  <2>2. DeadlineOfCurrent'
    BY <1>1, <1>4 DEF DeadlineOfCurrent, MachineTypeOK, clearsDeadline
  <2> QED
    BY <1>2, <2>1, <2>2
<1> QED
  BY <1>3, <1>4

\* Calls return, one or several.
LEMMA ReturnKeeps ==
  ASSUME stack \in Seq(Frame), Placed(stack), LeftTop, NEW n \in Nat, n < Len(stack),
         stack' = SubSeq(stack, 1, n), UNCHANGED <<left, setVars, use>>,
         use.throws \/ top.at \notin {"exit", "transition"}
  PROVE  stack' \in Seq(Frame) /\ Placed(stack)' /\ LeftTop'
<1>1. /\ stack' \in Seq(Frame) /\ Placed(stack')
      /\ \A k \in DOMAIN stack' : Quiet(stack'[k])
      /\ stack' # <<>> => Quiet(stack'[Len(stack')])
  BY PlacedSubSeq
<1>2. Placed(stack)'
  BY <1>1, PlacedKept DEF Quiet
<1>3. LeftTop'
  BY <1>1 DEF LeftTop, Quiet, NoNesting, top
<1> QED
  BY <1>1, <1>2, <1>3

LEMMA PopKeeps ==
  ASSUME stack \in Seq(Frame), Placed(stack), LeftTop, stack # <<>>, stack' = popped,
         UNCHANGED <<left, setVars, use>>, top.at \notin {"exit", "transition"}
  PROVE  stack' \in Seq(Frame) /\ Placed(stack)' /\ LeftTop'
<1>1. Len(stack) - 1 \in Nat /\ Len(stack) - 1 < Len(stack)
  BY TopFacts
<1> QED
  BY <1>1, ReturnKeeps DEF popped

\* The owner begins to carry out an event, alone, within process or in a callback
\* that may do so.
MayProcess ==
  \/ stack = <<>>
  \/ Running("process")
  \/ InCallback /\ top.at \in use.direct

LEMMA ProcessEventKeeps ==
  ASSUME TypeOK, IInv, NEW e \in Event, MayProcess, processEvent(e, stack),
         UNCHANGED <<machineVars, use>>
  PROVE  /\ stack' \in Seq(Frame) /\ Placed(stack)' /\ LeftTop'
         /\ mMachines' \in Seq(Machines) /\ mMachinesSet' \subseteq Machines
         /\ ListMatchesSet'
<1> USE DEF Frame
<1>1. stack \in Seq(Frame) /\ mMachines \in Seq(Machines) /\ mMachinesSet \subseteq Machines
  BY DEF TypeOK
<1>2. Placed(stack) /\ ListMatchesSet /\ LeftTop
  BY DEF IInv
<1>3. CASE e.kind \notin Kinds
  <2>1. /\ stack' = stack
        /\ addMachine(e.targets[1]) \/ removeMachine(e.targets[1])
        /\ e.targets[1] \in Machines
    BY <1>3 DEF processEvent, Event
  <2>4. Placed(stack)'
    BY <1>2, <2>1, PlacedKept DEF machineVars
  <2>5. LeftTop'
    BY <1>2, <2>1 DEF LeftTop, NoNesting, top, machineVars
  <2> QED
    BY <1>1, <1>2, <2>1, <2>4, <2>5, AddKeepsList, RemoveKeepsList
<1>4. CASE e.kind \in Kinds
  <2> DEFINE f == [at |-> "event", event |-> e,
                   i |-> IF e.targets = <<>> THEN Len(mMachines) ELSE Len(e.targets)]
  <2>0. UNCHANGED setVars /\ stack' = Append(stack, f) /\ e.targets \in Targets
    BY <1>4, MachineSetAssumption DEF processEvent, Event
  <2>1. f \in Frame /\ Sound(f) /\ f.at = "event"
    <3>1. e.targets \in Seq(Machines)
      BY <2>0, MachineSetAssumption
    <3>2. f.i \in Nat
      BY <1>1, <3>1, LenProperties
    <3>3. f \in SetCall
      BY <3>2 DEF SetCall
    <3> QED
      BY <3>1, <3>3, LenProperties DEF Sound, Place
  <2>2. /\ stack # <<>> => Quiet(top)
        /\ ~use.throws /\ NoNesting => left = {}
    BY <1>2 DEF MayProcess, Running, InCallback, Quiet, KeepsState, NoNesting, LeftTop
  <2>3. stack' \in Seq(Frame) /\ stack' # <<>> /\ Placed(stack') /\ top' = f
    BY <1>1, <1>2, <2>0, <2>1, <2>2, PlacedAppend DEF top
  <2>4. Placed(stack)'
    BY <2>0, <2>3, PlacedKept DEF machineVars
  <2>5. LeftTop'
    BY <2>1, <2>2, <2>3 DEF LeftTop, NoNesting, machineVars
  <2> QED
    BY <1>1, <1>2, <2>0, <2>3, <2>4, <2>5 DEF setVars, ListMatchesSet
<1> QED
  BY <1>3, <1>4

--------------------------------------------------------------------------------
(***************************************************************************)
(* The invariant, action by action.                                        *)
(***************************************************************************)
\* What is left to show of an action that leaves the machines and the list alone
LEMMA StackStep ==
  ASSUME TypeOK, IInv,
         stack' \in Seq(Frame), left' \subseteq Machines, Placed(stack)', LeftTop',
         UNCHANGED <<mCurrent, mPrevious, entered, setVars, queueVars, handlerTimers, use>>,
         \/ mTimeoutMS' = mTimeoutMS
         \/ \E m \in Machines : clearsDeadline(m)
  PROVE  TypeOK' /\ IInv'
<1>1. MachineTypeOK' /\ CurrentWasEntered' /\ DeadlineOfCurrent'
  BY MachinesKept DEF TypeOK, IInv
<1>2. ListMatchesSet'
  BY DEF IInv, ListMatchesSet, setVars
<1> QED
  BY <1>1, <1>2 DEF TypeOK, IInv, Frame, setVars, queueVars

LEMMA ReturnSteps ==
  ASSUME TypeOK, IInv,
         eventEnds \/ timersEnd \/ timeoutEnds \/ callbackThrows
           \/ (enterReturns /\ UNCHANGED <<setVars, queueVars, handlerTimers, use>>)
  PROVE  TypeOK' /\ IInv'
<1>1. stack \in Seq(Frame) /\ Placed(stack) /\ LeftTop /\ left \subseteq Machines
  BY DEF TypeOK, IInv, Frame, MachineTypeOK
<1>2. /\ UNCHANGED <<mCurrent, mPrevious, entered, left, mTimeoutMS>>
      /\ UNCHANGED <<setVars, queueVars, handlerTimers, use>>
  BY DEF eventEnds, timersEnd, timeoutEnds, callbackThrows, enterReturns, machineVars
<1>3. CASE callbackThrows
  <2>1. PICK n \in Nat : n < Len(stack) /\ stack' = SubSeq(stack, 1, n)
    <3>1. stack # <<>> /\ Len(stack) \in Nat \ {0} /\ DOMAIN stack = 1 .. Len(stack)
      BY <1>1, <1>3, TopFacts DEF callbackThrows, InCallback
    <3>2. CASE stack' = <<>>
      BY <3>1, <3>2, SubSeqEmpty
    <3>3. ASSUME NEW k \in catching, stack' = SubSeq(stack, 1, k - 1)
          PROVE  k - 1 \in Nat /\ k - 1 < Len(stack) /\ stack' = SubSeq(stack, 1, k - 1)
      BY <3>1, <3>3 DEF catching
    <3> QED
      BY <1>3, <3>2, <3>3 DEF callbackThrows
  <2>2. stack' \in Seq(Frame) /\ Placed(stack)' /\ LeftTop'
    BY <1>1, <1>2, <1>3, <2>1, ReturnKeeps DEF callbackThrows
  <2> QED
    BY <1>1, <1>2, <2>2, StackStep
<1>4. CASE eventEnds \/ timersEnd \/ timeoutEnds \/ enterReturns
  <2>1. /\ stack # <<>> /\ stack' = popped
        /\ top.at \notin {"exit", "transition"}
    BY <1>4 DEF eventEnds, timersEnd, timeoutEnds, enterReturns, Running
  <2>2. stack' \in Seq(Frame) /\ Placed(stack)' /\ LeftTop'
    BY <1>1, <1>2, <2>1, PopKeeps
  <2> QED
    BY <1>1, <1>2, <2>2, StackStep
<1> QED
  BY <1>3, <1>4

LEMMA ProcessSteps ==
  ASSUME TypeOK, IInv, processBegins \/ queueEmpty
  PROVE  TypeOK' /\ IInv'
<1>1. stack \in Seq(Frame) /\ Placed(stack) /\ LeftTop /\ left \subseteq Machines
  BY DEF TypeOK, IInv, Frame, MachineTypeOK
<1>2. /\ UNCHANGED <<mCurrent, mPrevious, entered, left, mTimeoutMS>>
      /\ UNCHANGED <<setVars, queueVars, handlerTimers, use>>
  BY DEF processBegins, queueEmpty, machineVars
<1>3. CASE processBegins
  <2> DEFINE f == [at |-> "process", i |-> 1]
  <2>1. f \in Frame /\ Sound(f)
    BY DEF Frame, SetCall, Sound, Place
  <2>2. stack = <<>> /\ stack' = Append(<<>>, f)
    BY <1>3 DEF processBegins, Idle
  <2>3. stack' \in Seq(Frame) /\ Placed(stack') /\ top' = f
    BY <1>1, <2>1, <2>2, PlacedAppend DEF top
  <2>4. Placed(stack)' /\ LeftTop'
    BY <1>1, <1>2, <2>2, <2>3, PlacedKept DEF LeftTop, NoNesting
  <2> QED
    BY <1>1, <1>2, <2>3, <2>4, StackStep
<1>4. CASE queueEmpty /\ stack' = popped
  <2>1. stack # <<>> /\ top.at \notin {"exit", "transition"}
    BY <1>4 DEF queueEmpty, Running
  <2>2. stack' \in Seq(Frame) /\ Placed(stack)' /\ LeftTop'
    BY <1>1, <1>2, <1>4, <2>1, PopKeeps
  <2> QED
    BY <1>1, <1>2, <2>2, StackStep
<1>5. CASE queueEmpty /\ stack' = [stack EXCEPT ![Len(stack)].at = "timers"]
  <2> DEFINE f == [top EXCEPT !.at = "timers"]
  <2>1. stack # <<>> /\ top \in Frame /\ top.at = "process" /\ top = stack[Len(stack)]
    BY <1>1, <1>5, TopFacts DEF queueEmpty, Running, top
  <2>2. f \in Frame /\ f.at = "timers"
    BY <2>1, TimersMove
  <2>3. Sound(f) /\ Len(stack) = 1
    BY <1>1, <2>1, <2>2, TopFacts DEF Sound, Place, Placed
  <2>4. stack' = [stack EXCEPT ![Len(stack)] = f]
    BY <1>5, <2>1
  <2> HIDE DEF f
  <2>5. stack' \in Seq(Frame) /\ stack' # <<>> /\ Placed(stack') /\ top' = f
    BY <1>1, <2>1, <2>2, <2>3, <2>4, PlacedReplace DEF top
  <2>6. Placed(stack)' /\ LeftTop'
    BY <1>1, <1>2, <2>1, <2>2, <2>5, PlacedKept DEF LeftTop, NoNesting
  <2> QED
    BY <1>1, <1>2, <2>5, <2>6, StackStep
<1> QED
  BY <1>3, <1>4, <1>5 DEF queueEmpty

LEMMA EventNextStep ==
  ASSUME TypeOK, IInv, eventNext
  PROVE  TypeOK' /\ IInv'
<1>1. /\ stack \in Seq(Frame) /\ Placed(stack) /\ LeftTop /\ left \subseteq Machines
      /\ mMachines \in Seq(Machines) /\ MachineTypeOK
  BY DEF TypeOK, IInv, Frame, MachineTypeOK
<1>2. /\ stack # <<>> /\ top.at = "event" /\ top \in Frame /\ top.i > 0
      /\ top = stack[Len(stack)] /\ Len(stack) \in Nat \ {0} /\ DOMAIN stack = 1 .. Len(stack)
  BY <1>1, TopFacts DEF eventNext, Running, top
<1>3. UNCHANGED <<mCurrent, mPrevious, mTimeoutMS, entered, setVars, queueVars, handlerTimers, use>>
  BY DEF eventNext
<1> DEFINE f == [top EXCEPT !.i = top.i - 1]
           below == [stack EXCEPT ![Len(stack)].i = stack[Len(stack)].i - 1]
<1>4. /\ Sound(top) /\ top.event \in Event /\ top.i \in Nat
      /\ top.event.targets = <<>> => top.i <= Len(mMachines)
      /\ top.event.targets # <<>> => top.i <= Len(top.event.targets)
  BY <1>1, <1>2, FrameFields DEF Placed, Sound, Place, eventNext
<1>5. f \in Frame /\ f.at = "event" /\ f.event = top.event /\ f.i = top.i - 1
  BY <1>2, EventMoves
<1>6. Sound(f)
  <2>1. Len(top.event.targets) \in Nat
    BY <1>4, MachineSetAssumption, LenProperties DEF Event
  <2> QED
    BY <1>4, <1>5, <2>1 DEF Sound, Place
<1>7. below = [stack EXCEPT ![Len(stack)] = f]
  BY <1>2
<1> HIDE DEF below, f
<1>8. /\ below \in Seq(Frame) /\ below # <<>> /\ Placed(below)
      /\ below[Len(below)] = f
  BY <1>1, <1>2, <1>5, <1>6, <1>7, PlacedReplace
<1>9. comesTo(top) \in Machines
  <2>1. CASE top.event.targets = <<>>
    <3>1. top.i \in 1 .. Len(mMachines)
      BY <1>1, <1>2, <1>4, <2>1, LenProperties
    <3> QED
      BY <1>1, <2>1, <3>1, ElementOfSeq DEF comesTo
  <2>2. CASE top.event.targets # <<>>
    <3>1. top.event.targets \in Seq(Machines)
      <4>1. top.event.targets \in Targets \/ \E m \in Machines : top.event.targets = <<m>>
        BY <1>4 DEF Event
      <4>2. Targets \subseteq Seq(Machines) /\ \A m \in Machines : <<m>> \in Seq(Machines)
        BY MachineSetAssumption
      <4> QED
        BY <4>1, <4>2
    <3>2. Len(top.event.targets) + 1 - top.i \in 1 .. Len(top.event.targets)
      BY <1>2, <1>4, <2>2, <3>1, LenProperties
    <3> QED
      BY <2>2, <3>1, <3>2, ElementOfSeq DEF comesTo
  <2> QED
    BY <2>1, <2>2
<1>10. ~use.throws /\ NoNesting => left = {}
  BY <1>1, <1>2 DEF LeftTop
<1>11. Quiet(f)
  BY <1>5 DEF Quiet
<1>12. show(comesTo(top), top.event.kind, below)
  BY DEF eventNext, below
<1>13. stack' \in Seq(Frame) /\ left' \subseteq Machines /\ Placed(stack)' /\ LeftTop'
  <2>1. CASE comesTo(top) \in mMachinesSet
    <3>1. process(comesTo(top), top.event.kind, below)
      BY <1>12, <2>1 DEF show
    <3>2. below[Len(below)].at \notin Place
      BY <1>5, <1>8 DEF Place
    <3> QED
      BY <1>1, <1>3, <1>8, <1>9, <1>10, <1>11, <2>1, <3>1, <3>2, ProcessKeeps
  <2>2. CASE comesTo(top) \notin mMachinesSet
    <3>1. stack' = below /\ left' = left
      BY <1>12, <2>2 DEF show
    <3>2. Placed(stack)' /\ top' = f
      BY <1>3, <1>8, <3>1, PlacedKept DEF top
    <3>3. LeftTop'
      BY <1>3, <1>5, <1>10, <3>1, <3>2 DEF LeftTop, NoNesting
    <3> QED
      BY <1>1, <1>8, <3>1, <3>2, <3>3
  <2> QED
    BY <2>1, <2>2
<1> QED
  BY <1>3, <1>13, StackStep

LEMMA TimerFiresStep ==
  ASSUME TypeOK, IInv, NEW m \in Machines, timerFires(m)
  PROVE  TypeOK' /\ IInv'
<1>1. /\ stack \in Seq(Frame) /\ Placed(stack) /\ LeftTop /\ left \subseteq Machines
      /\ mMachines \in Seq(Machines) /\ MachineTypeOK /\ ListMatchesSet
  BY DEF TypeOK, IInv, Frame, MachineTypeOK
<1>2. /\ stack # <<>> /\ top.at = "timers" /\ top \in Frame /\ top.i \in Nat
      /\ top = stack[Len(stack)] /\ Len(stack) = 1
  <2>1. /\ stack # <<>> /\ top.at = "timers" /\ top \in Frame
        /\ top = stack[Len(stack)] /\ Len(stack) \in DOMAIN stack
    BY <1>1, TopFacts DEF timerFires, Running, top
  <2>2. top.i \in Nat
    BY <2>1, FrameFields DEF Place
  <2> QED
    BY <1>1, <2>1, <2>2 DEF Placed
<1>3. UNCHANGED <<mCurrent, mPrevious, entered, setVars, queueVars, handlerTimers, use>>
  BY DEF timerFires
<1> DEFINE below(i) == [stack EXCEPT ![Len(stack)].i = i + 1]
<1>4. PICK i \in DOMAIN mMachines :
        mMachines[i] = m /\ process(m, TimeoutKind, below(i))
  BY DEF timerFires
<1> DEFINE f == [top EXCEPT !.i = i + 1]
<1>5. i + 1 \in Nat
  BY <1>1, <1>2, LenProperties
<1>6. f \in Frame /\ f.at = "timers"
  BY <1>2, <1>5, TimersMove
<1>7. below(i) = [stack EXCEPT ![Len(stack)] = f]
  BY <1>2
<1>8. m \in mMachinesSet
  BY <1>1, <1>4 DEF ListMatchesSet, ToSet
<1> HIDE DEF f, below
<1>9. Sound(f) /\ Quiet(f) /\ f.at \notin Place
  BY <1>6 DEF Sound, Quiet, Place
<1>10. /\ below(i) \in Seq(Frame) /\ below(i) # <<>> /\ Placed(below(i))
       /\ below(i)[Len(below(i))] = f
  <2>1. Placed(stack) /\ stack \in Seq(Frame) /\ stack # <<>> /\ Len(stack) = 1
    BY <1>1, <1>2
  <2>2. LET r == [stack EXCEPT ![Len(stack)] = f]
        IN  r \in Seq(Frame) /\ r # <<>> /\ Placed(r) /\ Len(r) = Len(stack) /\ r[Len(r)] = f
    BY ONLY <1>6, <1>9, <2>1, PlacedReplace
  <2> QED
    BY <1>7, <2>2
<1>11. ~use.throws /\ NoNesting => left = {}
  BY <1>1, <1>2 DEF LeftTop
<1>12. stack' \in Seq(Frame) /\ left' \subseteq Machines /\ Placed(stack)' /\ LeftTop'
  BY <1>1, <1>3, <1>4, <1>8, <1>9, <1>10, <1>11, ProcessKeeps
<1>13. clearsDeadline(m)
  BY DEF timerFires
<1> QED
  BY <1>3, <1>12, <1>13, StackStep

LEMMA HandlerTimerStep ==
  ASSUME TypeOK, IInv, handlerTimerFires
  PROVE  TypeOK' /\ IInv'
<1>1. /\ stack = <<>> /\ LeftTop /\ Placed(stack) /\ left \subseteq Machines /\ MachineTypeOK
  BY DEF TypeOK, IInv, MachineTypeOK, handlerTimerFires, Idle
<1>2. UNCHANGED <<mCurrent, mPrevious, entered, setVars, queueVars, use>>
  BY DEF handlerTimerFires
<1>3. PICK t \in handlerTimers :
        handlerTimers' = handlerTimers \ {t} /\ processTimeoutMachine(t[1])
  BY DEF handlerTimerFires
<1>4. handlerTimers' \subseteq Machines \X hasTimeout /\ t[1] \in Machines
  BY <1>3 DEF TypeOK
<1> DEFINE f == [at |-> "timeout", i |-> 0]
           m == t[1]
<1>5. /\ stack' \in Seq(Frame) /\ left' \subseteq Machines /\ Placed(stack)' /\ LeftTop'
      /\ mTimeoutMS' = mTimeoutMS \/ clearsDeadline(m)
  <2>1. CASE m \notin mMachinesSet
    <3>1. UNCHANGED <<mTimeoutMS, stack, left>>
      BY <1>3, <2>1 DEF processTimeoutMachine
    <3>2. Placed(stack)'
      BY <1>1, <1>2, <3>1, PlacedKept
    <3>3. LeftTop'
      BY <1>1, <1>2, <3>1 DEF LeftTop, NoNesting
    <3> QED
      BY <1>1, <3>1, <3>2, <3>3, EmptySeq
  <2>2. CASE m \in mMachinesSet
    <3>1. clearsDeadline(m) /\ process(m, TimeoutKind, <<f>>)
      BY <1>3, <2>2 DEF processTimeoutMachine
    <3>2. f \in Frame /\ Sound(f) /\ Quiet(f) /\ f.at \notin Place
      BY DEF Frame, SetCall, Sound, Quiet, Place
    <3> HIDE DEF f, m
    <3>3. /\ <<f>> \in Seq(Frame) /\ Placed(<<f>>)
          /\ <<f>>[Len(<<f>>)] = f
      BY <3>2 DEF Placed
    <3>4. ~use.throws /\ NoNesting => left = {}
      BY <1>1 DEF LeftTop
    <3>5. m \in Machines
      BY <1>4 DEF m
    <3>6. <<f>> # <<>> => Quiet(<<f>>[Len(<<f>>)]) /\ <<f>>[Len(<<f>>)].at \notin Place
      BY <3>2, <3>3
    <3>7. stack' \in Seq(Frame) /\ left' \subseteq Machines /\ Placed(stack)' /\ LeftTop'
      BY <1>1, <1>2, <2>2, <3>1, <3>3, <3>4, <3>5, <3>6, ProcessKeeps
    <3> QED
      BY <3>1, <3>7
  <2> QED
    BY <2>1, <2>2
<1>6. MachineTypeOK' /\ CurrentWasEntered' /\ DeadlineOfCurrent'
  BY <1>2, <1>4, <1>5, MachinesKept DEF TypeOK, IInv
<1>7. ListMatchesSet'
  BY <1>2 DEF IInv, ListMatchesSet, setVars
<1> QED
  BY <1>2, <1>4, <1>5, <1>6, <1>7 DEF TypeOK, IInv, Frame, setVars, queueVars

LEMMA EventSteps ==
  ASSUME TypeOK, IInv,
         \/ takeEvent \/ handlerProcessesEvent
         \/ \E e \in Event : enqueueDirect(e)
  PROVE  TypeOK' /\ IInv'
<1>1. PICK e \in Event : MayProcess /\ processEvent(e, stack)
  <2>1. CASE takeEvent
    <3>1. mFifo \in Seq(Event) /\ mFifo # <<>>
      BY <2>1 DEF takeEvent, TypeOK
    <3>2. Head(mFifo) \in Event
      BY <3>1, HeadTailProperties
    <3> QED
      BY <2>1, <3>2 DEF takeEvent, MayProcess
  <2>2. CASE handlerProcessesEvent
    <3>1. handlerEvents \in Seq(Event) /\ handlerEvents # <<>>
      BY <2>2 DEF handlerProcessesEvent, TypeOK
    <3>2. Head(handlerEvents) \in Event
      BY <3>1, HeadTailProperties
    <3> QED
      BY <2>2, <3>2 DEF handlerProcessesEvent, MayProcess, Idle
  <2>3. CASE \E e \in Event : enqueueDirect(e)
    BY <2>3 DEF enqueueDirect, MayProcess, Idle
  <2> QED
    BY <2>1, <2>2, <2>3
<1>2. UNCHANGED <<machineVars, handlerTimers, use>>
  BY DEF takeEvent, handlerProcessesEvent, enqueueDirect
<1>3. mFifo' \in Seq(Event) /\ handlerEvents' \in Seq(Event) /\ posts' \in 0 .. MaxPosts
  <2>1. /\ mFifo \in Seq(Event) /\ handlerEvents \in Seq(Event)
        /\ posts \in 0 .. MaxPosts /\ MaxPosts \in Nat
    BY MachineSetAssumption DEF TypeOK
  <2>2. /\ mFifo # <<>> => Tail(mFifo) \in Seq(Event)
        /\ handlerEvents # <<>> => Tail(handlerEvents) \in Seq(Event)
    BY <2>1, HeadTailProperties
  <2>3. /\ mFifo' = mFifo \/ (mFifo # <<>> /\ mFifo' = Tail(mFifo))
        /\ handlerEvents' = handlerEvents \/ (handlerEvents # <<>> /\ handlerEvents' = Tail(handlerEvents))
    BY DEF takeEvent, handlerProcessesEvent, enqueueDirect
  <2>4. posts' = posts \/ (posts < MaxPosts /\ posts' = posts + 1)
    BY DEF takeEvent, handlerProcessesEvent, enqueueDirect
  <2>5. posts' \in 0 .. MaxPosts
    BY <2>1, <2>4
  <2> QED
    BY <2>1, <2>2, <2>3, <2>5
<1>4. /\ stack' \in Seq(Frame) /\ Placed(stack)' /\ LeftTop'
      /\ mMachines' \in Seq(Machines) /\ mMachinesSet' \subseteq Machines
      /\ ListMatchesSet'
  BY <1>1, <1>2, ProcessEventKeeps
<1>5. MachineTypeOK' /\ CurrentWasEntered' /\ DeadlineOfCurrent'
  BY <1>2, MachinesKept DEF TypeOK, IInv, machineVars, MachineTypeOK
<1> QED
  BY <1>2, <1>3, <1>4, <1>5 DEF TypeOK, IInv, Frame

LEMMA EnqueueStep ==
  ASSUME TypeOK, IInv, NEW e \in Event, enqueue(e)
  PROVE  TypeOK' /\ IInv'
<1>1. UNCHANGED <<machineVars, stack, setVars, handlerTimers, use>>
  BY DEF enqueue
<1>2. mFifo' \in Seq(Event) /\ handlerEvents' \in Seq(Event) /\ posts' \in 0 .. MaxPosts
  <2>1. /\ mFifo \in Seq(Event) /\ handlerEvents \in Seq(Event)
        /\ posts \in 0 .. MaxPosts /\ MaxPosts \in Nat
    BY MachineSetAssumption DEF TypeOK
  <2>2. Append(mFifo, e) \in Seq(Event) /\ Append(handlerEvents, e) \in Seq(Event)
    BY <2>1
  <2>3. posts < MaxPosts /\ posts' = posts + 1
    BY DEF enqueue
  <2>4. posts' \in 0 .. MaxPosts
    BY <2>1, <2>3
  <2>5. mFifo' \in {mFifo, Append(mFifo, e)} /\ handlerEvents' \in {handlerEvents, Append(handlerEvents, e)}
    BY DEF enqueue
  <2> QED
    BY <2>1, <2>2, <2>4, <2>5
<1>3. Placed(stack)' /\ LeftTop' /\ ListMatchesSet'
  BY <1>1 DEF IInv, Placed, Sound, Quiet, KeepsState, NoNesting, LeftTop,
              ListMatchesSet, top, machineVars, setVars
<1>4. MachineTypeOK' /\ CurrentWasEntered' /\ DeadlineOfCurrent'
  BY <1>1, MachinesKept DEF TypeOK, IInv, machineVars, MachineTypeOK
<1> QED
  BY <1>1, <1>2, <1>3, <1>4 DEF TypeOK, IInv, setVars

\* A callback that is at the top
LEMMA CallbackFacts ==
  ASSUME TypeOK, IInv, Running("exit") \/ Running("transition") \/ Running("internal")
  PROVE  /\ stack \in Seq(Frame) /\ stack # <<>> /\ Len(stack) \in Nat \ {0}
         /\ top = stack[Len(stack)] /\ top \in Call /\ top \in Frame /\ Sound(top)
         /\ top.m \in Machines /\ top.to \in States
         /\ Placed(stack) /\ LeftTop /\ MachineTypeOK /\ left \subseteq Machines
         /\ mCurrent[top.m] \in States
<1>1. stack \in Seq(Frame) /\ stack # <<>> /\ Placed(stack) /\ LeftTop
  BY DEF TypeOK, IInv, Frame, Running
<1>2. MachineTypeOK /\ left \subseteq Machines /\ \A m \in Machines : mCurrent[m] \in States
  BY DEF TypeOK, MachineTypeOK
<1>3. /\ Len(stack) \in Nat \ {0} /\ DOMAIN stack = 1 .. Len(stack)
      /\ top \in Frame /\ top = stack[Len(stack)]
  BY <1>1, TopFacts DEF top
<1>4. Sound(top) /\ top.at \in Place
  BY <1>1, <1>3 DEF Placed, Running, Place
<1>5. top \in Call /\ top.m \in Machines /\ top.to \in States
  BY <1>3, <1>4, FrameFields
<1> QED
  BY <1>1, <1>2, <1>3, <1>4, <1>5

\* The top frame is replaced.
LEMMA ReplaceTop ==
  ASSUME stack \in Seq(Frame), stack # <<>>, Placed(stack), NEW f \in Frame, Sound(f),
         f.at \notin {"process", "timers", "timeout"},
         stack' = [stack EXCEPT ![Len(stack)] = f]
  PROVE  /\ stack' \in Seq(Frame) /\ Placed(stack') /\ stack' # <<>>
         /\ top' = f /\ stack'[Len(stack')] = f
<1>1. /\ stack' \in Seq(Frame) /\ stack' # <<>> /\ Placed(stack')
      /\ stack'[Len(stack')] = f
  BY PlacedReplace
<1> QED
  BY <1>1 DEF top

LEMMA ExitReturnsStep ==
  ASSUME TypeOK, IInv, exitReturns,
         UNCHANGED <<setVars, queueVars, handlerTimers, use>>
  PROVE  TypeOK' /\ IInv'
<1>1. /\ Running("exit") /\ UNCHANGED machineVars
      /\ stack' = [stack EXCEPT ![Len(stack)].at = "transition"]
  BY DEF exitReturns
<1> DEFINE f == [top EXCEPT !.at = "transition"]
<1>2. /\ f \in Frame /\ f.at = "transition" /\ f.m = top.m
      /\ stack' = [stack EXCEPT ![Len(stack)] = f]
  BY <1>1, CallbackFacts, CallMoves DEF Place, Frame
<1> HIDE DEF f
<1>3. Sound(f)
  BY <1>1, <1>2, CallbackFacts DEF Sound
<1>4. stack' \in Seq(Frame) /\ Placed(stack') /\ stack' # <<>> /\ top' = f
  <2>1. stack \in Seq(Frame) /\ stack # <<>> /\ Placed(stack)
    BY <1>1, CallbackFacts
  <2> QED
    BY <1>2, <1>3, <2>1, ReplaceTop
<1>5. Placed(stack)'
  BY <1>1, <1>4, PlacedKept DEF machineVars
<1>6. LeftTop'
  BY <1>1, <1>2, <1>4, CallbackFacts DEF LeftTop, NoNesting, Running, machineVars
<1> QED
  BY <1>1, <1>4, <1>5, <1>6, CallbackFacts, StackStep DEF machineVars

LEMMA TransitionReturnsStep ==
  ASSUME TypeOK, IInv, transitionReturns, handlerTimers' \subseteq Machines \X hasTimeout,
         UNCHANGED <<setVars, queueVars, use>>
  PROVE  TypeOK' /\ IInv'
<1> DEFINE m == top.m
           to == top.to
           f == [top EXCEPT !.at = "enter"]
<1>1. /\ Running("transition")
      /\ stack' = [stack EXCEPT ![Len(stack)].at = "enter"]
      /\ mPrevious' = IF top.meta THEN mPrevious ELSE [mPrevious EXCEPT ![m] = mCurrent[m]]
      /\ mCurrent' = [mCurrent EXCEPT ![m] = to]
      /\ mTimeoutMS' = [mTimeoutMS EXCEPT ![m] = deadlineFor(to, m)]
      /\ entered' = [entered EXCEPT ![m] = to]
      /\ left' = left \ {m}
  BY DEF transitionReturns
<1>2. m \in Machines /\ to \in States /\ mCurrent[m] \in States /\ MachineTypeOK
  BY <1>1, CallbackFacts
<1>3. /\ f \in Frame /\ f.at = "enter" /\ f.m = top.m
      /\ stack' = [stack EXCEPT ![Len(stack)] = f]
  BY <1>1, CallbackFacts, CallMoves DEF Place, Frame
<1> HIDE DEF f
<1>4. Sound(f)
  BY <1>1, <1>3, CallbackFacts DEF Sound
<1>5. /\ stack' \in Seq(Frame) /\ Placed(stack') /\ stack' # <<>> /\ top' = f
      /\ stack'[Len(stack')] = f
  <2>1. stack \in Seq(Frame) /\ stack # <<>> /\ Placed(stack)
    BY <1>1, CallbackFacts
  <2> QED
    BY <1>3, <1>4, <2>1, ReplaceTop
<1>6. Placed(stack)'
  <2>1. \A k \in DOMAIN stack' : KeepsState => stack'[k].at # "internal"
    BY <1>3, <1>5 DEF Placed, Quiet
  <2> QED
    BY <1>5, <2>1, PlacedKept
<1>7. LeftTop'
  <2>1. ~use.throws /\ NoNesting => left = {m}
    BY <1>1, CallbackFacts DEF LeftTop, Running
  <2> QED
    BY <1>1, <1>3, <1>5, <2>1 DEF LeftTop, NoNesting
<1> HIDE DEF m, to
<1>8. deadlineFor(to, m) \in {NoState, to} /\ deadlineFor(to, m) \in hasTimeout \cup {NoState}
  BY DEF deadlineFor
<1>9. MachineTypeOK'
  <2>1. mPrevious' \in [Machines -> States \cup {NoState}]
    BY <1>1, <1>2 DEF MachineTypeOK
  <2> QED
    BY <1>1, <1>2, <1>8, <2>1 DEF MachineTypeOK
<1>10. KeepsState' <=> KeepsState
  BY DEF KeepsState
<1>11. CurrentWasEntered'
  BY <1>1, <1>10 DEF IInv, CurrentWasEntered
<1>12. DeadlineOfCurrent'
  <2> SUFFICES ASSUME KeepsState, NEW n \in Machines
               PROVE  mTimeoutMS'[n] \in {NoState, mCurrent'[n]}
    BY <1>10 DEF DeadlineOfCurrent
  <2>1. mTimeoutMS[n] \in {NoState, mCurrent[n]}
    BY DEF IInv, DeadlineOfCurrent
  <2>2. CASE n = m
    BY <1>1, <1>2, <1>8, <2>2 DEF MachineTypeOK
  <2>3. CASE n # m
    BY <1>1, <1>2, <2>1, <2>3 DEF MachineTypeOK
  <2> QED
    BY <2>2, <2>3
<1>13. ListMatchesSet'
  BY DEF IInv, ListMatchesSet, setVars
<1> QED
  BY <1>5, <1>6, <1>7, <1>9, <1>11, <1>12, <1>13
     DEF TypeOK, IInv, Frame, setVars, queueVars

LEMMA InternalReturnsStep ==
  ASSUME TypeOK, IInv, internalReturns,
         UNCHANGED <<setVars, queueVars, handlerTimers, use>>
  PROVE  TypeOK' /\ IInv'
<1> DEFINE m == top.m
           to == top.to
<1>1. /\ Running("internal") /\ stack' = popped
      /\ mPrevious' = IF top.meta THEN mPrevious ELSE [mPrevious EXCEPT ![m] = mCurrent[m]]
      /\ mCurrent' = [mCurrent EXCEPT ![m] = to]
      /\ UNCHANGED <<mTimeoutMS, entered, left>>
  BY DEF internalReturns
<1>2. m \in Machines /\ to \in States /\ mCurrent[m] \in States /\ MachineTypeOK
  BY <1>1, CallbackFacts
<1>3. stack' \in Seq(Frame) /\ Placed(stack)' /\ LeftTop'
  BY <1>1, CallbackFacts, PopKeeps DEF Running
<1>4. KeepsState => mCurrent' = mCurrent
  <2>1. KeepsState => to = mCurrent[m]
    BY <1>1, CallbackFacts DEF Sound, Running
  <2> QED
    BY <1>1, <1>2, <2>1 DEF MachineTypeOK
<1> HIDE DEF m, to
<1>5. MachineTypeOK'
  <2>1. mPrevious' \in [Machines -> States \cup {NoState}]
    BY <1>1, <1>2 DEF MachineTypeOK
  <2> QED
    BY <1>1, <1>2, <2>1 DEF MachineTypeOK
<1>6. KeepsState' <=> KeepsState
  BY DEF KeepsState
<1>7. CurrentWasEntered' /\ DeadlineOfCurrent'
  BY <1>1, <1>4, <1>6 DEF IInv, CurrentWasEntered, DeadlineOfCurrent
<1>8. ListMatchesSet'
  BY DEF IInv, ListMatchesSet, setVars
<1> QED
  BY <1>3, <1>5, <1>7, <1>8 DEF TypeOK, IInv, Frame, setVars, queueVars

LEMMA CallbackEndsStep ==
  ASSUME TypeOK, IInv, callbackEnds
  PROVE  TypeOK' /\ IInv'
<1>1. UNCHANGED <<setVars, queueVars, use>>
  BY DEF callbackEnds
<1>2. CASE transitionReturns
  <2>1. handlerTimers' \subseteq Machines \X hasTimeout
    <3>1. handlerTimers \subseteq Machines \X hasTimeout
      BY DEF TypeOK
    <3>2. CASE top.to \in hasTimeout /\ onUpdateMachineTimeOut(top.m, top.to)
      <4>1. top.m \in Machines
        BY <1>2, CallbackFacts DEF transitionReturns
      <4> QED
        BY <3>1, <3>2, <4>1 DEF onUpdateMachineTimeOut
    <3> QED
      BY <3>1, <3>2 DEF callbackEnds
  <2> QED
    BY <1>1, <1>2, <2>1, TransitionReturnsStep
<1>3. CASE ~transitionReturns
  <2>1. ~Running("transition") /\ (exitReturns \/ internalReturns \/ enterReturns)
    BY <1>3 DEF callbackEnds, callbackReturns, exitReturns, internalReturns, enterReturns, Running
  <2>2. UNCHANGED handlerTimers
    BY <2>1 DEF callbackEnds
  <2> QED
    BY <1>1, <2>1, <2>2, ExitReturnsStep, InternalReturnsStep, ReturnSteps
<1> QED
  BY <1>2, <1>3

--------------------------------------------------------------------------------
(***************************************************************************)
(* The theorems.                                                           *)
(***************************************************************************)
LEMMA InitEstablishes ==
  ASSUME Init
  PROVE  TypeOK /\ IInv
<1>1. MachineTypeOK
  BY StateMachineAssumption DEF Init, MachineInit, MachineTypeOK
<1>2. /\ stack = <<>> /\ left = {} /\ mFifo = <<>> /\ handlerEvents = <<>>
      /\ posts = 0 /\ use \in Uses /\ handlerTimers = {}
  BY DEF Init, MachineInit
<1>3. /\ mMachines \in Seq(Machines) /\ IsInjective(mMachines)
      /\ mMachinesSet = ToSet(mMachines)
  BY MachineSetAssumption DEF Init
<1>4. mMachinesSet \subseteq Machines
  BY <1>3, LenProperties, ElementOfSeq DEF ToSet
<1>5. TypeOK
  BY <1>1, <1>2, <1>3, <1>4, EmptySeq, MachineSetAssumption DEF TypeOK
<1>6. Placed(stack)
  BY <1>2 DEF Placed
<1>7. CurrentWasEntered /\ DeadlineOfCurrent
  BY DEF Init, MachineInit, CurrentWasEntered, DeadlineOfCurrent
<1> QED
  BY <1>2, <1>3, <1>5, <1>6, <1>7 DEF IInv, ListMatchesSet, LeftTop

LEMMA StepKeeps ==
  ASSUME TypeOK, IInv, [Next]_vars
  PROVE  TypeOK' /\ IInv'
<1>1. CASE owner
  <2>1. CASE takeEvent
    BY <2>1, EventSteps
  <2>2. CASE processBegins \/ queueEmpty
    BY <2>2, ProcessSteps
  <2>3. CASE timersEnd \/ eventEnds \/ timeoutEnds
    BY <2>3, ReturnSteps
  <2>4. CASE eventNext
    BY <2>4, EventNextStep
  <2>5. CASE callbackEnds
    BY <2>5, CallbackEndsStep
  <2> QED
    BY <1>1, <2>1, <2>2, <2>3, <2>4, <2>5 DEF owner
<1>2. CASE handlerProcessesEvent \/ \E e \in Event : enqueueDirect(e)
  BY <1>2, EventSteps
<1>3. CASE handlerTimerFires
  BY <1>3, HandlerTimerStep
<1>4. CASE \E m \in Machines : timerFires(m)
  BY <1>4, TimerFiresStep
<1>5. CASE callbackThrows
  BY <1>5, ReturnSteps
<1>6. CASE \E e \in Event : enqueue(e)
  BY <1>6, EnqueueStep
<1>7. CASE UNCHANGED vars
  <2>1. /\ UNCHANGED <<machineVars, setVars, handlerTimers, use, posts, mFifo, handlerEvents>>
        /\ stack' = stack
    BY <1>7 DEF vars, queueVars
  <2>2. Placed(stack)' /\ LeftTop' /\ ListMatchesSet'
    BY <2>1 DEF IInv, Placed, Sound, Quiet, KeepsState, NoNesting, LeftTop,
                ListMatchesSet, top, machineVars, setVars
  <2>3. MachineTypeOK' /\ CurrentWasEntered' /\ DeadlineOfCurrent'
    BY <2>1, MachinesKept DEF TypeOK, IInv, machineVars, MachineTypeOK
  <2> QED
    BY <2>1, <2>2, <2>3 DEF TypeOK, IInv, setVars
<1> QED
  BY <1>1, <1>2, <1>3, <1>4, <1>5, <1>6, <1>7 DEF Next

\* The types, and where the frames are on the owner's stack.
THEOREM TypeCorrect == Spec => [](TypeOK /\ IInv)
<1>1. Init => TypeOK /\ IInv
  BY InitEstablishes
<1>2. TypeOK /\ IInv /\ [Next]_vars => (TypeOK /\ IInv)'
  BY StepKeeps
<1> QED
  BY <1>1, <1>2, PTL DEF Spec

\* mMachines and mMachinesSet of MachineSet hold the same machines, each once.
THEOREM ListCorrect == Spec => []ListMatchesSet
<1>1. IInv => ListMatchesSet
  BY DEF IInv
<1> QED
  BY <1>1, TypeCorrect, PTL

\* Only a callback, at once, changes the list while a call is under way; otherwise
\* nothing is, but process itself.
LEMMA ListChanges ==
  ASSUME TypeOK, IInv, [Next]_vars, ~UNCHANGED setVars
  PROVE  \/ InCallback /\ use.changes
         \/ \A k \in DOMAIN stack : stack[k].at = "process"
<1>1. stack \in Seq(Frame) /\ Placed(stack)
  BY DEF TypeOK, IInv, Frame
<1>2. takeEvent \/ handlerProcessesEvent \/ \E e \in Event : enqueueDirect(e)
  BY DEF Next, owner, vars, processBegins, queueEmpty, timersEnd, eventNext, eventEnds,
         timeoutEnds, callbackEnds, handlerTimerFires, timerFires, callbackThrows, enqueue
<1>3. ASSUME NEW e \in Event, e.kind \in Kinds, processEvent(e, stack)
      PROVE  FALSE
  <2>1. UNCHANGED setVars
    BY <1>3, MachineSetAssumption DEF processEvent
  <2> QED
    BY <2>1
<1>4. stack = <<>> \/ Running("process") \/ (InCallback /\ use.changes)
  BY <1>2, <1>3 DEF takeEvent, handlerProcessesEvent, enqueueDirect, Idle
<1>5. CASE Running("process")
  <2>1. /\ Len(stack) \in DOMAIN stack /\ stack[Len(stack)].at = "process"
        /\ DOMAIN stack = 1 .. Len(stack)
    BY <1>1, <1>5, TopFacts DEF Running, top
  <2>2. Len(stack) = 1
    BY <1>1, <2>1 DEF Placed
  <2>3. \A k \in DOMAIN stack : k = Len(stack)
    BY <2>1, <2>2
  <2> QED
    BY <2>1, <2>3
<1> QED
  BY <1>4, <1>5

\* What process of a machine puts on top is a call of that machine.
LEMMA ProcessBegins ==
  ASSUME MachineTypeOK, NEW m \in Machines, NEW kind, NEW F, NEW below \in Seq(F),
         Len(below) <= Len(stack) \/ below[Len(below)].at \notin Place,
         process(m, kind, below), Len(stack) \in Nat, Len(stack') > Len(stack),
         top'.at \in Place
  PROVE  top'.m = m
<1>1. CASE stack' = below
  <2>1. Len(below) \in Nat
    BY LenProperties
  <2> QED
    BY <1>1, <2>1 DEF top
<1>2. ASSUME NEW call \in callsFor(m, kind), stack' = Append(below, call)
      PROVE  top'.m = m
  <2>1. call.m = m
    BY CallFacts
  <2>2. stack'[Len(stack')] = call
    BY <1>2, LenProperties
  <2> QED
    BY <2>1, <2>2 DEF top
<1> QED
  BY <1>1, <1>2 DEF process

\* The last frame changes in some way.
LEMMA TopChanges ==
  ASSUME stack \in Seq(Frame), stack # <<>>, NEW f
  PROVE  LET s == [stack EXCEPT ![Len(stack)] = f]
         IN  s \in Seq(Frame \cup {f}) /\ Len(s) = Len(stack)
<1>1. Len(stack) \in 1 .. Len(stack)
  BY TopFacts
<1>2. stack \in Seq(Frame \cup {f})
  BY LenProperties
<1> QED
  BY <1>1, <1>2, ExceptSeq

\* Steps that begin no transition.
LEMMA BeginsElsewhere ==
  ASSUME TypeOK, stack \in Seq(Frame),
         \/ processBegins \/ queueEmpty \/ timersEnd \/ eventEnds \/ timeoutEnds \/ callbackEnds
         \/ takeEvent \/ handlerProcessesEvent \/ callbackThrows \/ UNCHANGED vars
         \/ \E e \in Event : enqueueDirect(e) \/ enqueue(e)
  PROVE  Len(stack') > Len(stack) => top'.at \notin Place
<1>1. Len(stack) \in Nat /\ (stack # <<>> => Len(stack) \in Nat \ {0})
  BY TopFacts, LenProperties
<1>2. CASE UNCHANGED stack
  BY <1>1, <1>2
<1>3. CASE \E n \in Nat : n <= Len(stack) /\ stack' = SubSeq(stack, 1, n)
  <2>1. PICK n \in Nat : n <= Len(stack) /\ stack' = SubSeq(stack, 1, n)
    BY <1>3
  <2>2. \A k \in 1 .. n : stack[k] \in Frame
    BY <1>1, <2>1, LenProperties, ElementOfSeq
  <2>3. Len(stack') = n
    BY <2>1, <2>2, SubSeqProperties
  <2> QED
    BY <1>1, <2>1, <2>3
<1>4. CASE stack # <<>> /\ \E place \in STRING : stack' = [stack EXCEPT ![Len(stack)].at = place]
  <2>1. Len(stack') = Len(stack)
    BY <1>1, <1>4, LenProperties
  <2> QED
    BY <1>1, <2>1
<1>5. CASE \E e : e.kind \in Kinds /\ processEvent(e, stack)
  <2>1. PICK e : stack' = Append(stack, [at |-> "event", event |-> e, i |->
                     IF e.targets = <<>> THEN Len(mMachines) ELSE Len(e.targets)])
    BY <1>5, MachineSetAssumption DEF processEvent
  <2>2. stack'[Len(stack')].at = "event"
    BY <1>1, <2>1, LenProperties
  <2> QED
    BY <2>2 DEF top, Place
<1>6. CASE processBegins
  BY <1>6 DEF processBegins, top, Place
<1>7. CASE queueEmpty \/ timersEnd \/ eventEnds \/ timeoutEnds
  <2>1. stack # <<>> /\ (stack' = popped \/ stack' = [stack EXCEPT ![Len(stack)].at = "timers"])
    BY <1>7 DEF queueEmpty, timersEnd, eventEnds, timeoutEnds, Running
  <2> QED
    BY <1>1, <1>3, <1>4, <2>1 DEF popped
<1>8. CASE callbackEnds
  <2>1. /\ stack # <<>>
        /\ \/ stack' = popped
           \/ stack' = [stack EXCEPT ![Len(stack)].at = "transition"]
           \/ stack' = [stack EXCEPT ![Len(stack)].at = "enter"]
    <3>1. stack # <<>>
      BY <1>8 DEF callbackEnds, callbackReturns, exitReturns, transitionReturns, internalReturns,
                  enterReturns, Running
    <3>2. exitReturns => stack' = [stack EXCEPT ![Len(stack)].at = "transition"]
      BY DEF exitReturns
    <3>3. transitionReturns => stack' = [stack EXCEPT ![Len(stack)].at = "enter"]
      BY DEF transitionReturns
    <3>4. internalReturns \/ enterReturns => stack' = popped
      BY DEF internalReturns, enterReturns
    <3> QED
      BY <1>8, <3>1, <3>2, <3>3, <3>4 DEF callbackEnds, callbackReturns
  <2> QED
    BY <1>1, <1>3, <1>4, <2>1 DEF popped
<1>9. CASE callbackThrows
  <2>1. stack # <<>> /\ DOMAIN stack = 1 .. Len(stack)
    BY <1>9, TopFacts DEF callbackThrows, InCallback
  <2>2. stack' = <<>> \/ \E k \in DOMAIN stack : stack' = SubSeq(stack, 1, k - 1)
    BY <1>9 DEF callbackThrows, catching
  <2>3. ASSUME NEW k \in DOMAIN stack
        PROVE  k - 1 \in Nat /\ k - 1 <= Len(stack)
    BY <1>1, <2>1
  <2>4. CASE stack' = <<>>
    BY <1>1, <2>4
  <2> QED
    BY <1>3, <2>2, <2>3, <2>4
<1>10. CASE takeEvent \/ handlerProcessesEvent \/ \E e \in Event : enqueueDirect(e)
  <2>1. PICK e : processEvent(e, stack)
    BY <1>10 DEF takeEvent, handlerProcessesEvent, enqueueDirect
  <2>2. stack' = stack \/ e.kind \in Kinds
    BY <2>1 DEF processEvent
  <2> QED
    BY <1>2, <1>5, <2>1, <2>2
<1>11. CASE (\E e \in Event : enqueue(e)) \/ UNCHANGED vars
  BY <1>2, <1>11 DEF enqueue, vars
<1> QED
  BY <1>6, <1>7, <1>8, <1>9, <1>10, <1>11

\* Those that may: what they show an event to is in the set.
LEMMA BeginsInSet ==
  ASSUME TypeOK, IInv, [Next]_vars, Len(stack') > Len(stack), top'.at \in Place
  PROVE  top'.m \in mMachinesSet
<1>1. /\ stack \in Seq(Frame) /\ MachineTypeOK /\ mMachines \in Seq(Machines)
      /\ mMachinesSet \subseteq Machines /\ ListMatchesSet /\ Len(stack) \in Nat
  BY LenProperties DEF TypeOK, IInv, Frame
<1>2. CASE eventNext
  <2> DEFINE f == [stack[Len(stack)] EXCEPT !.i = stack[Len(stack)].i - 1]
             below == [stack EXCEPT ![Len(stack)] = f]
  <2>1. stack # <<>> /\ show(comesTo(top), top.event.kind, below)
    BY <1>1, <1>2 DEF eventNext, Running
  <2>2. below \in Seq(Frame \cup {f}) /\ Len(below) = Len(stack)
    BY <1>1, <2>1, TopChanges
  <2> HIDE DEF below, f
  <2>3. CASE comesTo(top) \in mMachinesSet
    <3>1. process(comesTo(top), top.event.kind, below)
      BY <2>1, <2>3 DEF show
    <3> QED
      BY <1>1, <2>2, <2>3, <3>1, ProcessBegins
  <2>4. CASE comesTo(top) \notin mMachinesSet
    BY <1>1, <2>1, <2>2, <2>4 DEF show
  <2> QED
    BY <2>3, <2>4
<1>3. ASSUME NEW m \in Machines, timerFires(m)
      PROVE  top'.m \in mMachinesSet
  <2>1. PICK i \in DOMAIN mMachines :
          mMachines[i] = m /\ process(m, TimeoutKind, [stack EXCEPT ![Len(stack)].i = i + 1])
    BY <1>3 DEF timerFires
  <2>2. m \in mMachinesSet /\ stack # <<>>
    BY <1>1, <1>3, <2>1 DEF ListMatchesSet, ToSet, timerFires, Running
  <2> DEFINE f == [stack[Len(stack)] EXCEPT !.i = i + 1]
             below == [stack EXCEPT ![Len(stack)] = f]
  <2>3. process(m, TimeoutKind, below)
    BY <1>1, <2>1
  <2>4. below \in Seq(Frame \cup {f}) /\ Len(below) = Len(stack)
    BY <1>1, <2>2, TopChanges
  <2> HIDE DEF below, f
  <2> QED
    BY <1>1, <2>2, <2>3, <2>4, ProcessBegins
<1>4. CASE handlerTimerFires
  <2>1. PICK t \in handlerTimers : processTimeoutMachine(t[1])
    BY <1>4 DEF handlerTimerFires
  <2>2. CASE t[1] \in mMachinesSet
    <3> DEFINE f == [at |-> "timeout", i |-> 0]
               below == <<f>>
    <3>1. process(t[1], TimeoutKind, below)
      BY <2>1, <2>2 DEF processTimeoutMachine
    <3>2. below[Len(below)].at \notin Place
      BY DEF Place
    <3>3. below \in Seq({f})
      OBVIOUS
    <3> HIDE DEF below, f
    <3> QED
      BY <1>1, <2>2, <3>1, <3>2, <3>3, ProcessBegins
  <2>3. CASE t[1] \notin mMachinesSet
    BY <1>1, <2>1, <2>3 DEF processTimeoutMachine
  <2> QED
    BY <2>2, <2>3
<1> QED
  BY <1>1, <1>2, <1>3, <1>4, BeginsElsewhere DEF Next, owner

\* Machines are looked up when their turn comes, and removed in the middle of a
\* transition only by a callback that removes them at once.
THEOREM RemovedCorrect == Spec => RemovedIsIdle
<1>1. TypeOK /\ IInv /\ [Next]_vars =>
        [/\ Len(stack') > Len(stack) /\ top'.at \in Place => top'.m \in mMachinesSet
         /\ \A m \in mMachinesSet \ mMachinesSet' : UnderWay(m) => InCallback /\ use.changes]_vars
  <2> SUFFICES ASSUME TypeOK, IInv, [Next]_vars
               PROVE  /\ Len(stack') > Len(stack) /\ top'.at \in Place => top'.m \in mMachinesSet
                      /\ \A m \in mMachinesSet \ mMachinesSet' :
                           UnderWay(m) => InCallback /\ use.changes
    OBVIOUS
  <2>1. ASSUME NEW m \in mMachinesSet \ mMachinesSet', UnderWay(m)
        PROVE  InCallback /\ use.changes
    <3>1. ~UNCHANGED setVars
      BY <2>1 DEF setVars
    <3> QED
      BY <2>1, <3>1, ListChanges DEF UnderWay, Place
  <2>2. ASSUME Len(stack') > Len(stack), top'.at \in Place
        PROVE  top'.m \in mMachinesSet
    BY <2>2, BeginsInSet
  <2> QED
    BY <2>1, <2>2
<1> QED
  BY <1>1, TypeCorrect, PTL DEF Spec, RemovedIsIdle

\* A machine is in the state whose OnEnter was called last, provided the action
\* of an internal transition processes no event at once.
THEOREM CurrentCorrect == Spec => []CurrentWasEntered
<1>1. IInv => CurrentWasEntered
  BY DEF IInv
<1> QED
  BY <1>1, TypeCorrect, PTL

\* Its deadline is that of this state, or none.
THEOREM DeadlineCorrect == Spec => []DeadlineOfCurrent
<1>1. IInv => DeadlineOfCurrent
  BY DEF IInv
<1> QED
  BY <1>1, TypeCorrect, PTL

\* OnExit without the OnEnter that belongs to it means that a transition is
\* under way.
THEOREM LeftCorrect == Spec => []LeftIsUnderWay
<1>1. TypeOK /\ IInv => LeftIsUnderWay
  <2> SUFFICES ASSUME TypeOK, IInv, ~use.throws, NoNesting
               PROVE  left = {stack[k].m :
                         k \in {j \in DOMAIN stack : stack[j].at \in {"exit", "transition"}}}
    BY DEF LeftIsUnderWay, NoNesting
  <2>1. /\ stack \in Seq(Frame) /\ Placed(stack)
        /\ left = IF stack # <<>> /\ top.at \in {"exit", "transition"} THEN {top.m} ELSE {}
    BY DEF TypeOK, IInv, Frame, LeftTop
  <2>2. \A j \in DOMAIN stack : stack[j].at \in {"exit", "transition"} => j = Len(stack)
    BY <2>1 DEF Placed, Quiet
  <2>3. stack # <<>> => Len(stack) \in DOMAIN stack
    BY <2>1, TopFacts
  <2>4. DOMAIN stack # {} => stack # <<>>
    OBVIOUS
  <2> QED
    BY <2>1, <2>2, <2>3, <2>4 DEF top
<1> QED
  BY <1>1, TypeCorrect, PTL

\* The loops of processNoTargetMachineEvent and process go along a list that only
\* a callback changes meanwhile, if it does so at once.
THEOREM TraversalCorrect == Spec => TraversalUndisturbed
<1>1. TypeOK /\ IInv /\ [Next]_vars =>
        [mMachines' # mMachines =>
           \/ InCallback /\ use.changes
           \/ \A k \in DOMAIN stack : stack[k].at \notin {"event", "timers", "timeout"}]_vars
  BY ListChanges DEF setVars
<1> QED
  BY <1>1, TypeCorrect, PTL DEF Spec, TraversalUndisturbed
=============================================================================
