------------------------------ MODULE Delegate ------------------------------
(***************************************************************************)
(* Util::Delegate: a list of functors that calling the delegate calls, the *)
(* oldest first.  Every method locks the mutex of the policy from its      *)
(* beginning to its end, the call of the delegate too: its callbacks run   *)
(* with the mutex held.                                                    *)
(***************************************************************************)
EXTENDS Naturals, Sequences, Functions

CONSTANTS Threads, None,
          Functors,
          Types,       \* ways to type the functors: see typeOf
          MaxNodes     \* bound of the model: functors connected in all

ASSUME DelegateAssumption == None \notin Threads \cup Functors /\ MaxNodes \in Nat

VARIABLES
  typeOf,   \* the C++ types of the functors, chosen at the beginning
  list,     \* the nodes from the oldest to _last
  dangling, \* operator= has freed them and left _last as it was
  made,     \* the number of nodes made: each is another object
  policy,   \* "plain" and "recursive" mutexes, "single" for one without effect
  holder,   \* the thread that calls the delegate
  older,    \* nodes before _last that its call has yet to invoke
  running,  \* the functor it is in
  atLast,   \* _last was read again for its call
  begun,    \* the list when it began
  heard,    \* the nodes it has invoked
  adding,   \* what a thread found absent in Add, between its two locks
  silent    \* functors disconnected from outside callbacks, not connected since

invocation == <<holder, older, running, atLast, begun, heard>>
delegateVars == <<typeOf, list, dangling, made, policy, invocation, adding, silent>>

Node == [functor : Functors, id : 1..MaxNodes]

DelegateTypeOK ==
  /\ typeOf \in Types
  /\ list \in Seq(Node) /\ older \in Seq(Node) /\ dangling \in BOOLEAN
  /\ begun \in Seq(Node) /\ heard \in Seq(Node)
  /\ made \in 0..MaxNodes
  /\ policy \in {"plain", "recursive", "single"}
  /\ holder \in Threads \cup {None}
  /\ running \in Functors \cup {None}
  /\ atLast \in BOOLEAN
  /\ adding \in [Threads -> Functors \cup {None}]
  /\ silent \subseteq Functors

DelegateInit ==
  /\ typeOf \in Types
  /\ list = <<>> /\ dangling = FALSE /\ made = 0
  /\ holder = None /\ older = <<>> /\ running = None /\ atLast = FALSE
  /\ begun = <<>> /\ heard = <<>>
  /\ adding = [t \in Threads |-> None]
  /\ silent = Functors

InCallback(t) == holder = t /\ running # None

\* LockBlock, for a method that leaves the mutex again.  What a method does with
\* a dangling _last is undefined: the delegate goes no further.
canLock(t) == /\ holder = None \/ (InCallback(t) /\ policy # "plain")
              /\ ~dangling

--------------------------------------------------------------------------------
(***************************************************************************)
(* Connecting and disconnecting.                                           *)
(***************************************************************************)
\* Fault: Add does not look.
ExistNever(f) == FALSE

\* Exist looks for f from _last on, as far as functors have its type.
Exist(f) ==
  \E i \in DOMAIN list :
    list[i].functor = f /\ \A j \in i .. Len(list) : typeOf[list[j].functor] = typeOf[f]

without(i) == SubSeq(list, 1, i - 1) \o SubSeq(list, i + 1, Len(list))

newNode(f) == [functor |-> f, id |-> made + 1]

\* Add: nothing when f is there; otherwise it locks again and inserts, unless
\* new finds no memory.
AddBegins(t, f) ==
  /\ adding[t] = None /\ canLock(t)
  /\ ~Exist(f) /\ made < MaxNodes
  /\ adding' = [adding EXCEPT ![t] = f]
  /\ silent' = silent \ {f}
  /\ UNCHANGED <<typeOf, list, dangling, made, policy, invocation>>

AddInserts(t) ==
  /\ adding[t] # None /\ canLock(t)
  /\ \/ /\ made < MaxNodes
        /\ list' = Append(list, newNode(adding[t]))
        /\ made' = made + 1
     \/ UNCHANGED <<list, made>>
  /\ adding' = [adding EXCEPT ![t] = None]
  /\ UNCHANGED <<typeOf, dangling, policy, invocation, silent>>

\* A functor is disconnected from outside when no callback does it and nobody
\* connects it.
disconnected(t, functors) ==
  silent' = IF InCallback(t) THEN silent
            ELSE silent \cup (functors \ {adding[s] : s \in Threads})

\* Fault: the list is changed without the lock.
RemoveUnlocked(t, f) ==
  /\ adding[t] = None
  /\ \E i \in DOMAIN list :
       /\ list[i].functor = f /\ \A j \in (i + 1) .. Len(list) : list[j].functor # f
       /\ list' = without(i)
  /\ disconnected(t, {f})
  /\ UNCHANGED <<typeOf, dangling, made, policy, invocation, adding>>

\* The newest node of f is taken out.
Remove(t, f) ==
  /\ adding[t] = None /\ canLock(t)
  /\ \E i \in DOMAIN list :
       /\ list[i].functor = f /\ \A j \in (i + 1) .. Len(list) : list[j].functor # f
       /\ list' = without(i)
  /\ disconnected(t, {f})
  /\ UNCHANGED <<typeOf, dangling, made, policy, invocation, adding>>

Clear(t) ==
  /\ adding[t] = None /\ canLock(t)
  /\ list' = <<>>
  /\ disconnected(t, Functors)
  /\ UNCHANGED <<typeOf, dangling, made, policy, invocation, adding>>

\* operator=: f in place of the list
Assign(t, f) ==
  /\ adding[t] = None /\ canLock(t)
  /\ made < MaxNodes
  /\ list' = <<newNode(f)>>
  /\ made' = made + 1
  /\ silent' = (IF InCallback(t) THEN silent
                ELSE silent \cup (Functors \ {adding[s] : s \in Threads})) \ {f}
  /\ UNCHANGED <<typeOf, dangling, policy, invocation, adding>>

\* operator= has freed the list when new finds no memory; _last stays.
AssignFails(t) ==
  /\ adding[t] = None /\ canLock(t)
  /\ dangling' = (list # <<>>)
  /\ UNCHANGED <<typeOf, list, made, policy, invocation, adding, silent>>

--------------------------------------------------------------------------------
(***************************************************************************)
(* operator(): the delegate is called.                                     *)
(***************************************************************************)
\* Fault: the recursion begins at _last, not before it.
fromLast == list

\* InvokeDelegateList(_last->Previous)
beforeLast == SubSeq(list, 1, Len(list) - 1)

CallBegins(t) ==
  /\ adding[t] = None /\ holder = None /\ list # <<>> /\ ~dangling
  /\ holder' = t
  /\ older' = beforeLast
  /\ running' = None /\ atLast' = FALSE
  /\ begun' = list /\ heard' = <<>>
  /\ UNCHANGED <<typeOf, list, dangling, made, policy, adding, silent>>

InvokeOlder(t) ==
  /\ holder = t /\ running = None /\ older # <<>>
  /\ running' = Head(older).functor
  /\ heard' = Append(heard, Head(older))
  /\ older' = Tail(older)
  /\ UNCHANGED <<typeOf, list, dangling, made, policy, holder, atLast, begun, adding, silent>>

\* _last as it is after the callbacks of the older ones.  What a call does
\* when they took the last one out is undefined: here it goes no further.
InvokeLast(t) ==
  /\ holder = t /\ running = None /\ older = <<>> /\ ~atLast
  /\ list # <<>>
  /\ running' = list[Len(list)].functor
  /\ heard' = Append(heard, list[Len(list)])
  /\ atLast' = TRUE
  /\ UNCHANGED <<typeOf, list, dangling, made, policy, holder, older, begun, adding, silent>>

CallbackReturns(t) ==
  /\ InCallback(t) /\ adding[t] = None
  /\ running' = None
  /\ UNCHANGED <<typeOf, list, dangling, made, policy, holder, older, atLast, begun, heard, adding, silent>>

\* Fault: the mutex stays locked.
leftLocked == /\ older' = <<>> /\ begun' = <<>> /\ heard' = <<>>
              /\ running' = None /\ atLast' = FALSE
              /\ UNCHANGED holder

left == /\ holder' = None
        /\ older' = <<>> /\ begun' = <<>> /\ heard' = <<>>
        /\ running' = None /\ atLast' = FALSE

CallEnds(t) ==
  /\ holder = t /\ running = None /\ atLast
  /\ left
  /\ UNCHANGED <<typeOf, list, dangling, made, policy, adding, silent>>

\* The exception leaves the call; LockBlock unlocks.
CallbackThrows(t) ==
  /\ InCallback(t) /\ adding[t] = None
  /\ left
  /\ UNCHANGED <<typeOf, list, dangling, made, policy, adding, silent>>

callGoesOn(t) ==
  InvokeOlder(t) \/ InvokeLast(t) \/ CallbackReturns(t) \/ CallEnds(t)
=============================================================================
