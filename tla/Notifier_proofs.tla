-------------------------- MODULE Notifier_proofs ---------------------------
(***************************************************************************)
(* The invariants of Notifier, for any threads, functors, types and ways   *)
(* to use the delegate and the thread.                                     *)
(*                                                                         *)
(* The nodes that a call has yet to invoke stay in the list because only   *)
(* its own callbacks can lock the delegate meanwhile, and what they take   *)
(* out is the functor they are, which is not connected a second time; that *)
(* holds because Add finds it, with one thread connecting each functor.    *)
(***************************************************************************)
EXTENDS Notifier, SequenceTheorems, TLAPS

\* One thread of those the object has created is not over, the last.
ThreadInv ==
  /\ caller = "idle" => /\ mId = 0 /\ mThread = 0
                        /\ \A n \in Thread : state[n] \in {"none", "joined"}
  /\ caller # "idle" => /\ mThread \in Thread
                        /\ \A n \in Thread \ {mThread} : state[n] \in {"none", "joined"}
  /\ holder # None => \E n \in Thread : state[n] = "thread"

Distinct(s) == \A i, j \in DOMAIN s : s[i].functor = s[j].functor => i = j

\* What is being added is its owner's to add, and not connected yet.
AddingInv ==
  \A t \in Threads : adding[t] # None =>
    /\ owner[adding[t]] = t
    /\ adding[t] \notin silent
    /\ AddsSeen => ~connected(adding[t])

\* The nodes a call has yet to invoke, the last one as it was at the beginning
rest == Append(older, begun[Len(begun)])

CallInv ==
  /\ holder \in {None, Worker}
  /\ holder = None => running = None
  /\ holder = None \/ atLast => older = <<>>
  /\ holder # None /\ ~atLast /\ RemovesItself =>
       /\ begun # <<>> /\ Range(rest) \subseteq Range(list)
       /\ AddsSeen => Distinct(rest) /\ \A i \in DOMAIN rest : rest[i].functor # running

ListInv == AddsSeen => Distinct(list)

SilentInv == AddsSeen => \A f \in silent : running # f /\ ~connected(f)

DelegateInv ==
  DelegateTypeOK /\ ListInv /\ AddingInv /\ CallInv /\ SilentInv

Inv == TypeOK /\ ThreadInv /\ DelegateInv

--------------------------------------------------------------------------------
(***************************************************************************)
(* Lists of nodes.                                                         *)
(***************************************************************************)
LEMMA NodeFacts ==
  ASSUME NEW s \in Seq(Node)
  PROVE  /\ Len(s) \in Nat /\ DOMAIN s = 1 .. Len(s)
         /\ \A i \in DOMAIN s : s[i] \in Node /\ s[i].functor \in Functors
         /\ Range(s) = {s[i] : i \in DOMAIN s}
         /\ s # <<>> => Len(s) \in 1 .. Len(s)
<1>1. Len(s) \in Nat /\ DOMAIN s = 1 .. Len(s) /\ \A i \in DOMAIN s : s[i] \in Node
  BY LenProperties, ElementOfSeq
<1>2. s # <<>> => Len(s) # 0
  BY EmptySeq
<1> QED
  BY <1>1, <1>2 DEF Node, Range

LEMMA AppendFacts ==
  ASSUME NEW s \in Seq(Node), NEW node \in Node
  PROVE  LET r == Append(s, node)
         IN  /\ r \in Seq(Node) /\ Len(r) = Len(s) + 1 /\ DOMAIN r = 1 .. (Len(s) + 1)
             /\ \A i \in 1 .. Len(s) : r[i] = s[i]
             /\ r[Len(s) + 1] = node
             /\ Range(r) = Range(s) \cup {node}
<1> DEFINE r == Append(s, node)
<1>1. /\ r \in Seq(Node) /\ Len(r) = Len(s) + 1 /\ Len(s) \in Nat
      /\ \A i \in 1 .. Len(s) : r[i] = s[i]
      /\ r[Len(s) + 1] = node
  BY AppendProperties, LenProperties
<1>2. DOMAIN r = 1 .. (Len(s) + 1) /\ DOMAIN s = 1 .. Len(s)
  BY <1>1, LenProperties
<1> HIDE DEF r
<1>3. Range(r) = Range(s) \cup {node}
  BY <1>1, <1>2 DEF Range
<1> QED
  BY <1>1, <1>2, <1>3 DEF r

\* One functor more
LEMMA DistinctAppend ==
  ASSUME NEW s \in Seq(Node), Distinct(s), NEW node \in Node,
         \A i \in DOMAIN s : s[i].functor # node.functor
  PROVE  Distinct(Append(s, node))
<1> DEFINE r == Append(s, node)
<1>1. /\ DOMAIN r = 1 .. (Len(s) + 1) /\ DOMAIN s = 1 .. Len(s) /\ Len(s) \in Nat
      /\ \A i \in 1 .. Len(s) : r[i] = s[i]
      /\ r[Len(s) + 1] = node
  BY AppendFacts, NodeFacts
<1> HIDE DEF r
<1>2. Distinct(r)
  BY <1>1 DEF Distinct
<1> QED
  BY <1>2 DEF r

\* A node is taken out.
LEMMA WithoutFacts ==
  ASSUME list \in Seq(Node), NEW i \in DOMAIN list
  PROVE  /\ without(i) \in Seq(Node)
         /\ DOMAIN without(i) = 1 .. (Len(list) - 1)
         /\ \A j \in 1 .. (Len(list) - 1) :
              without(i)[j] = IF j < i THEN list[j] ELSE list[j + 1]
<1> DEFINE n == Len(list)
           before == SubSeq(list, 1, i - 1)
           after  == SubSeq(list, i + 1, n)
<1>1. n \in Nat /\ i \in 1 .. n /\ \A j \in 1 .. n : list[j] \in Node
  BY NodeFacts
<1>2. /\ before \in Seq(Node) /\ Len(before) = i - 1
      /\ \A j \in 1 .. (i - 1) : before[j] = list[j]
  <2>1. \A j \in 1 .. (i - 1) : list[j] \in Node
    BY <1>1
  <2> QED
    BY <1>1, <2>1, SubSeqProperties
<1>3. /\ after \in Seq(Node) /\ Len(after) = n - i
      /\ \A j \in 1 .. (n - i) : after[j] = list[i + j]
  <2>1. i + 1 \in Int /\ n \in Int /\ \A j \in (i + 1) .. n : list[j] \in Node
    BY <1>1
  <2>2. /\ after \in Seq(Node)
        /\ Len(after) = IF i + 1 <= n THEN n - (i + 1) + 1 ELSE 0
        /\ \A j \in 1 .. (n - (i + 1) + 1) : after[j] = list[(i + 1) + j - 1]
    BY <2>1, SubSeqProperties
  <2> HIDE DEF after, n
  <2>3. n - (i + 1) + 1 = n - i /\ (~(i + 1 <= n) => n - i = 0)
    BY <1>1
  <2>4. \A j \in 1 .. (n - i) : (i + 1) + j - 1 = i + j
    BY <1>1
  <2> QED
    BY <2>2, <2>3, <2>4
<1>4. without(i) = before \o after
  BY DEF without
<1> HIDE DEF before, after, n
<1>5. /\ without(i) \in Seq(Node) /\ Len(without(i)) = Len(before) + Len(after)
      /\ \A j \in 1 .. (Len(before) + Len(after)) :
           without(i)[j] = IF j <= Len(before) THEN before[j] ELSE after[j - Len(before)]
  <2>1. /\ before \o after \in Seq(Node) /\ Len(before \o after) = Len(before) + Len(after)
        /\ \A j \in 1 .. (Len(before) + Len(after)) :
             (before \o after)[j] = IF j <= Len(before) THEN before[j] ELSE after[j - Len(before)]
    BY <1>2, <1>3, ConcatProperties
  <2> QED
    BY <1>4, <2>1
<1>6. Len(before) + Len(after) = n - 1
  BY <1>1, <1>2, <1>3
<1>7. ASSUME NEW j \in 1 .. (n - 1)
      PROVE  without(i)[j] = IF j < i THEN list[j] ELSE list[j + 1]
  <2>1. CASE j < i
    BY <1>1, <1>2, <1>5, <1>6, <2>1
  <2>2. CASE j >= i
    <3>1. j - Len(before) \in 1 .. (n - i) /\ i + (j - Len(before)) = j + 1
      BY <1>1, <1>2, <2>2
    <3>2. j \in 1 .. (Len(before) + Len(after)) /\ ~(j <= Len(before))
      BY <1>1, <1>2, <1>6, <2>2
    <3>3. without(i)[j] = after[j - Len(before)]
      BY <1>5, <3>2
    <3> QED
      BY <1>1, <1>3, <2>2, <3>1, <3>3
  <2> QED
    BY <1>1, <2>1, <2>2
<1>8. DOMAIN without(i) = 1 .. (n - 1)
  BY <1>5, <1>6, LenProperties
<1> QED
  BY <1>5, <1>7, <1>8 DEF n

\* The others stay, in their order.
LEMMA WithoutKeeps ==
  ASSUME list \in Seq(Node), NEW i \in DOMAIN list
  PROVE  /\ Distinct(list) => Distinct(without(i))
         /\ Range(without(i)) \subseteq Range(list)
         /\ \A j \in DOMAIN list : j # i => list[j] \in Range(without(i))
         /\ Distinct(list) =>
              \A j \in DOMAIN without(i) : without(i)[j].functor # list[i].functor
<1> DEFINE n == Len(list)
           r == without(i)
           old(j) == IF j < i THEN j ELSE j + 1
<1>1. n \in Nat /\ i \in 1 .. n /\ DOMAIN list = 1 .. n
  BY NodeFacts
<1>2. DOMAIN r = 1 .. (n - 1) /\ \A j \in 1 .. (n - 1) : r[j] = list[old(j)]
  BY <1>1, WithoutFacts
<1>3. \A j \in 1 .. (n - 1) : old(j) \in 1 .. n /\ old(j) # i
  BY <1>1
<1>4. \A j, k \in 1 .. (n - 1) : old(j) = old(k) => j = k
  BY <1>1
<1> HIDE DEF r, n, old
<1>5. Distinct(list) => Distinct(r) /\ \A j \in DOMAIN r : r[j].functor # list[i].functor
  BY <1>1, <1>2, <1>3, <1>4 DEF Distinct
<1>6. Range(r) \subseteq Range(list)
  BY <1>1, <1>2, <1>3 DEF Range
<1>7. ASSUME NEW j \in DOMAIN list, j # i
      PROVE  list[j] \in Range(r)
  <2>1. PICK k \in 1 .. (n - 1) : old(k) = j
    <3>1. CASE j < i
      BY <1>1, <1>7, <3>1 DEF old
    <3>2. CASE j > i
      <4>1. j - 1 \in 1 .. (n - 1) /\ old(j - 1) = j
        BY <1>1, <1>7, <3>2 DEF old
      <4> QED
        BY <4>1
    <3> QED
      BY <1>1, <1>7, <3>1, <3>2
  <2> QED
    BY <1>2, <2>1 DEF Range
<1> QED
  BY <1>5, <1>6, <1>7 DEF r

--------------------------------------------------------------------------------
(***************************************************************************)
(* The delegate, method by method.                                         *)
(***************************************************************************)
\* The ways to use the delegate do not change.
LEMMA Steady ==
  ASSUME UNCHANGED <<typeOf, use>>
  PROVE  (AddsSeen' <=> AddsSeen) /\ (RemovesItself' <=> RemovesItself)
BY DEF AddsSeen, RemovesItself

LEMMA Outside ==
  ASSUME CallInv, NEW t \in Threads, t # Worker, canLock(t)
  PROVE  holder = None /\ running = None /\ older = <<>> /\ ~InCallback(t)
BY NotifierAssumption, DelegateAssumption DEF CallInv, canLock, InCallback

\* Exist sees a functor that is connected.
LEMMA ExistFinds ==
  ASSUME DelegateTypeOK, NEW f \in Functors, AddsSeen, use.again, connected(f)
  PROVE  Exist(f)
<1>1. list \in Seq(Node)
  BY DEF DelegateTypeOK
<1>2. PICK i \in DOMAIN list : list[i].functor = f
  BY DEF connected
<1>3. \A j \in i .. Len(list) : j \in DOMAIN list /\ list[j].functor \in Functors
  BY <1>1, <1>2, NodeFacts
<1> QED
  BY <1>2, <1>3 DEF Exist, AddsSeen

LEMMA AddBeginsKeeps ==
  ASSUME DelegateInv, NEW t \in Threads, NEW f \in Functors, owner[f] = t,
         use.again \/ ~connected(f), AddBegins(t, f), UNCHANGED use
  PROVE  DelegateInv'
<1>1. /\ adding[t] = None /\ ~Exist(f)
      /\ adding' = [adding EXCEPT ![t] = f] /\ silent' = silent \ {f}
      /\ UNCHANGED <<typeOf, list, dangling, made, policy, holder, older, running, atLast, begun, heard>>
  BY DEF AddBegins, invocation
<1>2. DelegateTypeOK'
  BY <1>1 DEF DelegateInv, DelegateTypeOK
<1>3. AddsSeen' <=> AddsSeen
  BY <1>1, Steady
<1>4. AddsSeen => ~connected(f)
  BY <1>1, ExistFinds DEF DelegateInv
<1>5. ListInv' /\ SilentInv'
  BY <1>1, <1>3 DEF DelegateInv, ListInv, SilentInv, connected
<1>6. AddingInv'
  <2> SUFFICES ASSUME NEW u \in Threads, adding'[u] # None
               PROVE  /\ owner[adding'[u]] = u /\ adding'[u] \notin silent'
                      /\ AddsSeen => ~connected(adding'[u])
    BY <1>1, <1>3 DEF AddingInv, connected
  <2>1. adding \in [Threads -> Functors \cup {None}]
    BY DEF DelegateInv, DelegateTypeOK
  <2>2. CASE u = t
    BY <1>1, <1>4, <2>1, <2>2
  <2>3. CASE u # t
    BY <1>1, <2>1, <2>3 DEF DelegateInv, AddingInv
  <2> QED
    BY <2>2, <2>3
<1>7. CallInv'
  BY <1>1, <1>3, Steady DEF DelegateInv, CallInv, rest
<1> QED
  BY <1>2, <1>5, <1>6, <1>7 DEF DelegateInv

\* Add without memory: no functor is added any more.
LEMMA AddFailsKeeps ==
  ASSUME DelegateInv, NEW t \in Threads, AddInserts(t), UNCHANGED <<list, made, use>>
  PROVE  DelegateInv'
<1>1. /\ adding' = [adding EXCEPT ![t] = None]
      /\ UNCHANGED <<typeOf, dangling, policy, silent, holder, older, running, atLast, begun, heard>>
  BY DEF AddInserts, invocation
<1>2. adding \in [Threads -> Functors \cup {None}]
  BY DEF DelegateInv, DelegateTypeOK
<1>3. (AddsSeen' <=> AddsSeen) /\ (RemovesItself' <=> RemovesItself)
  BY <1>1, Steady
<1>4. adding' \in [Threads -> Functors \cup {None}]
  BY <1>1, <1>2
<1>5. DelegateTypeOK'
  BY <1>1, <1>4 DEF DelegateInv, DelegateTypeOK
<1>6. \A u \in Threads : adding'[u] # None => adding'[u] = adding[u]
  BY <1>1, <1>2
<1>7. AddingInv'
  BY <1>1, <1>3, <1>6 DEF DelegateInv, AddingInv, connected
<1>8. ListInv' /\ SilentInv' /\ CallInv'
  BY <1>1, <1>3 DEF DelegateInv, ListInv, SilentInv, CallInv, rest, connected
<1> QED
  BY <1>5, <1>7, <1>8 DEF DelegateInv

LEMMA AddInsertsKeeps ==
  ASSUME DelegateInv, NEW t \in Threads, AddInserts(t), UNCHANGED use
  PROVE  DelegateInv'
<1> SUFFICES ASSUME ~UNCHANGED <<list, made>>
             PROVE  DelegateInv'
  BY AddFailsKeeps
<1> DEFINE f == adding[t]
           node == newNode(f)
<1>1. /\ f # None /\ made < MaxNodes
      /\ list' = Append(list, node) /\ made' = made + 1
      /\ adding' = [adding EXCEPT ![t] = None]
      /\ UNCHANGED <<typeOf, dangling, policy, silent, holder, older, running, atLast, begun, heard>>
  BY DEF AddInserts, invocation
<1>2. /\ list \in Seq(Node) /\ adding \in [Threads -> Functors \cup {None}]
      /\ made \in 0 .. MaxNodes /\ MaxNodes \in Nat /\ f \in Functors
  BY <1>1, DelegateAssumption DEF DelegateInv, DelegateTypeOK
<1>3. node \in Node /\ node.functor = f
  BY <1>1, <1>2 DEF newNode, Node
<1>4. /\ list' \in Seq(Node) /\ Range(list') = Range(list) \cup {node}
      /\ DOMAIN list' = 1 .. (Len(list) + 1) /\ DOMAIN list = 1 .. Len(list) /\ Len(list) \in Nat
      /\ \A i \in 1 .. Len(list) : list'[i] = list[i]
      /\ list'[Len(list) + 1] = node
  BY <1>1, <1>2, <1>3, AppendFacts, NodeFacts
<1>5. owner[f] = t /\ f \notin silent /\ (AddsSeen => ~connected(f))
  BY <1>1 DEF DelegateInv, AddingInv
<1> HIDE DEF node, f
<1>6. (AddsSeen' <=> AddsSeen) /\ (RemovesItself' <=> RemovesItself)
  BY <1>1, Steady
<1>7. DelegateTypeOK'
  <2>1. made' \in 0 .. MaxNodes
    BY <1>1, <1>2
  <2>2. adding' \in [Threads -> Functors \cup {None}]
    BY <1>1, <1>2
  <2> QED
    BY <1>1, <1>4, <2>1, <2>2 DEF DelegateInv, DelegateTypeOK
<1>8. ListInv'
  <2>1. ASSUME AddsSeen
        PROVE  Distinct(list')
    <3>1. \A i \in DOMAIN list : list[i].functor # node.functor
      BY <1>3, <1>5, <2>1 DEF connected
    <3> QED
      BY <1>1, <1>2, <1>3, <2>1, <3>1, DistinctAppend DEF DelegateInv, ListInv
  <2> QED
    BY <1>6, <2>1 DEF ListInv
<1>10. AddingInv'
  <2> SUFFICES ASSUME NEW u \in Threads, adding'[u] # None
               PROVE  /\ owner[adding'[u]] = u /\ adding'[u] \notin silent'
                      /\ AddsSeen => \A i \in DOMAIN list' : list'[i].functor # adding'[u]
    BY <1>6 DEF AddingInv, connected
  <2>1. u # t /\ adding'[u] = adding[u]
    BY <1>1, <1>2
  <2>2. owner[adding[u]] = u /\ adding[u] \notin silent /\ (AddsSeen => ~connected(adding[u]))
    BY <2>1 DEF DelegateInv, AddingInv
  <2>3. adding[u] # f
    BY <1>5, <2>1, <2>2
  <2>4. AddsSeen => \A i \in DOMAIN list' : list'[i].functor # adding[u]
    BY <1>3, <1>4, <2>2, <2>3 DEF connected
  <2> QED
    BY <1>1, <2>1, <2>2, <2>4
<1>11. CallInv'
  BY <1>1, <1>4, <1>6 DEF DelegateInv, CallInv, rest
<1>12. SilentInv'
  <2> SUFFICES ASSUME AddsSeen, NEW g \in silent
               PROVE  running # g /\ \A i \in DOMAIN list' : list'[i].functor # g
    BY <1>1, <1>6 DEF SilentInv, connected
  <2>1. running # g /\ \A i \in DOMAIN list : list[i].functor # g
    BY DEF DelegateInv, SilentInv, connected
  <2>2. g # f
    BY <1>5
  <2> QED
    BY <1>3, <1>4, <2>1, <2>2
<1> QED
  BY <1>7, <1>8, <1>10, <1>11, <1>12 DEF DelegateInv

\* Removing, from outside or by the callback of the functor itself
LEMMA RemoveKeeps ==
  ASSUME DelegateInv, NEW t \in Threads, NEW f \in Functors, Remove(t, f), UNCHANGED use,
         \/ t # Worker
         \/ InCallback(t) /\ f = running /\ "remove" \in use.inCallback
  PROVE  DelegateInv'
<1>1. PICK i \in DOMAIN list : list[i].functor = f /\ list' = without(i)
  BY DEF Remove
<1>2. /\ adding[t] = None /\ canLock(t)
      /\ UNCHANGED <<typeOf, dangling, made, policy, adding, holder, older, running, atLast, begun, heard>>
      /\ silent' = IF InCallback(t) THEN silent ELSE silent \cup ({f} \ {adding[u] : u \in Threads})
  BY DEF Remove, invocation, disconnected
<1>3. list \in Seq(Node) /\ silent \subseteq Functors
  BY DEF DelegateInv, DelegateTypeOK
<1>4. /\ list' \in Seq(Node) /\ Range(list') \subseteq Range(list)
      /\ Distinct(list) => Distinct(list')
      /\ Distinct(list) => \A j \in DOMAIN list' : list'[j].functor # f
      /\ \A j \in DOMAIN list : j # i => list[j] \in Range(list')
  BY <1>1, <1>3, WithoutFacts, WithoutKeeps
<1>5. (AddsSeen' <=> AddsSeen) /\ (RemovesItself' <=> RemovesItself)
  BY <1>2, Steady
<1>6. silent' \subseteq silent \cup {f}
  BY <1>2
<1>7. DelegateTypeOK'
  BY <1>2, <1>3, <1>4, <1>6 DEF DelegateInv, DelegateTypeOK
<1>8. ListInv'
  BY <1>4, <1>5 DEF DelegateInv, ListInv
<1>9. \A j \in DOMAIN list' : \E k \in DOMAIN list : list'[j] = list[k]
  BY <1>4 DEF Range
<1>10. AddingInv'
  <2> SUFFICES ASSUME NEW u \in Threads, adding[u] # None
               PROVE  /\ owner[adding[u]] = u /\ adding[u] \notin silent'
                      /\ AddsSeen => \A j \in DOMAIN list' : list'[j].functor # adding[u]
    BY <1>2, <1>5 DEF AddingInv, connected
  <2>1. owner[adding[u]] = u /\ adding[u] \notin silent /\ (AddsSeen => ~connected(adding[u]))
    BY DEF DelegateInv, AddingInv
  <2> QED
    BY <1>2, <1>9, <2>1 DEF connected
<1>11. CASE t # Worker
  <2>1. holder = None /\ running = None /\ older = <<>> /\ ~InCallback(t)
    BY <1>2, <1>11, Outside DEF DelegateInv
  <2>2. CallInv'
    BY <1>2, <2>1 DEF DelegateInv, CallInv
  <2>3. SilentInv'
    <3> SUFFICES ASSUME AddsSeen, NEW g \in silent'
                 PROVE  running # g /\ \A j \in DOMAIN list' : list'[j].functor # g
      BY <1>2, <1>5 DEF SilentInv, connected
    <3>1. running # g
      BY <1>3, <1>6, <2>1, DelegateAssumption
    <3>2. CASE g = f
      BY <1>4, <3>1, <3>2 DEF DelegateInv, ListInv
    <3>3. CASE g \in silent
      BY <1>9, <3>1, <3>3 DEF DelegateInv, SilentInv, connected
    <3> QED
      BY <1>6, <3>2, <3>3
  <2> QED
    BY <1>7, <1>8, <1>10, <2>2, <2>3 DEF DelegateInv
<1>12. CASE InCallback(t) /\ f = running /\ "remove" \in use.inCallback
  <2>1. silent' = silent /\ (RemovesItself => AddsSeen) /\ holder # None
    <3>1. holder # None
      BY <1>12, DelegateAssumption DEF InCallback
    <3> QED
      BY <1>2, <1>12, <3>1 DEF RemovesItself
  <2>2. CallInv'
    <3> SUFFICES ASSUME ~atLast, RemovesItself
                 PROVE  Range(rest) \subseteq Range(list')
      BY <1>2, <1>5, <2>1 DEF DelegateInv, CallInv, rest
    <3>1. /\ Range(rest) \subseteq Range(list)
          /\ \A k \in DOMAIN rest : rest[k].functor # running
      BY <2>1 DEF DelegateInv, CallInv
    <3>2. ASSUME NEW k \in DOMAIN rest
          PROVE  rest[k] \in Range(list')
      <4>1. PICK j \in DOMAIN list : rest[k] = list[j]
        BY <3>1 DEF Range
      <4>2. j # i
        BY <1>1, <1>12, <3>1, <4>1
      <4> QED
        BY <1>4, <4>1, <4>2
    <3> QED
      BY <3>2 DEF Range
  <2>3. SilentInv'
    BY <1>2, <1>5, <1>9, <2>1 DEF DelegateInv, SilentInv, connected
  <2> QED
    BY <1>7, <1>8, <1>10, <2>2, <2>3 DEF DelegateInv
<1> QED
  BY <1>11, <1>12

\* From outside, the list is emptied or given one functor.
LEMMA ReplaceKeeps ==
  ASSUME DelegateInv, NEW t \in Threads, t # Worker, UNCHANGED use,
         Clear(t) \/ \E f \in Functors : owner[f] = t /\ Assign(t, f)
  PROVE  DelegateInv'
<1>1. /\ adding[t] = None /\ canLock(t)
      /\ UNCHANGED <<typeOf, dangling, policy, adding, holder, older, running, atLast, begun, heard>>
  BY DEF Clear, Assign, invocation
<1>2. holder = None /\ running = None /\ older = <<>> /\ ~InCallback(t)
  BY <1>1, Outside DEF DelegateInv
<1>3. AddsSeen' <=> AddsSeen
  BY <1>1, Steady
<1>4. CallInv'
  BY <1>1, <1>2 DEF DelegateInv, CallInv
<1>5. silent \subseteq Functors /\ made \in 0 .. MaxNodes /\ MaxNodes \in Nat
  BY DelegateAssumption DEF DelegateInv, DelegateTypeOK
<1>6. CASE Clear(t)
  <2>1. /\ list' = <<>> /\ made' = made
        /\ silent' = silent \cup (Functors \ {adding[u] : u \in Threads})
    BY <1>2, <1>6 DEF Clear, disconnected
  <2>2. list' \in Seq(Node) /\ DOMAIN list' = {}
    BY <2>1, EmptySeq
  <2>3. DelegateTypeOK'
    BY <1>1, <1>5, <2>1, <2>2 DEF DelegateInv, DelegateTypeOK
  <2>4. ListInv' /\ SilentInv'
    BY <1>1, <1>2, <1>5, <2>1, <2>2, DelegateAssumption
       DEF ListInv, Distinct, SilentInv, connected
  <2>5. AddingInv'
    BY <1>1, <2>1, <2>2 DEF DelegateInv, AddingInv, connected
  <2> QED
    BY <1>4, <2>3, <2>4, <2>5 DEF DelegateInv
<1>7. ASSUME NEW f \in Functors, owner[f] = t, Assign(t, f)
      PROVE  DelegateInv'
  <2> DEFINE node == newNode(f)
  <2>1. /\ list' = <<node>> /\ made' = made + 1 /\ made < MaxNodes
        /\ silent' = (silent \cup (Functors \ {adding[u] : u \in Threads})) \ {f}
    BY <1>2, <1>7 DEF Assign
  <2>2. node \in Node /\ node.functor = f
    BY <1>5, <2>1 DEF newNode, Node
  <2> HIDE DEF node
  <2>3. list' \in Seq(Node) /\ DOMAIN list' = {1} /\ list'[1] = node
    BY <2>1, <2>2
  <2>4. made' \in 0 .. MaxNodes /\ silent' \subseteq Functors
    BY <1>5, <2>1
  <2>5. DelegateTypeOK'
    BY <1>1, <2>3, <2>4 DEF DelegateInv, DelegateTypeOK
  <2>6. ListInv'
    BY <2>3 DEF ListInv, Distinct
  <2>7. SilentInv'
    <3>1. \A g \in silent' : g # f /\ g # None
      BY <2>1, <2>4, DelegateAssumption
    <3> QED
      BY <1>1, <1>2, <2>2, <2>3, <3>1 DEF SilentInv, connected
  <2>8. AddingInv'
    <3> SUFFICES ASSUME NEW u \in Threads, adding[u] # None
                 PROVE  /\ owner[adding[u]] = u /\ adding[u] \notin silent'
                        /\ AddsSeen => \A j \in DOMAIN list' : list'[j].functor # adding[u]
      BY <1>1, <1>3 DEF AddingInv, connected
    <3>1. owner[adding[u]] = u /\ adding[u] \notin silent
      BY DEF DelegateInv, AddingInv
    <3>2. adding[u] # f
      BY <1>1, <1>7, <3>1
    <3> QED
      BY <2>1, <2>2, <2>3, <3>1, <3>2
  <2> QED
    BY <1>4, <2>5, <2>6, <2>7, <2>8 DEF DelegateInv
<1> QED
  BY <1>6, <1>7

\* operator= without memory: _last stays.
LEMMA AssignFailsKeeps ==
  ASSUME DelegateInv, NEW t \in Threads, AssignFails(t), UNCHANGED use
  PROVE  DelegateInv'
<1>1. /\ dangling' \in BOOLEAN
      /\ UNCHANGED <<typeOf, list, made, policy, holder, older, running, atLast, begun, heard,
                     adding, silent>>
  BY DEF AssignFails, invocation
<1>2. (AddsSeen' <=> AddsSeen) /\ (RemovesItself' <=> RemovesItself)
  BY <1>1, Steady
<1>3. DelegateTypeOK'
  BY <1>1 DEF DelegateInv, DelegateTypeOK
<1>4. ListInv' /\ AddingInv' /\ SilentInv' /\ CallInv'
  BY <1>1, <1>2 DEF DelegateInv, ListInv, AddingInv, SilentInv, CallInv, rest, connected
<1> QED
  BY <1>3, <1>4 DEF DelegateInv

--------------------------------------------------------------------------------
(***************************************************************************)
(* The call of the delegate.                                               *)
(***************************************************************************)
\* Calling does not change the list: what is left to show is CallInv, and of a
\* functor that it calls that it is connected.
LEMMA CallStep ==
  ASSUME DelegateInv, DelegateTypeOK', CallInv',
         UNCHANGED <<typeOf, list, dangling, made, policy, adding, silent, use>>,
         running' = None \/ (AddsSeen => connected(running'))
  PROVE  DelegateInv'
<1>1. AddsSeen' <=> AddsSeen
  BY Steady
<1>2. \A f \in silent : f # None
  BY DelegateAssumption DEF DelegateInv, DelegateTypeOK
<1>3. SilentInv'
  BY <1>1, <1>2 DEF DelegateInv, SilentInv, connected
<1>4. ListInv' /\ AddingInv'
  BY <1>1 DEF DelegateInv, ListInv, AddingInv, connected
<1> QED
  BY <1>3, <1>4 DEF DelegateInv

LEMMA CallBeginsKeeps ==
  ASSUME DelegateInv, CallBegins(Worker), UNCHANGED use
  PROVE  DelegateInv'
<1>1. /\ list # <<>> /\ holder' = Worker /\ older' = SubSeq(list, 1, Len(list) - 1)
      /\ running' = None /\ atLast' = FALSE /\ begun' = list /\ heard' = <<>>
      /\ UNCHANGED <<typeOf, list, dangling, made, policy, adding, silent>>
  BY DEF CallBegins, beforeLast
<1>2. list \in Seq(Node)
  BY DEF DelegateInv, DelegateTypeOK
<1>3. /\ Len(list) \in 1 .. Len(list) /\ Len(list) \in Nat /\ DOMAIN list = 1 .. Len(list)
      /\ \A i \in DOMAIN list : list[i] \in Node /\ list[i].functor \in Functors
  BY <1>1, <1>2, NodeFacts
<1>4. /\ older' \in Seq(Node) /\ Len(older') = Len(list) - 1
      /\ \A i \in 1 .. (Len(list) - 1) : older'[i] = list[i]
  <2>1. \A i \in 1 .. (Len(list) - 1) : list[i] \in Node
    BY <1>3
  <2>2. 1 \in Int /\ Len(list) - 1 \in Int
    BY <1>3
  <2> QED
    BY <1>1, <1>3, <2>1, <2>2, SubSeqProperties
<1>5. rest' = Append(older', list[Len(list)])
  BY <1>1 DEF rest
<1>6. /\ DOMAIN rest' = DOMAIN list
      /\ \A i \in DOMAIN list : rest'[i] = list[i]
  <2> DEFINE last == list[Len(list)]
  <2>1. last \in Node
    BY <1>3
  <2> HIDE DEF last
  <2>2. /\ DOMAIN rest' = 1 .. (Len(older') + 1)
        /\ \A i \in 1 .. Len(older') : rest'[i] = older'[i]
        /\ rest'[Len(older') + 1] = last
    <3>1. rest' = Append(older', last)
      BY <1>5 DEF last
    <3> QED
      BY <1>4, <2>1, <3>1, AppendFacts
  <2>3. Len(older') + 1 = Len(list)
    BY <1>3, <1>4
  <2>4. \A i \in 1 .. Len(list) : i \in 1 .. (Len(list) - 1) \/ i = Len(list)
    <3>1. Len(list) \in Nat
      BY <1>3
    <3> QED
      BY ONLY <3>1
  <2> QED
    BY <1>3, <1>4, <2>2, <2>3, <2>4 DEF last
<1>7. DelegateTypeOK'
  BY <1>1, <1>2, <1>4, NotifierAssumption, EmptySeq DEF DelegateInv, DelegateTypeOK
<1>8. CallInv'
  <2>1. holder' \in {None, Worker} /\ holder' # None /\ ~atLast' /\ begun' # <<>>
    BY <1>1, NotifierAssumption, DelegateAssumption
  <2>2. Range(rest') \subseteq Range(list')
    BY <1>1, <1>6 DEF Range
  <2>3. AddsSeen' => Distinct(rest')
    BY <1>1, <1>6, Steady DEF DelegateInv, ListInv, Distinct
  <2>4. \A i \in DOMAIN rest' : rest'[i].functor # running'
    BY <1>1, <1>3, <1>6, DelegateAssumption
  <2> QED
    BY <2>1, <2>2, <2>3, <2>4 DEF CallInv
<1> QED
  BY <1>1, <1>7, <1>8, CallStep

LEMMA InvokeOlderKeeps ==
  ASSUME DelegateInv, InvokeOlder(Worker), UNCHANGED use
  PROVE  DelegateInv'
<1>1. /\ older # <<>> /\ running' = Head(older).functor /\ older' = Tail(older)
      /\ heard' = Append(heard, Head(older)) /\ holder = Worker
      /\ UNCHANGED <<typeOf, list, dangling, made, policy, holder, atLast, begun, adding, silent>>
  BY DEF InvokeOlder
<1>2. older \in Seq(Node) /\ heard \in Seq(Node) /\ begun \in Seq(Node)
  BY DEF DelegateInv, DelegateTypeOK
<1>3. /\ Len(older) \in Nat \ {0} /\ DOMAIN older = 1 .. Len(older)
      /\ older' \in Seq(Node) /\ Len(older') = Len(older) - 1
      /\ \A i \in 1 .. (Len(older) - 1) : older'[i] = older[i + 1]
      /\ Head(older) = older[1] /\ Head(older) \in Node /\ Head(older).functor \in Functors
  BY <1>1, <1>2, NodeFacts, HeadTailProperties
<1>4. holder # None /\ ~atLast
  BY <1>1, NotifierAssumption, DelegateAssumption DEF DelegateInv, CallInv
<1>5. (AddsSeen' <=> AddsSeen) /\ (RemovesItself' <=> RemovesItself)
  BY <1>1, Steady
<1>6. DelegateTypeOK'
  BY <1>1, <1>2, <1>3, AppendProperties DEF DelegateInv, DelegateTypeOK
<1> DEFINE last == begun[Len(begun)]
<1>7. ASSUME RemovesItself
      PROVE  /\ begun # <<>> /\ Range(rest) \subseteq Range(list)
             /\ AddsSeen => Distinct(rest)
             /\ DOMAIN rest = 1 .. (Len(older) + 1)
             /\ \A i \in 1 .. Len(older) : rest[i] = older[i]
             /\ DOMAIN rest' = 1 .. Len(older)
             /\ \A i \in 1 .. Len(older) : rest'[i] = rest[i + 1]
  <2>1. /\ begun # <<>> /\ Range(rest) \subseteq Range(list)
        /\ AddsSeen => Distinct(rest)
    BY <1>4, <1>7 DEF DelegateInv, CallInv
  <2>2. last \in Node
    BY <1>2, <2>1, NodeFacts
  <2> HIDE DEF last
  <2>3. rest = Append(older, last) /\ rest' = Append(older', last)
    BY <1>1 DEF rest, last
  <2>4. /\ DOMAIN rest = 1 .. (Len(older) + 1)
        /\ \A i \in 1 .. Len(older) : rest[i] = older[i]
        /\ rest[Len(older) + 1] = last
    BY <1>2, <2>2, <2>3, AppendFacts
  <2>5. /\ DOMAIN rest' = 1 .. (Len(older') + 1)
        /\ \A i \in 1 .. Len(older') : rest'[i] = older'[i]
        /\ rest'[Len(older') + 1] = last
    BY <1>3, <2>2, <2>3, AppendFacts
  <2>6. DOMAIN rest' = 1 .. Len(older)
    BY <1>3, <2>5
  <2>7. \A i \in 1 .. Len(older) : rest'[i] = rest[i + 1]
    BY <1>3, <2>4, <2>5
  <2> QED
    BY <2>1, <2>4, <2>6, <2>7
<1>8. CallInv'
  <2>1. ASSUME RemovesItself
        PROVE  /\ begun # <<>> /\ Range(rest') \subseteq Range(list)
               /\ AddsSeen => Distinct(rest') /\ \A i \in DOMAIN rest' : rest'[i].functor # running'
    <3>1. Range(rest') \subseteq Range(rest)
      BY <1>3, <1>7, <2>1 DEF Range
    <3>2. AddsSeen => Distinct(rest')
      <4> SUFFICES ASSUME AddsSeen, NEW i \in 1 .. Len(older), NEW j \in 1 .. Len(older),
                          rest[i + 1].functor = rest[j + 1].functor
                   PROVE  i = j
        BY <1>7, <2>1 DEF Distinct
      <4>1. i + 1 \in DOMAIN rest /\ j + 1 \in DOMAIN rest /\ Distinct(rest)
        BY <1>3, <1>7, <2>1
      <4>2. i + 1 = j + 1
        BY <4>1 DEF Distinct
      <4> QED
        BY <1>3, <4>2
    <3>3. AddsSeen => \A i \in DOMAIN rest' : rest'[i].functor # rest[1].functor
      <4> SUFFICES ASSUME AddsSeen, NEW i \in 1 .. Len(older)
                   PROVE  rest[i + 1].functor # rest[1].functor
        BY <1>7, <2>1
      <4>1. i + 1 \in DOMAIN rest /\ 1 \in DOMAIN rest /\ i + 1 # 1
        BY <1>3, <1>7, <2>1
      <4>2. Distinct(rest)
        BY <1>7, <2>1
      <4> QED
        BY <4>1, <4>2 DEF Distinct
    <3>4. rest[1].functor = running'
      BY <1>1, <1>3, <1>7, <2>1
    <3> QED
      BY <1>7, <2>1, <3>1, <3>2, <3>3, <3>4
  <2> QED
    BY <1>1, <1>4, <1>5, <2>1 DEF DelegateInv, CallInv
<1>9. AddsSeen => connected(running')
  <2> SUFFICES ASSUME AddsSeen
               PROVE  connected(running')
    OBVIOUS
  <2>1. RemovesItself
    BY DEF RemovesItself
  <2>2. 1 \in DOMAIN rest /\ rest[1].functor = running'
    BY <1>1, <1>3, <1>7, <2>1
  <2>3. \E i \in DOMAIN list : list[i] = rest[1]
    BY <1>7, <2>1, <2>2 DEF Range
  <2> QED
    BY <2>2, <2>3 DEF connected
<1> QED
  BY <1>1, <1>6, <1>8, <1>9, CallStep

LEMMA InvokeLastKeeps ==
  ASSUME DelegateInv, InvokeLast(Worker), UNCHANGED use
  PROVE  DelegateInv'
<1>1. /\ list # <<>> /\ running' = list[Len(list)].functor /\ older = <<>>
      /\ heard' = Append(heard, list[Len(list)]) /\ atLast' = TRUE
      /\ UNCHANGED <<typeOf, list, dangling, made, policy, holder, older, begun, adding, silent>>
      /\ holder = Worker
  BY DEF InvokeLast
<1>2. list \in Seq(Node) /\ heard \in Seq(Node)
  BY DEF DelegateInv, DelegateTypeOK
<1>3. /\ Len(list) \in DOMAIN list
      /\ list[Len(list)] \in Node /\ list[Len(list)].functor \in Functors
  BY <1>1, <1>2, NodeFacts
<1>4. DelegateTypeOK'
  <2>1. atLast' \in BOOLEAN
    BY <1>1
  <2> QED
    BY <1>1, <1>2, <1>3, <2>1, AppendProperties DEF DelegateInv, DelegateTypeOK
<1>5. CallInv'
  BY <1>1, NotifierAssumption, DelegateAssumption DEF CallInv
<1>6. connected(running')
  BY <1>1, <1>3 DEF connected
<1> QED
  BY <1>1, <1>4, <1>5, <1>6, CallStep

LEMMA CallbackReturnsKeeps ==
  ASSUME DelegateInv, CallbackReturns(Worker), UNCHANGED use
  PROVE  DelegateInv'
<1>1. /\ running' = None
      /\ UNCHANGED <<typeOf, list, dangling, made, policy, holder, older, atLast, begun, heard, adding, silent>>
  BY DEF CallbackReturns
<1>2. DelegateTypeOK'
  BY <1>1 DEF DelegateInv, DelegateTypeOK
<1>3. (AddsSeen' <=> AddsSeen) /\ (RemovesItself' <=> RemovesItself)
  BY <1>1, Steady
<1>4. CallInv'
  <2>1. rest' = rest
    BY <1>1 DEF rest
  <2>2. ASSUME holder # None, ~atLast, RemovesItself
        PROVE  \A i \in DOMAIN rest : rest[i].functor # None
    <3>1. begun \in Seq(Node) /\ older \in Seq(Node) /\ begun # <<>>
      BY <2>2 DEF DelegateInv, DelegateTypeOK, CallInv
    <3>2. begun[Len(begun)] \in Node
      BY <3>1, NodeFacts
    <3>3. rest \in Seq(Node)
      BY <3>1, <3>2, AppendFacts DEF rest
    <3> QED
      BY <3>3, NodeFacts, DelegateAssumption
  <2> QED
    BY <1>1, <1>3, <2>1, <2>2 DEF DelegateInv, CallInv
<1> QED
  BY <1>1, <1>2, <1>4, CallStep

\* The call returns, or an exception leaves it.
LEMMA CallLeaves ==
  ASSUME DelegateInv, CallEnds(Worker) \/ CallbackThrows(Worker), UNCHANGED use
  PROVE  DelegateInv' /\ holder' = None
<1>1. /\ holder' = None /\ running' = None /\ older' = <<>> /\ atLast' = FALSE
      /\ begun' = <<>> /\ heard' = <<>>
      /\ UNCHANGED <<typeOf, list, dangling, made, policy, adding, silent>>
  BY DEF CallEnds, CallbackThrows, left
<1>2. DelegateTypeOK'
  BY <1>1, EmptySeq DEF DelegateInv, DelegateTypeOK
<1>3. CallInv'
  BY <1>1 DEF CallInv
<1> QED
  BY <1>1, <1>2, <1>3, CallStep

--------------------------------------------------------------------------------
(***************************************************************************)
(* The thread, and both together.                                          *)
(***************************************************************************)
\* The thread's actions leave the delegate alone.
LEMMA DelegateKept ==
  ASSUME DelegateInv, UNCHANGED <<delegateVars, use>>
  PROVE  DelegateInv'
<1>1. UNCHANGED <<typeOf, list, dangling, made, policy, holder, older, running, atLast, begun, heard,
                  adding, silent, use>>
  BY DEF delegateVars, invocation
<1>2. DelegateTypeOK' /\ rest' = rest
  BY <1>1 DEF DelegateInv, DelegateTypeOK, rest
<1>3. (AddsSeen' <=> AddsSeen) /\ (RemovesItself' <=> RemovesItself)
  BY <1>1, Steady
<1> QED
  BY <1>1, <1>2, <1>3
     DEF DelegateInv, ListInv, AddingInv, CallInv, SilentInv, connected

LEMMA ThreadTypes ==
  ASSUME ThreadTypeOK, constructs \/ joins \/ returns \/ wrapper
  PROVE  ThreadTypeOK'
<1>1. CASE run
  <2>1. UNCHANGED <<mId, mShutdown>> /\ mThread' \in Thread /\ caller' = "run"
    BY <1>1 DEF run
  <2>2. state' \in [Thread -> {"none", "thread", "returned", "ended", "joined"}]
    BY <1>1 DEF run, ThreadTypeOK
  <2> QED
    BY <2>1, <2>2 DEF ThreadTypeOK
<1>2. CASE runStoresId \/ joinBegins
  BY <1>2 DEF ThreadTypeOK, runStoresId, joinBegins
<1>3. CASE shutdown
  BY <1>3 DEF ThreadTypeOK, shutdown
<1>4. CASE joinEnds
  BY <1>4 DEF ThreadTypeOK, joinEnds
<1>5. CASE \E n \in Thread : threadReturns(n) \/ threadClearsId(n)
  BY <1>5 DEF ThreadTypeOK, threadReturns, threadClearsId
<1> QED
  BY <1>1, <1>2, <1>3, <1>4, <1>5 DEF constructs, joins, returns, wrapper

\* One thread at most is not over.
LEMMA ThreadStep ==
  ASSUME ThreadTypeOK, ThreadInv, CallInv, constructs \/ joins \/ returns \/ wrapper
  PROVE  ThreadInv'
<1>1. holder' = holder
  BY DEF constructs, joins, returns, wrapper, delegateVars, invocation
<1>2. state \in [Thread -> {"none", "thread", "returned", "ended", "joined"}] /\ 0 \notin Thread
  BY DEF ThreadTypeOK, Thread
<1>3. CASE run
  <2>1. PICK n \in Thread : /\ state[n] = "none" /\ mThread' = n
                            /\ state' = [state EXCEPT ![n] = "thread"]
    BY <1>3 DEF run
  <2>2. caller = "idle" /\ caller' = "run"
    BY <1>3 DEF run
  <2> QED
    BY <1>1, <1>2, <2>1, <2>2 DEF ThreadInv
<1>4. CASE runStoresId
  BY <1>1, <1>4 DEF runStoresId, ThreadInv
<1>5. CASE shutdown /\ caller = "started"
  BY <1>1, <1>5 DEF shutdown, ThreadInv
<1>6. CASE joinBegins
  BY <1>1, <1>6 DEF joinBegins, ThreadInv
<1>7. CASE joinEnds
  <2>1. /\ caller = "join" /\ state[mThread] = "ended" /\ mThread' = 0 /\ mId' = 0
        /\ state' = [state EXCEPT ![mThread] = "joined"] /\ caller' = "idle"
    BY <1>7 DEF joinEnds
  <2>2. mThread \in Thread /\ \A n \in Thread \ {mThread} : state[n] \in {"none", "joined"}
    BY <2>1 DEF ThreadInv
  <2>3. holder = None
    BY <2>1, <2>2 DEF ThreadInv
  <2>4. \A n \in Thread : state'[n] \in {"none", "joined"}
    BY <1>2, <2>1, <2>2
  <2> QED
    BY <1>1, <2>1, <2>3, <2>4 DEF ThreadInv
<1>8. ASSUME NEW n \in Thread, threadReturns(n), holder # Worker
      PROVE  ThreadInv'
  <2>1. /\ state[n] = "thread" /\ state' = [state EXCEPT ![n] = "returned"]
        /\ UNCHANGED <<mId, mThread, caller>>
    BY <1>8 DEF threadReturns
  <2>2. holder = None
    BY <1>8 DEF CallInv
  <2>3. caller # "idle" /\ n = mThread
    BY <2>1 DEF ThreadInv
  <2> QED
    BY <1>1, <1>2, <2>1, <2>2, <2>3 DEF ThreadInv
<1>9. ASSUME NEW n \in Thread, threadClearsId(n)
      PROVE  ThreadInv'
  <2>1. /\ state[n] = "returned" /\ state' = [state EXCEPT ![n] = "ended"]
        /\ UNCHANGED <<mThread, caller>>
    BY <1>9 DEF threadClearsId
  <2>2. caller # "idle" /\ n = mThread
    BY <2>1 DEF ThreadInv
  <2>3. holder = None
    BY <2>1, <2>2 DEF ThreadInv
  <2> QED
    BY <1>1, <1>2, <2>1, <2>2, <2>3 DEF ThreadInv
<1> QED
  BY <1>3, <1>4, <1>5, <1>6, <1>7, <1>8, <1>9 DEF constructs, joins, returns, wrapper

LEMMA InitEstablishes ==
  ASSUME Init
  PROVE  Inv
<1>1. /\ typeOf \in Types /\ list = <<>> /\ dangling = FALSE /\ made = 0 /\ holder = None /\ older = <<>>
      /\ running = None /\ atLast = FALSE /\ begun = <<>> /\ heard = <<>>
      /\ adding = [t \in Threads |-> None] /\ silent = Functors
  BY DEF Init, DelegateInit
<1>2. /\ mId = 0 /\ mThread = 0 /\ mShutdown = FALSE
      /\ state = [n \in Thread |-> "none"] /\ caller = "idle"
  BY DEF Init, ThreadInit
<1>3. use \in Uses /\ policy \in {"plain", "recursive", "single"}
  BY NotifierAssumption DEF Init
<1>4. DelegateTypeOK
  <2>1. atLast \in BOOLEAN /\ dangling \in BOOLEAN /\ adding \in [Threads -> Functors \cup {None}]
    BY <1>1
  <2>2. <<>> \in Seq(Node) /\ made \in 0 .. MaxNodes
    BY <1>1, EmptySeq, DelegateAssumption
  <2>3. list \in Seq(Node) /\ older \in Seq(Node) /\ begun \in Seq(Node) /\ heard \in Seq(Node)
    BY <1>1, <2>2
  <2> QED
    BY <1>1, <1>3, <2>1, <2>2, <2>3 DEF DelegateTypeOK
<1>5. ThreadTypeOK /\ ThreadInv
  BY <1>1, <1>2 DEF ThreadTypeOK, ThreadInv
<1>6. ListInv /\ AddingInv /\ CallInv
  BY <1>1 DEF ListInv, Distinct, AddingInv, CallInv
<1>7. SilentInv
  BY <1>1, DelegateAssumption DEF SilentInv, connected
<1> QED
  BY <1>3, <1>4, <1>5, <1>6, <1>7 DEF Inv, TypeOK, DelegateInv

LEMMA StepKeeps ==
  ASSUME Inv, [Next]_vars
  PROVE  Inv'
<1>1. DelegateInv /\ ThreadTypeOK /\ ThreadInv /\ CallInv /\ use \in Uses
  BY DEF Inv, TypeOK, DelegateInv
<1>2. ASSUME DelegateInv', UNCHANGED <<threadVars, use>>,
             holder' # None => holder # None \/ \E n \in Thread : state[n] = "thread"
      PROVE  Inv'
  BY <1>1, <1>2 DEF Inv, TypeOK, DelegateInv, ThreadInv, ThreadTypeOK, threadVars
<1>3. ASSUME constructs \/ joins \/ returns \/ wrapper
      PROVE  Inv'
  <2>1. UNCHANGED <<delegateVars, use>>
    BY <1>3 DEF constructs, joins, returns, wrapper
  <2>2. DelegateInv' /\ ThreadTypeOK' /\ ThreadInv'
    BY <1>1, <1>3, <2>1, DelegateKept, ThreadTypes, ThreadStep
  <2> QED
    BY <1>1, <2>1, <2>2 DEF Inv, TypeOK, DelegateInv
<1>4. ASSUME NEW t \in Threads, addGoesOn(t)
      PROVE  Inv'
  <2>1. AddInserts(t) /\ UNCHANGED <<threadVars, use>> /\ holder' = holder
    BY <1>4 DEF addGoesOn, AddInserts, invocation
  <2> QED
    BY <1>1, <1>2, <2>1, AddInsertsKeeps
<1>5. ASSUME NEW t \in Threads, disconnects(t)
      PROVE  Inv'
  <2>1. /\ t # Worker /\ UNCHANGED <<threadVars, use>>
        /\ Clear(t) \/ \E f \in Functors : Remove(t, f)
    BY <1>5 DEF disconnects, mayUse
  <2>2. holder' = holder
    BY <2>1 DEF Clear, Remove, invocation
  <2> QED
    BY <1>1, <1>2, <2>1, <2>2, ReplaceKeeps, RemoveKeeps
<1>6. ASSUME NEW t \in Threads, NEW f \in Functors, connects(t, f)
      PROVE  Inv'
  <2>1. /\ t # Worker /\ owner[f] = t /\ UNCHANGED <<threadVars, use>>
        /\ \/ AddBegins(t, f) /\ (use.again \/ ~connected(f))
           \/ Assign(t, f) \/ AssignFails(t)
    BY <1>6 DEF connects, mayUse
  <2>2. holder' = holder
    BY <2>1 DEF AddBegins, Assign, AssignFails, invocation
  <2> QED
    BY <1>1, <1>2, <2>1, <2>2, AddBeginsKeeps, ReplaceKeeps, AssignFailsKeeps
<1>7. ASSUME calls
      PROVE  Inv'
  <2>1. /\ \E n \in Thread : state[n] = "thread"
        /\ CallBegins(Worker) /\ UNCHANGED <<threadVars, use>>
    BY <1>7 DEF calls
  <2> QED
    BY <1>1, <1>2, <2>1, CallBeginsKeeps
<1>8. ASSUME callGoesOnOf(Worker)
      PROVE  Inv'
  <2>1. /\ UNCHANGED <<threadVars, use>>
        /\ \/ InvokeOlder(Worker) \/ InvokeLast(Worker) \/ CallbackReturns(Worker)
           \/ CallEnds(Worker)
    BY <1>8 DEF callGoesOnOf, callGoesOn
  <2>2. CASE CallEnds(Worker)
    BY <1>1, <1>2, <2>1, <2>2, CallLeaves
  <2>3. CASE InvokeOlder(Worker) \/ InvokeLast(Worker) \/ CallbackReturns(Worker)
    <3>1. holder' = holder
      BY <2>3 DEF InvokeOlder, InvokeLast, CallbackReturns
    <3> QED
      BY <1>1, <1>2, <2>1, <2>3, <3>1, InvokeOlderKeeps, InvokeLastKeeps, CallbackReturnsKeeps
  <2> QED
    BY <2>1, <2>2, <2>3
<1>9. ASSUME callbackActs
      PROVE  Inv'
  <2>1. InCallback(Worker) /\ Worker \in Threads /\ UNCHANGED <<threadVars, use>>
    BY <1>9, NotifierAssumption DEF callbackActs
  <2>2. CASE "remove" \in use.inCallback /\ Remove(Worker, running)
    <3>1. holder' = holder /\ running \in Functors
      BY <1>1, <2>1, <2>2 DEF Remove, invocation, InCallback, DelegateInv, DelegateTypeOK
    <3> QED
      BY <1>1, <1>2, <2>1, <2>2, <3>1, RemoveKeeps
  <2>3. ASSUME NEW f \in Functors, owner[f] = Worker, ~connected(f), AddBegins(Worker, f)
        PROVE  Inv'
    <3>1. holder' = holder
      BY <2>3 DEF AddBegins, invocation
    <3> QED
      BY <1>1, <1>2, <2>1, <2>3, <3>1, AddBeginsKeeps
  <2> QED
    BY <1>9, <2>2, <2>3 DEF callbackActs
<1>10. ASSUME callbackThrows
       PROVE  Inv'
  BY <1>1, <1>2, <1>10, CallLeaves DEF callbackThrows
<1>11. ASSUME UNCHANGED vars
       PROVE  Inv'
  <2>1. UNCHANGED <<delegateVars, threadVars, use>> /\ holder' = holder
    BY <1>11 DEF vars, delegateVars, invocation
  <2> QED
    BY <1>1, <1>2, <2>1, DelegateKept
<1> QED
  BY <1>3, <1>4, <1>5, <1>6, <1>7, <1>8, <1>9, <1>10, <1>11 DEF Next

\* The types, and the invariant of the delegate and the thread together.
THEOREM Invariant == Spec => []Inv
<1>1. Init => Inv
  BY InitEstablishes
<1>2. Inv /\ [Next]_vars => Inv'
  BY StepKeeps
<1> QED
  BY <1>1, <1>2, PTL DEF Spec

\* operator() of the delegate goes along nodes that are in its list.
THEOREM NodesCorrect == Spec => []NoNodeFreed
<1>1. Inv => NoNodeFreed
  <2> SUFFICES ASSUME Inv, RemovesItself, ~dangling
               PROVE  /\ Range(older) \subseteq Range(list)
                      /\ (holder # None /\ ~atLast) => list # <<>>
    BY DEF NoNodeFreed
  <2>1. CallInv /\ older \in Seq(Node) /\ begun \in Seq(Node)
    BY DEF Inv, DelegateInv, DelegateTypeOK
  <2>2. CASE holder = None \/ atLast
    <3>1. older = <<>>
      BY <2>1, <2>2 DEF CallInv
    <3>2. Range(older) = {}
      BY <3>1 DEF Range
    <3> QED
      BY <2>2, <3>2
  <2>3. CASE holder # None /\ ~atLast
    <3>1. begun # <<>> /\ Range(rest) \subseteq Range(list)
      BY <2>1, <2>3 DEF CallInv
    <3>2. begun[Len(begun)] \in Node
      BY <2>1, <3>1, NodeFacts
    <3>3. Range(rest) = Range(older) \cup {begun[Len(begun)]}
      BY <2>1, <3>2, AppendFacts DEF rest
    <3>4. Range(list) # {}
      BY <3>1, <3>3
    <3>5. list # <<>>
      BY <3>4 DEF Range
    <3> QED
      BY <3>1, <3>3, <3>5
  <2> QED
    BY <2>2, <2>3
<1> QED
  BY <1>1, Invariant, PTL

\* A functor that was disconnected from outside is not called any more.
THEOREM SilenceCorrect == Spec => []SilentOnceRemoved
<1>1. Inv => SilentOnceRemoved
  BY DEF Inv, DelegateInv, SilentInv, SilentOnceRemoved
<1> QED
  BY <1>1, Invariant, PTL

\* join leaves nothing of the thread behind, run can be called again.
THEOREM JoinCorrect == Spec => []JoinedForGood
<1>1. Inv => JoinedForGood
  BY NotifierAssumption, DelegateAssumption DEF Inv, ThreadInv, JoinedForGood, Alive
<1> QED
  BY <1>1, Invariant, PTL
--------------------------------------------------------------------------------
(***************************************************************************)
(* Everybody is called: what a call has invoked and what it has yet to     *)
(* invoke make up the list it began with, and the last node stays last.    *)
(***************************************************************************)
lastNode == begun[Len(begun)]

\* Callbacks connect nothing, and disconnect only themselves.
Follows == "add" \notin use.inCallback /\ RemovesItself

HeardInv ==
  Follows =>
    /\ adding[Worker] = None
    /\ holder # None /\ atLast => heard = begun
    /\ holder # None /\ ~atLast => /\ heard \o rest = begun
                                   /\ list # <<>> /\ list[Len(list)] = lastNode

\* The first of the nodes yet to be invoked is invoked.
LEMMA HeadMoves ==
  ASSUME NEW s \in Seq(Node), NEW r \in Seq(Node), r # <<>>
  PROVE  Append(s, Head(r)) \o Tail(r) = s \o r
<1>1. Head(r) = r[1] /\ Head(r) \in Node /\ Tail(r) \in Seq(Node) /\ Len(r) \in Nat \ {0}
  BY HeadTailProperties, EmptySeq
<1>2. 1 \in 1 .. Len(r) /\ Len(r) \in 1 .. Len(r)
  BY <1>1
<1>3. SubSeq(r, 1, Len(r)) = <<r[1]>> \o SubSeq(r, 1 + 1, Len(r))
  BY <1>2, SubSeqRecursiveFirst
<1>4. r = <<Head(r)>> \o Tail(r)
  BY <1>1, <1>3, SubSeqFull, TailIsSubSeq
<1>5. Append(s, Head(r)) = s \o <<Head(r)>> /\ <<Head(r)>> \in Seq(Node)
  BY <1>1, AppendIsConcat
<1> QED
  BY <1>1, <1>4, <1>5, ConcatAssociative

\* The last one is split off.
LEMMA LastSplits ==
  ASSUME NEW s \in Seq(Node), s # <<>>
  PROVE  Append(SubSeq(s, 1, Len(s) - 1), s[Len(s)]) = s
<1>1. Len(s) \in Nat \ {0} /\ s[Len(s)] \in Node /\ \A i \in 1 .. Len(s) : s[i] \in Node
  BY NodeFacts, EmptySeq
<1>2. 1 \in 1 .. Len(s) /\ Len(s) \in 1 .. Len(s)
  BY <1>1
<1>3. SubSeq(s, 1, Len(s)) = SubSeq(s, 1, Len(s) - 1) \o <<s[Len(s)]>>
  BY <1>2, SubSeqRecursiveSecond
<1>4. SubSeq(s, 1, Len(s) - 1) \in Seq(Node)
  <2>1. 1 \in Int /\ Len(s) - 1 \in Int /\ \A i \in 1 .. (Len(s) - 1) : s[i] \in Node
    BY <1>1
  <2> QED
    BY <2>1, SubSeqProperties
<1> QED
  BY <1>1, <1>3, <1>4, AppendIsConcat, SubSeqFull

\* A step that leaves the call alone and the last node last.
LEMMA HeardStays ==
  ASSUME HeardInv, UNCHANGED <<holder, older, atLast, begun, heard, typeOf, use>>,
         Follows => adding'[Worker] = adding[Worker],
         Follows /\ holder # None /\ ~atLast => list' # <<>> /\ list'[Len(list')] = lastNode
  PROVE  HeardInv'
<1>1. (Follows' <=> Follows) /\ rest' = rest /\ lastNode' = lastNode
  BY Steady DEF Follows, rest, lastNode
<1> QED
  BY <1>1 DEF HeardInv

\* The callback takes out the node it is, which is not the last one.
LEMMA HeardRemove ==
  ASSUME DelegateInv, HeardInv, InCallback(Worker), "remove" \in use.inCallback,
         Remove(Worker, running), UNCHANGED use
  PROVE  HeardInv'
<1>1. PICK i \in DOMAIN list : list[i].functor = running /\ list' = without(i)
  BY DEF Remove
<1>2. UNCHANGED <<typeOf, adding, holder, older, atLast, begun, heard>> /\ holder # None
  BY NotifierAssumption, DelegateAssumption DEF Remove, invocation, InCallback
<1>3. list \in Seq(Node) /\ begun \in Seq(Node) /\ older \in Seq(Node)
  BY DEF DelegateInv, DelegateTypeOK
<1>4. ASSUME Follows, ~atLast
      PROVE  list' # <<>> /\ list'[Len(list')] = lastNode
  <2>1. AddsSeen /\ begun # <<>> /\ \A k \in DOMAIN rest : rest[k].functor # running
    BY <1>2, <1>4 DEF Follows, RemovesItself, DelegateInv, CallInv
  <2>2. lastNode.functor # running
    <3>1. lastNode \in Node
      BY <1>3, <2>1, NodeFacts DEF lastNode
    <3>2. Len(older) + 1 \in DOMAIN rest /\ rest[Len(older) + 1] = lastNode
      <4>1. rest = Append(older, lastNode) /\ Len(older) \in Nat
        BY <1>3, NodeFacts DEF rest, lastNode
      <4> QED
        BY <1>3, <3>1, <4>1, AppendFacts
    <3> QED
      BY <2>1, <3>2
  <2>3. list # <<>> /\ list[Len(list)] = lastNode
    BY <1>2, <1>4 DEF HeardInv
  <2>4. Len(list) \in Nat /\ i \in 1 .. Len(list) /\ i # Len(list)
    BY <1>1, <1>3, <2>2, <2>3, NodeFacts
  <2>5. /\ list' \in Seq(Node) /\ DOMAIN list' = 1 .. (Len(list) - 1)
        /\ \A j \in 1 .. (Len(list) - 1) : list'[j] = IF j < i THEN list[j] ELSE list[j + 1]
    BY <1>1, <1>3, WithoutFacts
  <2>6. Len(list') = Len(list) - 1
    <3>1. Len(list') \in Nat /\ DOMAIN list' = 1 .. Len(list')
      BY <2>5, NodeFacts
    <3> QED
      BY <2>4, <2>5, <3>1
  <2>7. list'[Len(list')] = list[Len(list)]
    <3>1. Len(list) - 1 \in 1 .. (Len(list) - 1) /\ ~(Len(list) - 1 < i) /\ (Len(list) - 1) + 1 = Len(list)
      BY <2>4
    <3> QED
      BY <2>5, <2>6, <3>1
  <2>8. list' # <<>>
    BY <2>4, <2>6, EmptySeq
  <2> QED
    BY <2>3, <2>7, <2>8
<1> QED
  BY <1>2, <1>4, HeardStays

LEMMA HeardBegins ==
  ASSUME DelegateInv, HeardInv, CallBegins(Worker), UNCHANGED use
  PROVE  HeardInv'
<1>1. /\ list # <<>> /\ older' = SubSeq(list, 1, Len(list) - 1) /\ atLast' = FALSE
      /\ begun' = list /\ heard' = <<>> /\ UNCHANGED <<typeOf, list, adding>>
  BY DEF CallBegins, beforeLast
<1>2. list \in Seq(Node)
  BY DEF DelegateInv, DelegateTypeOK
<1>3. rest' = list /\ lastNode' = list[Len(list)]
  BY <1>1, <1>2, LastSplits DEF rest, lastNode
<1>4. heard' \o rest' = begun'
  BY <1>1, <1>2, <1>3, ConcatEmptySeq
<1> QED
  BY <1>1, <1>3, <1>4, Steady DEF HeardInv, Follows

LEMMA HeardInvokes ==
  ASSUME DelegateInv, HeardInv, InvokeOlder(Worker) \/ InvokeLast(Worker), UNCHANGED use
  PROVE  HeardInv'
<1>1. /\ UNCHANGED <<typeOf, list, adding, holder, begun>> /\ ~atLast /\ holder # None
  <2>1. holder = Worker /\ (older # <<>> \/ ~atLast) /\ UNCHANGED <<typeOf, list, adding, holder, begun>>
    BY DEF InvokeOlder, InvokeLast
  <2> QED
    BY <2>1, NotifierAssumption, DelegateAssumption DEF DelegateInv, CallInv
<1>2. (Follows' <=> Follows) /\ lastNode' = lastNode
  BY <1>1, Steady DEF Follows, lastNode
<1> SUFFICES ASSUME Follows
             PROVE  HeardInv'
  BY <1>2 DEF HeardInv
<1>3. heard \in Seq(Node) /\ older \in Seq(Node) /\ begun \in Seq(Node) /\ begun # <<>>
  BY <1>1 DEF DelegateInv, DelegateTypeOK, CallInv, Follows
<1>4. lastNode \in Node /\ rest = Append(older, lastNode)
  BY <1>3, NodeFacts DEF rest, lastNode
<1>5. heard \o rest = begun /\ list # <<>> /\ list[Len(list)] = lastNode /\ adding[Worker] = None
  BY <1>1 DEF HeardInv
<1>6. CASE InvokeOlder(Worker)
  <2>1. older # <<>> /\ older' = Tail(older) /\ heard' = Append(heard, Head(older)) /\ atLast' = atLast
    BY <1>6 DEF InvokeOlder
  <2>2. rest' = Append(Tail(older), lastNode)
    BY <1>2, <2>1 DEF rest, lastNode
  <2>3. Head(rest) = Head(older) /\ Tail(rest) = rest' /\ rest \in Seq(Node) /\ rest # <<>>
    BY <1>3, <1>4, <2>1, <2>2, HeadTailAppend, AppendProperties
  <2>4. heard' \o rest' = heard \o rest
    BY <1>3, <2>1, <2>3, HeadMoves
  <2> QED
    BY <1>1, <1>2, <1>5, <2>1, <2>4 DEF HeardInv
<1>7. CASE InvokeLast(Worker)
  <2>1. older = <<>> /\ heard' = Append(heard, lastNode) /\ atLast' = TRUE
    BY <1>5, <1>7 DEF InvokeLast
  <2>2. rest = <<lastNode>>
    BY <1>4, <2>1
  <2>3. heard' = begun'
    BY <1>1, <1>3, <1>4, <1>5, <2>1, <2>2, AppendIsConcat
  <2> QED
    BY <1>1, <1>2, <1>5, <2>1, <2>3 DEF HeardInv
<1> QED
  BY <1>6, <1>7

LEMMA HeardStep ==
  ASSUME Inv, HeardInv, [Next]_vars
  PROVE  HeardInv'
<1>1. DelegateInv /\ CallInv /\ adding \in [Threads -> Functors \cup {None}]
  BY DEF Inv, DelegateInv, DelegateTypeOK
<1>2. ASSUME NEW t \in Threads, t # Worker, canLock(t), holder' = holder,
             \A u \in Threads : u # t => adding'[u] = adding[u], UNCHANGED <<typeOf, use>>
      PROVE  HeardInv'
  <2>1. holder' = None
    BY <1>1, <1>2, Outside
  <2> QED
    BY <1>2, <2>1, Steady, NotifierAssumption DEF HeardInv, Follows
<1>3. ASSUME NEW t \in Threads, addGoesOn(t)
      PROVE  HeardInv'
  <2>1. /\ adding[t] # None /\ canLock(t) /\ adding' = [adding EXCEPT ![t] = None]
        /\ UNCHANGED <<typeOf, use, holder>>
    BY <1>3 DEF addGoesOn, AddInserts, invocation
  <2>2. CASE t = Worker
    BY <2>1, <2>2, Steady DEF HeardInv, Follows
  <2> QED
    BY <1>1, <1>2, <2>1, <2>2
<1>4. ASSUME NEW t \in Threads, disconnects(t)
      PROVE  HeardInv'
  <2>1. t # Worker /\ canLock(t) /\ UNCHANGED <<typeOf, use, holder, adding>>
    BY <1>4 DEF disconnects, mayUse, Clear, Remove, invocation
  <2> QED
    BY <1>2, <2>1
<1>5. ASSUME NEW t \in Threads, NEW f \in Functors, connects(t, f)
      PROVE  HeardInv'
  <2>1. t # Worker /\ canLock(t) /\ UNCHANGED <<typeOf, use, holder>>
    BY <1>5 DEF connects, mayUse, AddBegins, Assign, AssignFails, invocation
  <2>2. \A u \in Threads : u # t => adding'[u] = adding[u]
    BY <1>1, <1>5 DEF connects, AddBegins, Assign, AssignFails
  <2> QED
    BY <1>2, <2>1, <2>2
<1>6. CASE constructs \/ joins \/ returns \/ wrapper
  <2>1. UNCHANGED <<typeOf, list, adding, holder, older, atLast, begun, heard, use>>
    BY <1>6 DEF constructs, joins, returns, wrapper, delegateVars, invocation
  <2> QED
    BY <2>1, HeardStays DEF HeardInv
<1>7. CASE calls
  BY <1>1, <1>7, HeardBegins DEF calls
<1>8. CASE callGoesOnOf(Worker)
  <2>1. CASE InvokeOlder(Worker) \/ InvokeLast(Worker)
    BY <1>1, <1>8, <2>1, HeardInvokes DEF callGoesOnOf
  <2>2. CASE CallbackReturns(Worker)
    <3>1. UNCHANGED <<typeOf, list, adding, holder, older, atLast, begun, heard, use>>
      BY <1>8, <2>2 DEF callGoesOnOf, CallbackReturns
    <3> QED
      BY <3>1, HeardStays DEF HeardInv
  <2>3. CASE CallEnds(Worker)
    <3>1. UNCHANGED <<typeOf, adding, use>> /\ holder' = None
      BY <1>8, <2>3 DEF callGoesOnOf, CallEnds, left
    <3> QED
      BY <3>1, Steady DEF HeardInv, Follows
  <2> QED
    BY <1>8, <2>1, <2>2, <2>3 DEF callGoesOnOf, callGoesOn
<1>9. CASE callbackActs
  <2>1. InCallback(Worker) /\ UNCHANGED use
    BY <1>9 DEF callbackActs
  <2>2. CASE "remove" \in use.inCallback /\ Remove(Worker, running)
    BY <1>1, <2>1, <2>2, HeardRemove
  <2>3. ASSUME NEW f \in Functors, AddBegins(Worker, f), "add" \in use.inCallback
        PROVE  HeardInv'
    BY <2>1, <2>3 DEF HeardInv, Follows
  <2> QED
    BY <1>9, <2>2, <2>3 DEF callbackActs
<1>10. CASE callbackThrows
  <2>1. UNCHANGED <<typeOf, adding, use>> /\ holder' = None
    BY <1>10 DEF callbackThrows, CallbackThrows, left
  <2> QED
    BY <2>1, Steady DEF HeardInv, Follows
<1>11. CASE UNCHANGED vars
  <2>1. UNCHANGED <<typeOf, list, adding, holder, older, atLast, begun, heard, use>>
    BY <1>11 DEF vars, delegateVars, invocation
  <2> QED
    BY <2>1, HeardStays DEF HeardInv
<1> QED
  BY <1>3, <1>4, <1>5, <1>6, <1>7, <1>8, <1>9, <1>10, <1>11 DEF Next

\* Whatever callbacks disconnect themselves, a call that ends has invoked each
\* functor of its list once and in order.
THEOREM HeardCorrect == Spec => HeardOnce
<1>1. Init => HeardInv
  BY NotifierAssumption DEF Init, DelegateInit, HeardInv
<1>2. Inv /\ HeardInv /\ [Next]_vars => HeardInv'
  BY HeardStep
<1>3. Spec => [](Inv /\ HeardInv)
  BY <1>1, <1>2, Invariant, PTL DEF Spec
<1>4. Inv /\ HeardInv /\ [Next]_vars =>
        [\A t \in Threads :
           CallEnds(t) /\ "add" \notin use.inCallback /\ RemovesItself => heard = begun]_vars
  <2> SUFFICES ASSUME HeardInv, NEW t \in Threads, CallEnds(t),
                      "add" \notin use.inCallback, RemovesItself
               PROVE  heard = begun
    OBVIOUS
  <2>1. holder # None /\ atLast
    BY DelegateAssumption DEF CallEnds
  <2> QED
    BY <2>1 DEF HeardInv, Follows
<1> QED
  BY <1>3, <1>4, PTL DEF Spec, HeardOnce
=============================================================================
