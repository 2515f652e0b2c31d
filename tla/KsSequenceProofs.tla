-------------------------- MODULE KsSequenceProofs --------------------------
(***************************************************************************)
(* What holds of lists and texts of every length: the callback lists of    *)
(* KsEvent and the configuration files of KsConfigForm.  Both are          *)
(* processed by recursion, so induction comes first.  It is stated for     *)
(* sets and functions rather than predicates and operators.                *)
(***************************************************************************)
EXTENDS KsEvent, KsConfigForm, SequenceTheorems, FiniteSetTheorems, WellFoundedInduction,
        TLAPS

-----------------------------------------------------------------------------
(* Induction. *)

\* A set with 0 and all successors of its numbers has all numbers.
LEMMA SetInduction ==
    ASSUME NEW S, 0 \in S, \A n \in Nat : n \in S => n + 1 \in S
    PROVE  Nat \subseteq S
<1> SUFFICES ASSUME Nat \ S # {} PROVE FALSE
  OBVIOUS
<1>1. PICK n \in Nat \ S : \A m \in Nat \ S : <<m, n>> \notin OpToRel(<, Nat)
  BY WFMin, NatLessThanWellFounded, Zenon
<1>2. n # 0
  OBVIOUS
<1>3. n - 1 \in Nat /\ n - 1 < n /\ (n - 1) + 1 = n
  BY <1>2
<1>4. <<n - 1, n>> \in OpToRel(<, Nat)
  BY <1>3 DEF OpToRel
<1> QED
  BY <1>1, <1>3, <1>4

\* A recursion with values in V, over arguments in D that get smaller.
IsRecursion(D, V, measure, base, step, previous) ==
    /\ measure \in [D -> Nat] /\ previous \in [D -> D]
    /\ base \in [D -> V] /\ step \in [D \X V -> V]
    /\ \A x \in D : measure[x] # 0 => measure[previous[x]] < measure[x]

\* f follows a recursion below n: at an argument x of measure 0 it has a base
\* value, at any other it is a step from its value at an argument of smaller measure.
Value(f, x, measure, base, step, previous) ==
    IF measure[x] = 0 THEN base[x] ELSE step[<<x, f[previous[x]]>>]

FollowsBelow(f, n, D, measure, base, step, previous) ==
    \A x \in D : measure[x] < n => f[x] = Value(f, x, measure, base, step, previous)

\* Two functions that follow the same recursion agree.
LEMMA RecursionUnique ==
    ASSUME NEW D, NEW V, NEW measure, NEW base, NEW step, NEW previous,
           IsRecursion(D, V, measure, base, step, previous),
           NEW f, NEW g, NEW n \in Nat,
           FollowsBelow(f, n, D, measure, base, step, previous),
           FollowsBelow(g, n, D, measure, base, step, previous)
    PROVE  \A x \in D : measure[x] < n => f[x] = g[x]
<1> USE DEF IsRecursion
<1> DEFINE S == {k \in Nat : \A x \in D : measure[x] < k /\ measure[x] < n => f[x] = g[x]}
<1>1. 0 \in S
  OBVIOUS
<1>2. ASSUME NEW k \in Nat, k \in S
      PROVE  k + 1 \in S
  <2> SUFFICES ASSUME NEW x \in D, measure[x] < k + 1, measure[x] < n
               PROVE  f[x] = g[x]
    OBVIOUS
  <2>1. Value(f, x, measure, base, step, previous) = Value(g, x, measure, base, step, previous)
    BY <1>2 DEF Value
  <2> QED
    BY <2>1 DEF FollowsBelow
<1>3. Nat \subseteq S
  <2> HIDE DEF S
  <2> QED
    BY <1>1, <1>2, SetInduction
<1> QED
  BY <1>3

\* And there is one that follows it everywhere.
LEMMA RecursionExists ==
    ASSUME NEW D, NEW V, NEW measure, NEW base, NEW step, NEW previous,
           IsRecursion(D, V, measure, base, step, previous)
    PROVE  \E f \in [D -> V] :
              \A x \in D : f[x] = Value(f, x, measure, base, step, previous)
<1> USE DEF IsRecursion
<1> DEFINE Follows(f, n) == FollowsBelow(f, n, D, measure, base, step, previous)
           S == {n \in Nat : \E f \in [D -> V] : Follows(f, n)}
<1>1. 0 \in S
  BY DEF FollowsBelow
<1>2. ASSUME NEW n \in Nat, n \in S
      PROVE  n + 1 \in S
  <2>1. PICK f \in [D -> V] : Follows(f, n)
    BY <1>2
  <2> DEFINE g == [x \in D |-> Value(f, x, measure, base, step, previous)]
  <2>2. g \in [D -> V]
    BY DEF Value
  <2>3. ASSUME NEW x \in D, measure[x] < n + 1
        PROVE  g[x] = Value(g, x, measure, base, step, previous)
    <3>1. CASE measure[x] = 0
      BY <3>1 DEF Value
    <3>2. CASE measure[x] # 0
      <4>1. measure[previous[x]] < n /\ previous[x] \in D
        BY <2>3, <3>2
      <4>2. f[previous[x]] = g[previous[x]]
        BY <2>1, <4>1 DEF FollowsBelow
      <4> QED
        BY <3>2, <4>2 DEF Value
    <3> QED
      BY <3>1, <3>2
  <2>4. Follows(g, n + 1)
    BY <2>3 DEF FollowsBelow
  <2> HIDE DEF g
  <2> QED
    BY <2>2, <2>4
<1>3. Nat \subseteq S
  <2> HIDE DEF S
  <2> QED
    BY <1>1, <1>2, SetInduction
<1> DEFINE upTo == [n \in Nat |-> CHOOSE f \in [D -> V] : Follows(f, n)]
           h == [x \in D |-> upTo[measure[x] + 1][x]]
<1>4. ASSUME NEW n \in Nat
      PROVE  upTo[n] \in [D -> V] /\ Follows(upTo[n], n)
  BY <1>3
<1>5. h \in [D -> V]
  BY <1>4
<1>6. ASSUME NEW x \in D
      PROVE  h[x] = Value(h, x, measure, base, step, previous)
  <2> DEFINE n == measure[x] + 1
             f == upTo[n]
  <2>1. n \in Nat /\ measure[x] < n /\ Follows(f, n)
    BY <1>4
  <2>2. h[x] = Value(f, x, measure, base, step, previous)
    BY <2>1 DEF FollowsBelow
  <2>3. CASE measure[x] = 0
    BY <2>2, <2>3 DEF Value
  <2>4. CASE measure[x] # 0
    <3> DEFINE y == previous[x]
               m == measure[y] + 1
    <3>1. y \in D /\ m \in Nat /\ m <= measure[x] /\ measure[y] < m
      BY <2>4
    <3>2. Follows(upTo[m], m) /\ Follows(f, m)
      <4>1. Follows(upTo[m], m)
        BY <1>4, <3>1
      <4>2. \A k \in Nat : k < m => k < n
        BY <2>1, <3>1
      <4>3. Follows(f, m)
        <5> HIDE DEF f, n, m
        <5> QED
          BY <2>1, <4>2 DEF FollowsBelow
      <4> QED
        BY <4>1, <4>3
    <3>3. upTo[m][y] = f[y]
      <4> HIDE DEF upTo, f, m, y, IsRecursion
      <4> QED
        BY <3>1, <3>2, RecursionUnique
    <3>4. h[previous[x]] = f[previous[x]]
      BY <3>1, <3>3
    <3> HIDE DEF h, f
    <3> QED
      BY <2>2, <2>4, <3>4 DEF Value
  <2> QED
    BY <2>3, <2>4
<1> QED
  BY <1>5, <1>6

-----------------------------------------------------------------------------
(* Events. *)

LEMMA PrefixFacts ==
    ASSUME NEW S, NEW s \in Seq(S), NEW n \in 0..Len(s)
    PROVE  /\ SubSeq(s, 1, n) \in Seq(S) /\ Len(SubSeq(s, 1, n)) = n
           /\ \A i \in 1..n : SubSeq(s, 1, n)[i] = s[i]
<1>1. n \in Int /\ 1 \in Int /\ \A i \in 1..n : s[i] \in S
  OBVIOUS
<1> QED
  BY <1>1, SubSeqProperties

LEMMA AppendFacts ==
    ASSUME NEW S, NEW list \in Seq(S), NEW elt \in S
    PROVE  /\ Append(list, elt) \in Seq(S)
           /\ ToSet(Append(list, elt)) = ToSet(list) \cup {elt}
           /\ IsInjective(list) /\ elt \notin ToSet(list) => IsInjective(Append(list, elt))
<1> DEFINE new == Append(list, elt)
<1>1. /\ new \in Seq(S) /\ Len(new) = Len(list) + 1 /\ Len(list) \in Nat
      /\ \A i \in 1..Len(list) : new[i] = list[i]
      /\ new[Len(list) + 1] = elt
  BY AppendProperties
<1> HIDE DEF new
<1>2. ToSet(new) = ToSet(list) \cup {elt}
  BY <1>1 DEF ToSet
<1>3. ASSUME IsInjective(list), elt \notin ToSet(list)
      PROVE  IsInjective(new)
  <2>1. \A i \in 1..Len(list) : list[i] # elt
    BY <1>3 DEF ToSet
  <2> QED
    BY <1>1, <1>3, <2>1 DEF IsInjective
<1> QED
  BY <1>1, <1>2, <1>3 DEF new

\* remove_if takes out one UID wherever it is, keeps the rest, and does not
\* repeat any.
LEMMA WithoutFacts ==
    ASSUME NEW S, NEW list \in Seq(S), NEW uid
    PROVE  /\ Without(list, uid) \in Seq(S)
           /\ ToSet(Without(list, uid)) = ToSet(list) \ {uid}
           /\ IsInjective(list) => IsInjective(Without(list, uid))
<1> DEFINE L == Len(list)
           D == 0..L
           measure == [n \in D |-> n]
           previous == [n \in D |-> IF n = 0 THEN 0 ELSE n - 1]
           base == [n \in D |-> <<>>]
           V == Seq(S)
           step == [p \in D \X V |->
                       IF p[1] = 0 \/ list[p[1]] = uid THEN p[2] ELSE Append(p[2], list[p[1]])]
           Kept(f) == [n \in D |-> IF n = 0 THEN <<>>
                                   ELSE IF list[n] = uid THEN f[n - 1]
                                   ELSE Append(f[n - 1], list[n])]
           kept == CHOOSE f : f = Kept(f)
<1>1. L \in Nat /\ DOMAIN list = 1..L /\ \A n \in 1..L : list[n] \in S
  OBVIOUS
<1>2. \E f : f = Kept(f)
  <2>1. IsRecursion(D, V, measure, base, step, previous)
    BY <1>1 DEF IsRecursion
  <2>2. PICK f \in [D -> V] :
             \A n \in D : f[n] = Value(f, n, measure, base, step, previous)
    <3> HIDE DEF measure, previous, base, step, D, V
    <3> QED
      BY <2>1, RecursionExists
  <2>3. ASSUME NEW n \in D
        PROVE  Value(f, n, measure, base, step, previous) = Kept(f)[n]
    <3>1. CASE n = 0
      BY <3>1 DEF Value
    <3>2. CASE n # 0
      <4>1. n - 1 \in D /\ f[n - 1] \in Seq(S)
        BY <1>1, <3>2
      <4> QED
        BY <3>2, <4>1 DEF Value
    <3> QED
      BY <3>1, <3>2
  <2> QED
    BY <2>2, <2>3
<1>3. kept = Kept(kept)
  <2> HIDE DEF Kept
  <2> QED
    BY <1>2
<1>4. Without(list, uid) = kept[L]
  BY DEF Without
<1> HIDE DEF kept
<1> DEFINE Facts(n) ==
               /\ kept[n] \in Seq(S)
               /\ ToSet(kept[n]) = {list[i] : i \in 1..n} \ {uid}
               /\ IsInjective(list) => IsInjective(kept[n])
           I == {n \in Nat : n <= L => Facts(n)}
<1>5. 0 \in I
  BY <1>1, <1>3 DEF ToSet, IsInjective
<1>6. ASSUME NEW n \in Nat, n \in I
      PROVE  n + 1 \in I
  <2> SUFFICES ASSUME n + 1 <= L
               PROVE  Facts(n + 1)
    OBVIOUS
  <2>1. Facts(n) /\ n + 1 \in 1..L
    BY <1>1, <1>6
  <2>2. kept[n + 1] = IF list[n + 1] = uid THEN kept[n] ELSE Append(kept[n], list[n + 1])
    <3>1. n + 1 \in D /\ n + 1 # 0 /\ (n + 1) - 1 = n
      BY <1>1, <2>1
    <3>2. kept[n + 1] = Kept(kept)[n + 1]
      <4> HIDE DEF Kept
      <4> QED
        BY <1>3
    <3> QED
      BY <3>1, <3>2
  <2>3. CASE list[n + 1] = uid
    <3>1. {list[i] : i \in 1..(n + 1)} \ {uid} = {list[i] : i \in 1..n} \ {uid}
      BY <2>3
    <3> QED
      BY <2>1, <2>2, <2>3, <3>1
  <2>4. CASE list[n + 1] # uid
    <3>1. list[n + 1] \in S /\ kept[n] \in Seq(S)
      BY <1>1, <2>1
    <3>2. {list[i] : i \in 1..(n + 1)} \ {uid} = ({list[i] : i \in 1..n} \ {uid}) \cup {list[n + 1]}
      BY <2>4
    <3>3. IsInjective(list) => list[n + 1] \notin ToSet(kept[n])
      BY <1>1, <2>1 DEF IsInjective
    <3> QED
      BY <2>1, <2>2, <2>4, <3>1, <3>2, <3>3, AppendFacts
  <2> QED
    BY <2>3, <2>4
<1>7. L \in I
  <2> HIDE DEF I
  <2> QED
    BY <1>1, <1>5, <1>6, SetInduction
<1>8. {list[i] : i \in 1..L} = ToSet(list)
  BY <1>1 DEF ToSet
<1> QED
  BY <1>1, <1>4, <1>7, <1>8

-----------------------------------------------------------------------------
(* Events: handles and callbacks. *)

\* The types of lists and handles.
ListsInv ==
    /\ alive \subseteq Event
    /\ callbacks \in [Event -> Seq(Nat)]
    /\ lastCallbackUID \in [Event -> 0..MaxUID]
    /\ \A e \in Event : ToSet(callbacks[e]) \subseteq 1..lastCallbackUID[e]
    /\ handle \in [Slot -> {NoHandle} \cup [event : Event, uid : Nat]]
    /\ \A s \in Slot :
          handle[s] # NoHandle => handle[s].uid \in 1..lastCallbackUID[handle[s].event]
    /\ undefined \in BOOLEAN

\* No two handles stand for the same callback, so that destroying one does not
\* leave another without.
HandlesDistinct ==
    \A s, t \in Slot :
        s # t /\ handle[s] # NoHandle /\ handle[t] # NoHandle
        => handle[s].event # handle[t].event \/ handle[s].uid # handle[t].uid

HandleInv == ListsInv /\ HandlesDistinct /\ BoundWhileHandled

\* What a broadcast under way has called is what was bound when it began, up to
\* where it is; and if nothing has been unbound, that is still what the list
\* starts with.
Frame == [event : Event, next : Nat, end : Nat, running : BOOLEAN,
          bound : Seq(Nat), called : Seq(Nat), shrunk : BOOLEAN]

FrameInv(b) ==
    /\ b.end = Len(b.bound) /\ 1 <= b.next /\ b.next <= b.end + 1
    /\ b.running => b.next <= b.end
    /\ Len(b.called) = IF b.running THEN b.next ELSE b.next - 1
    /\ ~b.shrunk =>
          /\ Len(b.bound) <= Len(callbacks[b.event])
          /\ \A i \in 1..Len(b.bound) : b.bound[i] = callbacks[b.event][i]
          /\ \A i \in 1..Len(b.called) : b.called[i] = b.bound[i]

BroadcastInv ==
    /\ broadcasts \in Seq(Frame)
    /\ \A i \in 1..Len(broadcasts) : FrameInv(broadcasts[i])

EventInv == HandleInv /\ BroadcastInv

\* The UIDs that handles other than those in X stand for, of event e.
HandledUIDs(e, X) ==
    {handle[s].uid : s \in {t \in Slot \ X : handle[t] # NoHandle /\ handle[t].event = e}}

\* Destroying a handle unbinds its callback and no other.
LEMMA UnboundFacts ==
    ASSUME HandleInv, NEW s \in Slot
    PROVE  /\ Unbound(s) \in [Event -> Seq(Nat)]
           /\ \A e \in Event : ToSet(Unbound(s)[e]) \subseteq ToSet(callbacks[e])
           /\ \A e \in alive : IsInjective(Unbound(s)[e])
                               /\ ToSet(Unbound(s)[e]) = HandledUIDs(e, {s})
           /\ \A e \in Event : handle[s] = NoHandle \/ handle[s].event # e
                  => Unbound(s)[e] = callbacks[e]
<1> USE DEF HandleInv, ListsInv, HandlesDistinct, BoundWhileHandled
<1>1. CASE handle[s] # NoHandle /\ handle[s].event \in alive
  <2> DEFINE f == handle[s].event
             list == Without(callbacks[f], handle[s].uid)
  <2>1. f \in Event /\ callbacks[f] \in Seq(Nat) /\ IsInjective(callbacks[f])
    BY <1>1
  <2>2. /\ list \in Seq(Nat)
        /\ ToSet(list) = ToSet(callbacks[f]) \ {handle[s].uid}
        /\ IsInjective(list)
    BY <2>1, WithoutFacts
  <2>3. Unbound(s) = [callbacks EXCEPT ![f] = list]
    BY <1>1 DEF Unbound
  <2>4. ToSet(list) = HandledUIDs(f, {s})
    <3>1. ToSet(callbacks[f]) = HandledUIDs(f, {})
      BY <1>1 DEF HandledUIDs
    <3>2. HandledUIDs(f, {s}) = HandledUIDs(f, {}) \ {handle[s].uid}
      <4>1. ASSUME NEW t \in Slot \ {s}, handle[t] # NoHandle, handle[t].event = f
            PROVE  handle[t].uid # handle[s].uid
        BY <1>1, <4>1
      <4> QED
        BY <4>1 DEF HandledUIDs
    <3> QED
      BY <2>2, <3>1, <3>2
  <2>5. ASSUME NEW e \in Event, e # f
        PROVE  Unbound(s)[e] = callbacks[e] /\ HandledUIDs(e, {s}) = HandledUIDs(e, {})
    BY <2>3, <2>5 DEF HandledUIDs
  <2>6. Unbound(s)[f] = list
    BY <2>1, <2>3
  <2>7. \A e \in alive : IsInjective(callbacks[e]) /\ ToSet(callbacks[e]) = HandledUIDs(e, {})
    BY DEF HandledUIDs
  <2>8. Unbound(s) \in [Event -> Seq(Nat)]
    BY <2>1, <2>2, <2>3
  <2>9. alive \subseteq Event
    OBVIOUS
  <2> USE <2>1, <2>2, <2>5, <2>6
  <2> HIDE DEF list, HandleInv
  <2>10. \A e \in Event : ToSet(Unbound(s)[e]) \subseteq ToSet(callbacks[e])
    OBVIOUS
  <2>11. \A e \in alive : IsInjective(Unbound(s)[e]) /\ ToSet(Unbound(s)[e]) = HandledUIDs(e, {s})
    BY <2>4, <2>7, <2>9
  <2> QED
    BY <1>1, <2>8, <2>10, <2>11
<1>2. CASE ~(handle[s] # NoHandle /\ handle[s].event \in alive)
  <2>1. Unbound(s) = callbacks
    BY <1>2 DEF Unbound
  <2>2. \A e \in alive : HandledUIDs(e, {s}) = HandledUIDs(e, {})
    BY <1>2 DEF HandledUIDs
  <2>3. \A e \in alive : IsInjective(callbacks[e]) /\ ToSet(callbacks[e]) = HandledUIDs(e, {})
    BY DEF HandledUIDs
  <2> QED
    BY <2>1, <2>2, <2>3
<1> QED
  BY <1>1, <1>2

LEMMA EventInitInv == EventInit => EventInv
<1> SUFFICES ASSUME EventInit PROVE EventInv
  OBVIOUS
<1> USE DEF EventInit
<1>1. \A e \in Event : callbacks[e] = <<>> /\ ToSet(callbacks[e]) = {} /\ IsInjective(callbacks[e])
  BY DEF ToSet, IsInjective
<1>2. ListsInv
  <2>1. callbacks \in [Event -> Seq(Nat)] /\ lastCallbackUID \in [Event -> 0..MaxUID]
    BY EventAssumption
  <2>2. handle \in [Slot -> {NoHandle} \cup [event : Event, uid : Nat]]
    OBVIOUS
  <2> QED
    BY <1>1, <2>1, <2>2 DEF ListsInv
<1>3. HandlesDistinct /\ BoundWhileHandled
  BY <1>1 DEF HandlesDistinct, BoundWhileHandled
<1>4. BroadcastInv
  BY DEF BroadcastInv
<1> QED
  BY <1>2, <1>3, <1>4 DEF EventInv, HandleInv

LEMMA RegisterKeepsHandles ==
    ASSUME HandleInv, NEW e \in Event, NEW s \in Slot, RegisterEvent(e, s)
    PROVE  HandleInv'
<1> DEFINE uid == NextUID(e)
           old == Unbound(s)[e]
           new == Append(old, uid)
<1>0. ListsInv /\ HandlesDistinct /\ BoundWhileHandled
  BY DEF HandleInv
<1>1. /\ lastCallbackUID' = [lastCallbackUID EXCEPT ![e] = uid]
      /\ handle' = [handle EXCEPT ![s] = [event |-> e, uid |-> uid]]
      /\ callbacks' = [Unbound(s) EXCEPT ![e] = new]
      /\ e \in alive /\ alive' = alive /\ undefined' \in BOOLEAN
  BY DEF RegisterEvent
<1>2. /\ uid \in 1..MaxUID /\ uid = lastCallbackUID[e] + 1
      /\ lastCallbackUID[e] \in Nat
      /\ lastCallbackUID' \in [Event -> 0..MaxUID]
      /\ \A f \in Event : lastCallbackUID[f] <= lastCallbackUID'[f]
  BY <1>0, <1>1, EventAssumption DEF ListsInv, NextUID, RegisterEvent
<1>3. /\ \A f \in Event : ToSet(callbacks[f]) \subseteq 1..lastCallbackUID[f]
      /\ \A t \in Slot : handle[t] # NoHandle =>
            handle[t].event \in Event /\ handle[t].uid \in 1..lastCallbackUID[handle[t].event]
  BY <1>0 DEF ListsInv
<1>4. /\ old \in Seq(Nat) /\ IsInjective(old) /\ ToSet(old) = HandledUIDs(e, {s})
      /\ ToSet(old) \subseteq ToSet(callbacks[e])
  BY <1>1, UnboundFacts
<1>5. uid \notin ToSet(old)
  <2>1. ToSet(old) \subseteq 1..lastCallbackUID[e]
    BY <1>3, <1>4
  <2> HIDE DEF old, uid
  <2> QED
    BY <1>2, <2>1
<1>6. /\ new \in Seq(Nat) /\ IsInjective(new) /\ ToSet(new) = ToSet(old) \cup {uid}
  <2>1. uid \in Nat
    BY <1>2
  <2> HIDE DEF uid, old
  <2> QED
    BY <1>4, <1>5, <2>1, AppendFacts
<1>7. ListsInv'
  <2>1. callbacks' \in [Event -> Seq(Nat)]
    BY <1>1, <1>6, UnboundFacts
  <2> USE <1>0
  <2>2. ASSUME NEW f \in Event
        PROVE  ToSet(callbacks'[f]) \subseteq 1..lastCallbackUID'[f]
    <3>1. CASE f = e
      <4>1. callbacks'[f] = new /\ lastCallbackUID'[f] = uid
        BY <1>1, <3>1, UnboundFacts DEF ListsInv
      <4>2. ToSet(old) \subseteq 1..lastCallbackUID[e]
        BY <1>3, <1>4
      <4>3. 1..lastCallbackUID[e] \subseteq 1..uid /\ uid \in 1..uid
        BY <1>2
      <4> HIDE DEF new, old, uid
      <4> QED
        BY <1>6, <4>1, <4>2, <4>3
    <3>2. CASE f # e
      <4>1. callbacks'[f] = Unbound(s)[f] /\ lastCallbackUID'[f] = lastCallbackUID[f]
        BY <1>1, <3>2, UnboundFacts DEF ListsInv
      <4> QED
        BY <1>3, <4>1, UnboundFacts
    <3> QED
      BY <3>1, <3>2
  <2>3. handle' \in [Slot -> {NoHandle} \cup [event : Event, uid : Nat]]
    BY <1>1, <1>2 DEF ListsInv
  <2>4. ASSUME NEW t \in Slot, handle'[t] # NoHandle
        PROVE  handle'[t].uid \in 1..lastCallbackUID'[handle'[t].event]
    <3>1. CASE t = s
      <4>1. handle'[t] = [event |-> e, uid |-> uid] /\ lastCallbackUID'[e] = uid
        BY <1>1, <3>1 DEF ListsInv
      <4> QED
        BY <1>2, <4>1
    <3>2. CASE t # s
      <4>1. handle'[t] = handle[t]
        BY <1>1, <3>2 DEF ListsInv
      <4>2. handle[t].event \in Event /\ handle[t].uid \in 1..lastCallbackUID[handle[t].event]
        BY <1>3, <2>4, <4>1
      <4>3. /\ lastCallbackUID[handle[t].event] <= lastCallbackUID'[handle[t].event]
            /\ lastCallbackUID[handle[t].event] \in Nat
            /\ lastCallbackUID'[handle[t].event] \in Nat
        BY <1>2, <4>2 DEF ListsInv
      <4> QED
        BY <4>1, <4>2, <4>3
    <3> QED
      BY <3>1, <3>2
  <2> QED
    BY <1>1, <1>2, <2>1, <2>2, <2>3, <2>4 DEF ListsInv
<1>8. HandlesDistinct'
  <2>1. \A t \in Slot \ {s} : handle'[t] = handle[t]
    BY <1>0, <1>1 DEF ListsInv
  <2>2. handle'[s].event = e /\ handle'[s].uid = uid
    BY <1>0, <1>1 DEF ListsInv
  <2>3. \A t \in Slot : handle[t] # NoHandle => handle[t].event # e \/ handle[t].uid # uid
    BY <1>2, <1>3
  <2> QED
    BY <1>0, <2>1, <2>2, <2>3 DEF HandlesDistinct
<1>9. BoundWhileHandled'
  <2> SUFFICES ASSUME NEW f \in alive
               PROVE  IsInjective(callbacks'[f]) /\ ToSet(callbacks'[f]) = HandledUIDs(f, {})'
    BY <1>1 DEF BoundWhileHandled, HandledUIDs
  <2>1. f \in Event /\ handle' \in [Slot -> {NoHandle} \cup [event : Event, uid : Nat]]
        /\ \A v \in Slot \ {s} : handle'[v] = handle[v]
    BY <1>1, <1>7 DEF ListsInv
  <2>2. handle'[s] = [event |-> e, uid |-> uid] /\ handle'[s] # NoHandle
    BY <1>0, <1>1, <1>2 DEF ListsInv, NoHandle
  <2>3. CASE f = e
    <3>1. HandledUIDs(e, {})' = HandledUIDs(e, {s}) \cup {uid}
      BY <2>1, <2>2 DEF HandledUIDs
    <3>2. callbacks'[f] = new
      BY <1>1, <2>3, UnboundFacts
    <3> QED
      BY <1>4, <1>6, <2>3, <3>1, <3>2
  <2>4. CASE f # e
    <3>1. HandledUIDs(f, {})' = HandledUIDs(f, {s})
      BY <2>1, <2>2, <2>4 DEF HandledUIDs
    <3>2. callbacks'[f] = Unbound(s)[f]
      BY <1>1, <2>1, <2>4, UnboundFacts
    <3> QED
      BY <2>1, <3>1, <3>2, UnboundFacts
  <2> QED
    BY <2>3, <2>4
<1> QED
  BY <1>7, <1>8, <1>9 DEF HandleInv

LEMMA DestroyHandleKeepsHandles ==
    ASSUME HandleInv, NEW s \in Slot, DestroyHandle(s)
    PROVE  HandleInv'
<1>1. /\ handle' = [handle EXCEPT ![s] = NoHandle]
      /\ callbacks' = Unbound(s) /\ alive' = alive
      /\ lastCallbackUID' = lastCallbackUID /\ undefined' = undefined
  BY DEF DestroyHandle
<1>2. ListsInv /\ HandlesDistinct
  BY DEF HandleInv
<1>3. ListsInv'
  <2>1. \A e \in Event : ToSet(callbacks'[e]) \subseteq 1..lastCallbackUID'[e]
    BY <1>1, <1>2, UnboundFacts DEF ListsInv
  <2>2. callbacks' \in [Event -> Seq(Nat)]
    BY <1>1, UnboundFacts
  <2> QED
    BY <1>1, <1>2, <2>1, <2>2 DEF ListsInv
<1>4. HandlesDistinct'
  BY <1>1, <1>2 DEF ListsInv, HandlesDistinct
<1>5. BoundWhileHandled'
  <2> SUFFICES ASSUME NEW e \in alive
               PROVE  IsInjective(callbacks'[e]) /\ ToSet(callbacks'[e]) = HandledUIDs(e, {})'
    BY <1>1 DEF BoundWhileHandled, HandledUIDs
  <2>1. HandledUIDs(e, {})' = HandledUIDs(e, {s})
    BY <1>1, <1>2 DEF ListsInv, HandledUIDs
  <2> QED
    BY <1>1, <2>1, UnboundFacts
<1> QED
  BY <1>3, <1>4, <1>5 DEF HandleInv

LEMMA DestroyEventKeepsHandles ==
    ASSUME HandleInv, NEW e \in Event, DestroyEvent(e)
    PROVE  HandleInv'
<1>1. /\ callbacks' = [callbacks EXCEPT ![e] = <<>>] /\ alive' = alive \ {e}
      /\ handle' = handle /\ lastCallbackUID' = lastCallbackUID /\ undefined' = undefined
  BY DEF DestroyEvent
<1>2. ListsInv /\ HandlesDistinct /\ BoundWhileHandled
  BY DEF HandleInv
<1>3. ListsInv'
  <2>1. ToSet(<<>>) = {}
    BY DEF ToSet
  <2>2. \A f \in Event : callbacks'[f] = IF f = e THEN <<>> ELSE callbacks[f]
    BY <1>1, <1>2 DEF ListsInv
  <2>3. callbacks' \in [Event -> Seq(Nat)]
    BY <1>1, <1>2 DEF ListsInv
  <2> QED
    BY <1>1, <1>2, <2>1, <2>2, <2>3 DEF ListsInv
<1>4. HandlesDistinct'
  BY <1>1, <1>2 DEF HandlesDistinct
<1>5. BoundWhileHandled'
  <2>1. \A f \in alive' : f \in alive /\ callbacks'[f] = callbacks[f]
    BY <1>1, <1>2 DEF ListsInv
  <2> QED
    BY <1>1, <1>2, <2>1 DEF BoundWhileHandled
<1> QED
  BY <1>3, <1>4, <1>5 DEF HandleInv

\* The steps of a broadcast leave handles and lists alone.
LEMMA BroadcastKeepsHandles ==
    ASSUME HandleInv, UNCHANGED <<alive, callbacks, lastCallbackUID, handle>>,
           undefined' \in BOOLEAN
    PROVE  HandleInv'
BY DEF HandleInv, ListsInv, HandlesDistinct, BoundWhileHandled

-----------------------------------------------------------------------------
(* Events: broadcasts. *)

\* A handle is destroyed under broadcasts: those of its event are told, and the
\* lists of the others start with what they started with.
LEMMA ShrunkKeepsBroadcasts ==
    ASSUME EventInv, NEW s \in Slot, broadcasts' = Shrunk(s),
           \A e \in Event : Unbound(s)[e] = callbacks[e]
              => /\ Len(callbacks[e]) <= Len(callbacks'[e])
                 /\ \A i \in 1..Len(callbacks[e]) : callbacks'[e][i] = callbacks[e][i]
    PROVE  BroadcastInv'
<1>1. HandleInv /\ ListsInv /\ broadcasts \in Seq(Frame) /\ callbacks \in [Event -> Seq(Nat)]
  BY DEF EventInv, HandleInv, ListsInv, BroadcastInv
<1> DEFINE Told(e) == handle[s] # NoHandle /\ handle[s].event = e
<1>2. /\ broadcasts' \in Seq(Frame) /\ Len(broadcasts') = Len(broadcasts)
      /\ \A i \in 1..Len(broadcasts) : broadcasts'[i] =
            [broadcasts[i] EXCEPT !.shrunk = @ \/ Told(broadcasts[i].event)]
  <2> DEFINE Frame2(i) == [broadcasts[i] EXCEPT !.shrunk = @ \/ Told(broadcasts[i].event)]
  <2>1. \A i \in 1..Len(broadcasts) : Frame2(i) \in Frame
    <3> SUFFICES ASSUME NEW i \in 1..Len(broadcasts) PROVE Frame2(i) \in Frame
      OBVIOUS
    <3>1. broadcasts[i] \in Frame /\ Told(broadcasts[i].event) \in BOOLEAN
      BY <1>1
    <3> QED
      BY <3>1 DEF Frame
  <2>2. broadcasts' = [i \in 1..Len(broadcasts) |-> Frame2(i)]
    BY <1>1 DEF Shrunk
  <2>3. Len(broadcasts) \in Nat
    BY <1>1
  <2> HIDE DEF Frame2
  <2>4. broadcasts' \in Seq(Frame) /\ Len(broadcasts') = Len(broadcasts)
    BY <2>1, <2>2, <2>3
  <2> QED
    BY <2>2, <2>4 DEF Frame2
<1>3. ASSUME NEW i \in 1..Len(broadcasts)
      PROVE  FrameInv(broadcasts[i])'
  <2> DEFINE b == broadcasts[i]
             c == broadcasts'[i]
             e == b.event
  <2>1. b \in Frame /\ FrameInv(b)
    BY <1>1 DEF EventInv, BroadcastInv
  <2>2. /\ c.event = e /\ c.next = b.next /\ c.end = b.end /\ c.running = b.running
        /\ c.bound = b.bound /\ c.called = b.called
        /\ c.shrunk = (b.shrunk \/ Told(e))
    BY <1>2, <2>1 DEF Frame
  <2>3. ASSUME ~c.shrunk
        PROVE  /\ Len(b.bound) <= Len(callbacks'[e])
               /\ \A j \in 1..Len(b.bound) : b.bound[j] = callbacks'[e][j]
    <3>1. ~b.shrunk /\ ~Told(e) /\ e \in Event
      BY <2>1, <2>2, <2>3 DEF Frame
    <3>2. Unbound(s)[e] = callbacks[e]
      BY <1>1, <3>1, UnboundFacts
    <3>3. /\ Len(b.bound) <= Len(callbacks[e]) /\ callbacks[e] \in Seq(Nat)
          /\ \A j \in 1..Len(b.bound) : b.bound[j] = callbacks[e][j]
      BY <1>1, <2>1, <3>1 DEF FrameInv
    <3>4. /\ Len(callbacks[e]) <= Len(callbacks'[e])
          /\ \A j \in 1..Len(callbacks[e]) : callbacks'[e][j] = callbacks[e][j]
      BY <3>1, <3>2
    <3> QED
      BY <3>3, <3>4
  <2> QED
    BY <2>1, <2>2, <2>3 DEF FrameInv
<1> QED
  BY <1>2, <1>3 DEF BroadcastInv

LEMMA RegisterKeepsBroadcasts ==
    ASSUME EventInv, NEW e \in Event, NEW s \in Slot, RegisterEvent(e, s)
    PROVE  BroadcastInv'
<1>1. HandleInv
  BY DEF EventInv
<1>2. NextUID(e) \in Nat /\ callbacks' = [Unbound(s) EXCEPT ![e] = Append(@, NextUID(e))]
  BY <1>1, EventAssumption DEF HandleInv, ListsInv, RegisterEvent, NextUID
<1>3. ASSUME NEW f \in Event, Unbound(s)[f] = callbacks[f]
      PROVE  /\ Len(callbacks[f]) <= Len(callbacks'[f])
             /\ \A i \in 1..Len(callbacks[f]) : callbacks'[f][i] = callbacks[f][i]
  <2>1. Unbound(s) \in [Event -> Seq(Nat)] /\ callbacks[f] \in Seq(Nat)
    BY <1>1, <1>3, UnboundFacts
  <2>2. callbacks'[f] = IF f = e THEN Append(callbacks[f], NextUID(e)) ELSE callbacks[f]
    BY <1>2, <1>3, <2>1
  <2>3. CASE f = e
    <3> DEFINE list == callbacks[f]
               uid == NextUID(e)
    <3>1. callbacks'[f] = Append(list, uid) /\ list \in Seq(Nat) /\ uid \in Nat
      BY <1>2, <2>1, <2>2, <2>3
    <3> HIDE DEF list, uid
    <3>2. /\ Len(Append(list, uid)) = Len(list) + 1 /\ Len(list) \in Nat
          /\ \A i \in 1..Len(list) : Append(list, uid)[i] = list[i]
      BY <3>1, AppendProperties
    <3>3. Len(list) <= Len(callbacks'[f]) /\ \A i \in 1..Len(list) : callbacks'[f][i] = list[i]
      BY <3>1, <3>2
    <3> QED
      BY <3>3 DEF list
  <2>4. CASE f # e
    BY <2>1, <2>2, <2>4
  <2> QED
    BY <2>3, <2>4
<1> QED
  BY <1>3, ShrunkKeepsBroadcasts DEF RegisterEvent

LEMMA DestroyHandleKeepsBroadcasts ==
    ASSUME EventInv, NEW s \in Slot, DestroyHandle(s)
    PROVE  BroadcastInv'
<1>1. callbacks' = Unbound(s) /\ callbacks \in [Event -> Seq(Nat)] /\ broadcasts' = Shrunk(s)
  BY DEF DestroyHandle, EventInv, HandleInv, ListsInv
<1>2. \A e \in Event : Unbound(s)[e] = callbacks[e]
              => /\ Len(callbacks[e]) <= Len(callbacks'[e])
                 /\ \A i \in 1..Len(callbacks[e]) : callbacks'[e][i] = callbacks[e][i]
  BY <1>1
<1> QED
  BY <1>1, <1>2, ShrunkKeepsBroadcasts

\* A broadcast begins with the list as it is.
LEMMA BeginKeepsBroadcasts ==
    ASSUME EventInv, NEW e \in Event, BeginBroadcast(e)
    PROVE  BroadcastInv'
<1> DEFINE b == [event |-> e, next |-> 1, end |-> Len(callbacks[e]), running |-> FALSE,
                 bound |-> callbacks[e], called |-> <<>>, shrunk |-> FALSE]
<1>1. broadcasts' = Append(broadcasts, b) /\ callbacks' = callbacks
  BY DEF BeginBroadcast
<1>2. broadcasts \in Seq(Frame) /\ callbacks[e] \in Seq(Nat)
      /\ \A i \in 1..Len(broadcasts) : FrameInv(broadcasts[i])
  BY DEF EventInv, HandleInv, ListsInv, BroadcastInv
<1>3. b \in Frame
  BY <1>2 DEF Frame
<1>4. FrameInv(b)
  BY <1>2 DEF FrameInv
<1> HIDE DEF b
<1>5. /\ broadcasts' \in Seq(Frame) /\ Len(broadcasts') = Len(broadcasts) + 1
      /\ Len(broadcasts) \in Nat
      /\ \A i \in 1..Len(broadcasts) : broadcasts'[i] = broadcasts[i]
      /\ broadcasts'[Len(broadcasts) + 1] = b
  BY <1>1, <1>2, <1>3, AppendProperties
<1>6. \A i \in 1..Len(broadcasts') : FrameInv(broadcasts'[i])
  BY <1>2, <1>4, <1>5
<1> QED
  BY <1>1, <1>5, <1>6 DEF BroadcastInv, FrameInv

\* A step of the innermost broadcast leaves the others where they are.
LEMMA InnermostKeepsBroadcasts ==
    ASSUME EventInv, broadcasts # <<>>, callbacks' = callbacks,
           NEW b \in Frame, FrameInv(b), SetInnermost(b)
    PROVE  BroadcastInv'
<1>1. broadcasts \in Seq(Frame) /\ \A i \in 1..Len(broadcasts) : FrameInv(broadcasts[i])
  BY DEF EventInv, BroadcastInv
<1>2. /\ broadcasts' \in Seq(Frame) /\ Len(broadcasts') = Len(broadcasts)
      /\ \A i \in 1..Len(broadcasts) :
            broadcasts'[i] = IF i = Len(broadcasts) THEN b ELSE broadcasts[i]
  BY <1>1 DEF SetInnermost
<1>3. \A i \in 1..Len(broadcasts') : FrameInv(broadcasts'[i])
  BY <1>1, <1>2
<1> QED
  BY <1>2, <1>3 DEF BroadcastInv, FrameInv

LEMMA InnermostIsFrame ==
    ASSUME EventInv, broadcasts # <<>>
    PROVE  /\ Innermost \in Frame /\ FrameInv(Innermost)
           /\ Innermost.event \in Event /\ callbacks[Innermost.event] \in Seq(Nat)
<1>1. broadcasts \in Seq(Frame) /\ \A i \in 1..Len(broadcasts) : FrameInv(broadcasts[i])
  BY DEF EventInv, BroadcastInv
<1>2. Len(broadcasts) \in 1..Len(broadcasts)
  BY <1>1
<1>3. Innermost \in Frame /\ FrameInv(Innermost)
  BY <1>1, <1>2 DEF Innermost, Last
<1> QED
  BY <1>3 DEF Frame, EventInv, HandleInv, ListsInv

LEMMA CallNextKeepsBroadcasts ==
    ASSUME EventInv, CallNext
    PROVE  BroadcastInv'
<1> DEFINE b == Innermost
           uid == callbacks[b.event][b.next]
           c == [b EXCEPT !.running = TRUE, !.called = Append(@, uid)]
<1>1. /\ b \in Frame /\ FrameInv(b)
      /\ b.event \in Event /\ callbacks[b.event] \in Seq(Nat)
      /\ broadcasts # <<>> /\ callbacks' = callbacks /\ SetInnermost(c)
      /\ ~b.running /\ b.next <= b.end /\ b.next <= Len(callbacks[b.event])
  BY InnermostIsFrame DEF CallNext
<1> HIDE DEF b
<1>2. /\ b.called \in Seq(Nat) /\ b.bound \in Seq(Nat) /\ b.next \in Nat /\ b.end \in Nat
      /\ b.shrunk \in BOOLEAN
  BY <1>1 DEF Frame
<1>3. uid \in Nat
  BY <1>1, <1>2 DEF FrameInv
<1>4. /\ c.event = b.event /\ c.next = b.next /\ c.end = b.end /\ c.running = TRUE
      /\ c.bound = b.bound /\ c.shrunk = b.shrunk /\ c.called = Append(b.called, uid)
      /\ c \in Frame
  <2>1. Append(b.called, uid) \in Seq(Nat)
    BY <1>2, <1>3
  <2> HIDE DEF uid
  <2>2. c \in Frame
    BY <1>1, <2>1 DEF Frame
  <2> QED
    BY <1>1, <2>1, <2>2 DEF Frame
<1>5. /\ Len(c.called) = Len(b.called) + 1
      /\ \A i \in 1..Len(b.called) : c.called[i] = b.called[i]
      /\ c.called[Len(b.called) + 1] = uid
  BY <1>2, <1>3, <1>4, AppendProperties
<1>6. Len(b.called) = b.next - 1 /\ b.end = Len(b.bound) /\ 1 <= b.next
  BY <1>1 DEF FrameInv
<1>7. ASSUME ~b.shrunk
      PROVE  \A i \in 1..Len(c.called) : c.called[i] = b.bound[i]
  <2>1. uid = b.bound[b.next] /\ \A i \in 1..Len(b.called) : b.called[i] = b.bound[i]
    <3>1. b.next \in 1..Len(b.bound)
      BY <1>1, <1>2, <1>6
    <3>2. /\ \A i \in 1..Len(b.bound) : b.bound[i] = callbacks[b.event][i]
          /\ \A i \in 1..Len(b.called) : b.called[i] = b.bound[i]
      BY <1>1, <1>7 DEF FrameInv
    <3> QED
      BY <3>1, <3>2
  <2> HIDE DEF c, uid
  <2> SUFFICES ASSUME NEW i \in 1..Len(c.called)
               PROVE  c.called[i] = b.bound[i]
    OBVIOUS
  <2>2. Len(b.called) \in Nat /\ b.next = Len(b.called) + 1
    BY <1>2, <1>6
  <2>3. i \in 1..Len(b.called) \/ i = Len(b.called) + 1
    BY <1>5, <2>2
  <2> QED
    BY <1>5, <2>1, <2>2, <2>3
<1> HIDE DEF c, uid
<1>8. FrameInv(c)
  BY <1>1, <1>2, <1>4, <1>5, <1>6, <1>7 DEF FrameInv
<1> QED
  BY <1>1, <1>4, <1>8, InnermostKeepsBroadcasts

LEMMA CallbackReturnsKeepsBroadcasts ==
    ASSUME EventInv, CallbackReturns
    PROVE  BroadcastInv'
<1> DEFINE b == Innermost
           c == [b EXCEPT !.running = FALSE, !.next = @ + 1]
<1>1. /\ b \in Frame /\ FrameInv(b) /\ broadcasts # <<>> /\ callbacks' = callbacks
      /\ SetInnermost(c) /\ b.running
  BY InnermostIsFrame DEF CallbackReturns
<1> HIDE DEF b
<1>2. /\ c \in Frame /\ c.event = b.event /\ c.next = b.next + 1 /\ c.end = b.end
      /\ c.running = FALSE /\ c.bound = b.bound /\ c.shrunk = b.shrunk /\ c.called = b.called
      /\ b.next \in Nat /\ b.end \in Nat
  <2>1. b.next + 1 \in Nat /\ b.next \in Nat /\ b.end \in Nat
    BY <1>1 DEF Frame
  <2>2. c \in Frame
    BY <1>1, <2>1 DEF Frame
  <2> QED
    BY <1>1, <2>1, <2>2 DEF Frame
<1> HIDE DEF c
<1>3. FrameInv(c)
  BY <1>1, <1>2 DEF FrameInv
<1> QED
  BY <1>1, <1>2, <1>3, InnermostKeepsBroadcasts

LEMMA EndKeepsBroadcasts ==
    ASSUME EventInv, EndBroadcast
    PROVE  BroadcastInv'
<1>1. /\ broadcasts \in Seq(Frame) /\ broadcasts # <<>> /\ callbacks' = callbacks
      /\ \A i \in 1..Len(broadcasts) : FrameInv(broadcasts[i])
      /\ broadcasts' = SubSeq(broadcasts, 1, Len(broadcasts) - 1)
  BY DEF EventInv, BroadcastInv, EndBroadcast, Front
<1>2. /\ broadcasts' \in Seq(Frame) /\ Len(broadcasts') = Len(broadcasts) - 1
      /\ \A i \in 1..Len(broadcasts') : broadcasts'[i] = broadcasts[i]
      /\ Len(broadcasts) \in Nat
  <2>1. Len(broadcasts) \in Nat /\ Len(broadcasts) - 1 \in 0..Len(broadcasts)
    BY <1>1, EmptySeq
  <2> QED
    BY <1>1, <2>1, PrefixFacts
<1>3. \A i \in 1..Len(broadcasts') : FrameInv(broadcasts'[i])
  BY <1>1, <1>2
<1> QED
  BY <1>1, <1>2, <1>3 DEF BroadcastInv, FrameInv

-----------------------------------------------------------------------------
(* Events: the theorems. *)

LEMMA EventNextInv == EventInv /\ [EventNext]_eventVars => EventInv'
<1> SUFFICES ASSUME EventInv, [EventNext]_eventVars
             PROVE  EventInv'
  OBVIOUS
<1>1. HandleInv /\ BroadcastInv /\ undefined \in BOOLEAN
  BY DEF EventInv, HandleInv, ListsInv
<1>2. ASSUME NEW e \in Event, NEW s \in Slot, RegisterEvent(e, s)
      PROVE  EventInv'
  BY <1>1, <1>2, RegisterKeepsHandles, RegisterKeepsBroadcasts DEF EventInv
<1>3. ASSUME NEW s \in Slot, DestroyHandle(s)
      PROVE  EventInv'
  BY <1>1, <1>3, DestroyHandleKeepsHandles, DestroyHandleKeepsBroadcasts DEF EventInv
<1>4. ASSUME NEW e \in Event, DestroyEvent(e)
      PROVE  EventInv'
  <2>1. broadcasts' = <<>>
    BY <1>4 DEF DestroyEvent
  <2>2. BroadcastInv'
    BY <2>1 DEF BroadcastInv
  <2> QED
    BY <1>1, <1>4, <2>2, DestroyEventKeepsHandles DEF EventInv
<1>5. ASSUME NEW e \in Event, BeginBroadcast(e)
      PROVE  EventInv'
  <2>1. HandleInv'
    BY <1>1, <1>5, BroadcastKeepsHandles DEF BeginBroadcast
  <2> QED
    BY <1>5, <2>1, BeginKeepsBroadcasts DEF EventInv
<1>6. CASE CallNext
  <2>1. HandleInv'
    BY <1>1, <1>6, BroadcastKeepsHandles DEF CallNext
  <2> QED
    BY <1>6, <2>1, CallNextKeepsBroadcasts DEF EventInv
<1>7. CASE CallDestroyed
  <2>1. HandleInv'
    BY <1>1, <1>7, BroadcastKeepsHandles DEF CallDestroyed
  <2>2. BroadcastInv'
    BY <1>1, <1>7 DEF CallDestroyed, BroadcastInv, FrameInv
  <2> QED
    BY <2>1, <2>2 DEF EventInv
<1>8. CASE CallbackReturns
  <2>1. HandleInv'
    BY <1>1, <1>8, BroadcastKeepsHandles DEF CallbackReturns
  <2> QED
    BY <1>8, <2>1, CallbackReturnsKeepsBroadcasts DEF EventInv
<1>9. CASE EndBroadcast
  <2>1. HandleInv'
    BY <1>1, <1>9, BroadcastKeepsHandles DEF EndBroadcast
  <2> QED
    BY <1>9, <2>1, EndKeepsBroadcasts DEF EventInv
<1>10. CASE UNCHANGED eventVars
  <2>1. HandleInv'
    BY <1>1, <1>10, BroadcastKeepsHandles DEF eventVars
  <2>2. BroadcastInv'
    BY <1>1, <1>10 DEF eventVars, BroadcastInv, FrameInv
  <2> QED
    BY <2>1, <2>2 DEF EventInv
<1> QED
  BY <1>2, <1>3, <1>4, <1>5, <1>6, <1>7, <1>8, <1>9, <1>10 DEF EventNext

LEMMA EventInvariance == EventSpec => []EventInv
<1>1. EventInit => EventInv
  BY EventInitInv
<1>2. EventInv /\ [EventNext]_eventVars => EventInv'
  BY EventNextInv
<1> QED
  BY <1>1, <1>2, PTL DEF EventSpec

\* Callbacks are bound, each once, exactly as long as some handle stands for
\* them, whichever handles and events are destroyed first, also by callbacks in
\* the middle of a broadcast (registerEvent, unbind, ~ksEventHandle).
THEOREM CallbacksLiveAsHandles == EventSpec => []HandlesAreTrue
<1>1. EventInv => HandlesAreTrue
  <2> SUFFICES ASSUME EventInv
               PROVE  HandlesAreTrue
    OBVIOUS
  <2>1. ListsInv /\ BoundWhileHandled
    BY DEF EventInv, HandleInv
  <2>2. ASSUME NEW e \in Event
        PROVE  \A i \in 1..Len(callbacks[e]) : callbacks[e][i] \in 1..lastCallbackUID[e]
    <3>1. callbacks[e] \in Seq(Nat) /\ ToSet(callbacks[e]) \subseteq 1..lastCallbackUID[e]
      BY <2>1 DEF ListsInv
    <3> QED
      BY <3>1 DEF ToSet
  <2> QED
    BY <2>1, <2>2 DEF HandlesAreTrue, EventTypeOK, ListsInv
<1> QED
  BY <1>1, EventInvariance, PTL

\* A broadcast that nothing is unbound under calls what was bound when it
\* began, each callback once and in order (broadcast).
THEOREM BroadcastsReachAllBound == EventSpec => ReachesAllBound
<1>1. EventInv /\ EndBroadcast /\ ~Innermost.shrunk => Innermost.called = Innermost.bound
  <2> SUFFICES ASSUME EventInv, EndBroadcast, ~Innermost.shrunk
               PROVE  Innermost.called = Innermost.bound
    OBVIOUS
  <2> DEFINE b == Innermost
  <2>1. b \in Frame /\ FrameInv(b) /\ ~b.running /\ b.next > b.end
    BY InnermostIsFrame DEF EndBroadcast
  <2> HIDE DEF b
  <2>2. b.called \in Seq(Nat) /\ b.bound \in Seq(Nat) /\ b.next \in Nat /\ b.end \in Nat
    BY <2>1 DEF Frame
  <2>3. ~b.shrunk
    BY DEF b
  <2>4. Len(b.called) = Len(b.bound) /\ \A i \in 1..Len(b.called) : b.called[i] = b.bound[i]
    BY <2>1, <2>2, <2>3 DEF FrameInv
  <2>5. b.called = b.bound
    BY <2>2, <2>4, SeqEqual
  <2> QED
    BY <2>5 DEF b
<1>2. EventInv /\ [EventNext]_eventVars
      => [EndBroadcast /\ ~Innermost.shrunk => Innermost.called = Innermost.bound]_eventVars
  BY <1>1
<1> QED
  BY <1>2, EventInvariance, PTL DEF EventSpec, ReachesAllBound

-----------------------------------------------------------------------------
(* Concatenation and flattening. *)

LEMMA Associative ==
    \A S : \A r, s, t \in Seq(S) : (r \o s) \o t = r \o (s \o t)
BY ConcatAssociative

LEMMA ConcatFacts ==
    \A S : \A s, t \in Seq(S) :
        /\ s \o t \in Seq(S)
        /\ Len(s \o t) = Len(s) + Len(t)
        /\ \A i \in 1..(Len(s) + Len(t)) :
              (s \o t)[i] = IF i <= Len(s) THEN s[i] ELSE t[i - Len(s)]
BY ConcatProperties

LEMMA TwoElements ==
    ASSUME NEW S, NEW a, NEW b, a \in S, b \in S
    PROVE  <<a>> \o <<b>> = <<a, b>> /\ <<a, b>> \in Seq(S)
<1>1. <<a>> \in Seq(S) /\ <<b>> \in Seq(S) /\ <<a, b>> \in Seq(S)
  OBVIOUS
<1>2. /\ <<a>> \o <<b>> \in Seq(S) /\ Len(<<a>> \o <<b>>) = 2
      /\ (<<a>> \o <<b>>)[1] = a /\ (<<a>> \o <<b>>)[2] = b
  BY <1>1, ConcatProperties
<1> DEFINE x == <<a>> \o <<b>>
           y == <<a, b>>
<1>3. x \in Seq(S) /\ y \in Seq(S) /\ Len(x) = 2 /\ Len(y) = 2
      /\ x[1] = a /\ x[2] = b /\ y[1] = a /\ y[2] = b
  BY <1>1, <1>2
<1> HIDE DEF x, y
<1>4. x = y
  <2>1. \A i \in 1..2 : x[i] = y[i]
    BY <1>3
  <2> QED
    BY <1>3, <2>1, SeqEqual
<1> QED
  BY <1>1, <1>4 DEF x, y

LEMMA FourElements ==
    ASSUME NEW S, NEW a \in S, NEW b \in S, NEW c \in S, NEW d \in S
    PROVE  <<a, b>> \o <<c, d>> = <<a, b, c, d>>
<1> DEFINE u == <<a, b>>
           v == <<c, d>>
           x == u \o v
           y == <<a, b, c, d>>
<1>1. /\ u \in Seq(S) /\ v \in Seq(S) /\ y \in Seq(S)
      /\ Len(u) = 2 /\ Len(v) = 2 /\ Len(y) = 4
      /\ u[1] = a /\ u[2] = b /\ v[1] = c /\ v[2] = d
      /\ y[1] = a /\ y[2] = b /\ y[3] = c /\ y[4] = d
  OBVIOUS
<1> HIDE DEF u, v
<1>2. /\ x \in Seq(S) /\ Len(x) = 4
      /\ \A i \in 1..4 : x[i] = IF i <= 2 THEN u[i] ELSE v[i - 2]
  <2>1. u \in Seq(S) /\ v \in Seq(S)
    BY <1>1
  <2>2. /\ x \in Seq(S) /\ Len(x) = Len(u) + Len(v)
        /\ \A i \in 1..(Len(u) + Len(v)) : x[i] = IF i <= Len(u) THEN u[i] ELSE v[i - Len(u)]
    BY <2>1, ConcatProperties
  <2> QED
    BY <1>1, <2>2
<1> HIDE DEF x, y
<1>3. \A i \in 1..4 : x[i] = y[i]
  BY <1>1, <1>2
<1>4. x = y
  BY <1>1, <1>2, <1>3, SeqEqual
<1> QED
  BY <1>4 DEF x, y, u, v

LEMMA ConcatElements ==
    ASSUME NEW S, NEW s, NEW t, s \in Seq(S), t \in Seq(S)
    PROVE  /\ Len(s \o t) = Len(s) + Len(t)
           /\ \A i \in 1..(Len(s) + Len(t)) :
                 (s \o t)[i] = IF i <= Len(s) THEN s[i] ELSE t[i - Len(s)]
BY ConcatProperties

\* FlattenSeq puts one sequence behind the other.
LEMMA FlattenSteps ==
    ASSUME NEW S, NEW p \in Seq(Seq(S))
    PROVE  \E g \in [0..Len(p) -> Seq(S)] :
              /\ g[0] = <<>>
              /\ \A i \in 1..Len(p) : g[i] = g[i - 1] \o p[i]
              /\ FlattenSeq(p) = g[Len(p)]
<1> DEFINE L == Len(p)
           D == 0..L
           V == Seq(S)
           measure == [n \in D |-> n]
           previous == [n \in D |-> IF n = 0 THEN 0 ELSE n - 1]
           base == [n \in D |-> <<>>]
           step == [x \in D \X V |-> IF x[1] = 0 THEN <<>> ELSE x[2] \o p[x[1]]]
           Flat(f) == [i \in 1..L |-> IF i = 1 THEN p[i] ELSE f[i - 1] \o p[i]]
           flat == CHOOSE f : f = Flat(f)
<1>1. L \in Nat /\ \A i \in 1..L : p[i] \in Seq(S)
  OBVIOUS
<1>2. PICK f \in [D -> V] :
           \A n \in D : f[n] = Value(f, n, measure, base, step, previous)
  <2>1. step \in [D \X V -> V]
    <3>1. ASSUME NEW x \in D \X V
          PROVE  step[x] \in V
      <4>1. CASE x[1] = 0
        BY <4>1
      <4>2. CASE x[1] # 0
        <5>1. p[x[1]] \in Seq(S) /\ x[2] \in Seq(S)
          BY <1>1, <4>2
        <5> QED
          BY <4>2, <5>1, ConcatProperties
      <4> QED
        BY <4>1, <4>2
    <3> QED
      BY <3>1
  <2>2. IsRecursion(D, V, measure, base, step, previous)
    BY <1>1, <2>1 DEF IsRecursion
  <2> HIDE DEF measure, previous, base, step, D, V
  <2> QED
    BY <2>2, RecursionExists
<1>3. f[0] = <<>>
  <2>1. 0 \in D
    BY <1>1
  <2> QED
    BY <1>2, <2>1 DEF Value
<1>4. ASSUME NEW i \in 1..L
      PROVE  f[i] = f[i - 1] \o p[i]
  <2>1. i \in D /\ i - 1 \in D /\ i # 0
    BY <1>1
  <2>2. f[i - 1] \in V
    BY <2>1
  <2> QED
    BY <1>2, <2>1, <2>2 DEF Value
<1> DEFINE first == [i \in 1..L |-> f[i]]
<1>9. L # 0 => f[1] = p[1]
  <2> SUFFICES ASSUME L # 0
               PROVE  f[1] = p[1]
    OBVIOUS
  <2>1. 1 \in 1..L /\ 1 - 1 = 0
    BY <1>1
  <2>2. f[1] = <<>> \o p[1] /\ p[1] \in Seq(S)
    BY <1>1, <1>3, <1>4, <2>1
  <2> QED
    BY <2>2, ConcatEmptySeq
<1>5. first = Flat(first)
  <2>1. ASSUME NEW i \in 1..L
        PROVE  f[i] = IF i = 1 THEN p[i] ELSE first[i - 1] \o p[i]
    <3>1. CASE i = 1
      BY <1>1, <1>9, <3>1
    <3>2. CASE i # 1
      <4>1. i - 1 \in 1..L
        BY <1>1, <3>2
      <4> QED
        BY <1>4, <3>2, <4>1
    <3> QED
      BY <3>1, <3>2
  <2> QED
    BY <2>1
<1>6. flat = Flat(flat)
  <2> HIDE DEF Flat, first
  <2> QED
    BY <1>5
<1>7. CASE L = 0
  <2>1. FlattenSeq(p) = <<>>
    BY <1>7 DEF FlattenSeq
  <2> QED
    BY <1>2, <1>3, <1>4, <1>7, <2>1
<1>8. CASE L # 0
  <2>1. FlattenSeq(p) = flat[L]
    BY <1>8 DEF FlattenSeq
  <2> HIDE DEF flat
  <2> DEFINE I == {n \in Nat : n + 1 <= L => flat[n + 1] = f[n + 1]}
  <2>2. 0 \in I
    <3>1. 1 \in 1..L
      BY <1>1, <1>8
    <3>2. Flat(flat)[1] = p[1] /\ f[1] = p[1]
      BY <1>9, <1>8, <3>1
    <3> HIDE DEF Flat
    <3> QED
      BY <1>6, <3>2
  <2>3. ASSUME NEW n \in Nat, n \in I
        PROVE  n + 1 \in I
    <3> SUFFICES ASSUME n + 2 <= L
                 PROVE  flat[n + 2] = f[n + 2]
      BY <2>3
    <3>1. n + 2 \in 1..L /\ (n + 2) - 1 = n + 1 /\ n + 2 # 1 /\ n + 1 <= L
      BY <1>1
    <3>2. Flat(flat)[n + 2] = flat[n + 1] \o p[n + 2]
      BY <3>1
    <3>3. f[n + 2] = f[n + 1] \o p[n + 2]
      BY <1>4, <3>1
    <3>4. flat[n + 1] = f[n + 1]
      BY <2>3, <3>1
    <3> HIDE DEF Flat
    <3> QED
      BY <1>6, <3>2, <3>3, <3>4
  <2>4. L - 1 \in I
    <3> HIDE DEF I
    <3>1. L - 1 \in Nat
      BY <1>1, <1>8
    <3> QED
      BY <2>2, <2>3, <3>1, SetInduction
  <2>5. flat[L] = f[L]
    BY <1>1, <1>8, <2>4
  <2> QED
    BY <1>2, <1>3, <1>4, <2>1, <2>5
<1> QED
  BY <1>7, <1>8

LEMMA FlattenType ==
    ASSUME NEW S, NEW p \in Seq(Seq(S))
    PROVE  FlattenSeq(p) \in Seq(S)
<1>1. PICK g \in [0..Len(p) -> Seq(S)] : FlattenSeq(p) = g[Len(p)]
  BY FlattenSteps
<1> QED
  BY <1>1

\* f takes x off the front of a text and puts u in front of what the rest stands for.
Parses(f, S, x, u) == \A t \in Seq(S) : f[x \o t] = u \o f[t]

LEMMA ParsesTwo ==
    ASSUME NEW S, NEW T, NEW f \in [Seq(S) -> Seq(T)],
           NEW x \in Seq(S), NEW y \in Seq(S), NEW u \in Seq(T), NEW v \in Seq(T),
           Parses(f, S, x, u), Parses(f, S, y, v)
    PROVE  Parses(f, S, x \o y, u \o v)
<1>1. \A r, s, t \in Seq(S) : (r \o s) \o t = r \o (s \o t)
  BY Associative, SMTT(60)
<1>2. \A r, s, t \in Seq(T) : (r \o s) \o t = r \o (s \o t)
  BY Associative, SMTT(60)
<1> SUFFICES ASSUME NEW t \in Seq(S)
             PROVE  f[(x \o y) \o t] = (u \o v) \o f[t]
  BY DEF Parses
<1>3. f[t] \in Seq(T) /\ y \o t \in Seq(S)
  OBVIOUS
<1>4. (x \o y) \o t = x \o (y \o t) /\ (u \o v) \o f[t] = u \o (v \o f[t])
  BY <1>1, <1>2, <1>3, Zenon
<1> QED
  BY <1>3, <1>4, Zenon DEF Parses

LEMMA ParsesAll ==
    ASSUME NEW S, NEW T, NEW p \in Seq(Seq(S)), NEW q \in Seq(Seq(T)), Len(p) = Len(q),
           NEW f \in [Seq(S) -> Seq(T)],
           \A i \in 1..Len(p) : Parses(f, S, p[i], q[i])
    PROVE  Parses(f, S, FlattenSeq(p), FlattenSeq(q))
<1>1. PICK g \in [0..Len(p) -> Seq(S)] :
              /\ g[0] = <<>>
              /\ \A i \in 1..Len(p) : g[i] = g[i - 1] \o p[i]
              /\ FlattenSeq(p) = g[Len(p)]
  BY FlattenSteps
<1>2. PICK h \in [0..Len(q) -> Seq(T)] :
              /\ h[0] = <<>>
              /\ \A i \in 1..Len(q) : h[i] = h[i - 1] \o q[i]
              /\ FlattenSeq(q) = h[Len(q)]
  BY FlattenSteps
<1> DEFINE L == Len(p)
           I == {n \in Nat : n <= L => Parses(f, S, g[n], h[n])}
<1>3. L \in Nat /\ L = Len(q) /\ \A i \in 1..L : p[i] \in Seq(S) /\ q[i] \in Seq(T)
  OBVIOUS
<1>4. 0 \in I
  <2>1. \A t \in Seq(S) : <<>> \o t = t /\ <<>> \o f[t] = f[t]
    BY ConcatEmptySeq
  <2>2. Parses(f, S, <<>>, <<>>)
    BY <2>1 DEF Parses
  <2> QED
    BY <1>1, <1>2, <2>2
<1>5. ASSUME NEW n \in Nat, n \in I
      PROVE  n + 1 \in I
  <2> SUFFICES ASSUME n + 1 <= L
               PROVE  Parses(f, S, g[n + 1], h[n + 1])
    OBVIOUS
  <2>1. n + 1 \in 1..L /\ n \in 0..L /\ (n + 1) - 1 = n
    BY <1>3
  <2> DEFINE x == g[n]
             y == p[n + 1]
             u == h[n]
             v == q[n + 1]
  <2>2. x \in Seq(S) /\ y \in Seq(S) /\ u \in Seq(T) /\ v \in Seq(T)
    BY <1>3, <2>1
  <2>3. g[n + 1] = x \o y /\ h[n + 1] = u \o v
    <3>1. n + 1 \in 1..Len(p) /\ n + 1 \in 1..Len(q)
      BY <1>3, <2>1
    <3> QED
      BY <1>1, <1>2, <2>1, <3>1
  <2>4. Parses(f, S, x, u) /\ Parses(f, S, y, v)
    BY <1>3, <1>5, <2>1
  <2> HIDE DEF x, y, u, v
  <2>5. Parses(f, S, x \o y, u \o v)
    BY <2>2, <2>4, ParsesTwo
  <2> QED
    BY <2>3, <2>5
<1>6. L \in I
  <2> HIDE DEF I
  <2> QED
    BY <1>3, <1>4, <1>5, SetInduction
<1> QED
  BY <1>1, <1>2, <1>3, <1>6

\* Single elements give the sequence of them, pairs the alternating sequence.
LEMMA FlattenSingles ==
    ASSUME NEW S, NEW s \in Seq(S)
    PROVE  FlattenSeq([i \in DOMAIN s |-> <<s[i]>>]) = s
<1> DEFINE p == [i \in DOMAIN s |-> <<s[i]>>]
<1>1. Len(s) \in Nat /\ DOMAIN s = 1..Len(s) /\ \A i \in 1..Len(s) : s[i] \in S
  OBVIOUS
<1>2. p \in Seq(Seq(S)) /\ Len(p) = Len(s) /\ \A i \in 1..Len(s) : p[i] = <<s[i]>>
  BY <1>1
<1> HIDE DEF p
<1>3. PICK g \in [0..Len(s) -> Seq(S)] :
              /\ g[0] = <<>>
              /\ \A i \in 1..Len(s) : g[i] = g[i - 1] \o <<s[i]>>
              /\ FlattenSeq(p) = g[Len(s)]
  <2>1. PICK g \in [0..Len(p) -> Seq(S)] :
              /\ g[0] = <<>>
              /\ \A i \in 1..Len(p) : g[i] = g[i - 1] \o p[i]
              /\ FlattenSeq(p) = g[Len(p)]
    BY <1>2, FlattenSteps
  <2> QED
    BY <1>2, <2>1
<1> DEFINE I == {n \in Nat : n <= Len(s) =>
                    Len(g[n]) = n /\ \A i \in 1..n : g[n][i] = s[i]}
<1>4. 0 \in I
  BY <1>3
<1>5. ASSUME NEW n \in Nat, n \in I
      PROVE  n + 1 \in I
  <2> SUFFICES ASSUME n + 1 <= Len(s)
               PROVE  Len(g[n + 1]) = n + 1 /\ \A i \in 1..(n + 1) : g[n + 1][i] = s[i]
    BY <1>5
  <2>1. n + 1 \in 1..Len(s) /\ n \in 0..Len(s) /\ (n + 1) - 1 = n
    BY <1>1
  <2>2. g[n] \in Seq(S) /\ s[n + 1] \in S /\ g[n + 1] = g[n] \o <<s[n + 1]>>
    BY <1>1, <1>3, <2>1
  <2>3. Len(g[n]) = n /\ \A i \in 1..n : g[n][i] = s[i]
    BY <1>5, <2>1
  <2>4. <<s[n + 1]>> \in Seq(S) /\ Len(<<s[n + 1]>>) = 1 /\ <<s[n + 1]>>[1] = s[n + 1]
    BY <2>2
  <2>5. Len(g[n + 1]) = n + 1 /\ \A i \in 1..n + 1 : g[n + 1][i] = IF i <= n THEN g[n][i] ELSE s[n + 1]
    BY <2>2, <2>3, <2>4, ConcatProperties
  <2> QED
    BY <2>3, <2>5
<1>6. Len(s) \in I
  <2> HIDE DEF I
  <2> QED
    BY <1>1, <1>4, <1>5, SetInduction
<1>7. g[Len(s)] \in Seq(S)
  BY <1>1
<1>8. g[Len(s)] = s
  BY <1>1, <1>6, <1>7, SeqEqual
<1> QED
  BY <1>3, <1>8 DEF p

LEMMA FlattenPairs ==
    ASSUME NEW S, NEW s \in Seq(S), NEW t \in Seq(S), Len(s) = Len(t)
    PROVE  LET all == FlattenSeq([i \in DOMAIN s |-> <<s[i], t[i]>>])
           IN  /\ all \in Seq(S) /\ Len(all) = 2 * Len(s)
               /\ \A i \in 1..Len(s) : all[2 * i - 1] = s[i] /\ all[2 * i] = t[i]
<1> DEFINE p == [i \in DOMAIN s |-> <<s[i], t[i]>>]
           L == Len(s)
<1>1. /\ L \in Nat /\ DOMAIN s = 1..L
      /\ \A i \in 1..L : s[i] \in S /\ t[i] \in S
  OBVIOUS
<1>2. p \in Seq(Seq(S)) /\ Len(p) = L /\ \A i \in 1..L : p[i] = <<s[i], t[i]>>
  BY <1>1
<1> HIDE DEF p
<1>3. PICK g \in [0..L -> Seq(S)] :
              /\ g[0] = <<>>
              /\ \A i \in 1..L : g[i] = g[i - 1] \o <<s[i], t[i]>>
              /\ FlattenSeq(p) = g[L]
  <2>1. PICK g \in [0..Len(p) -> Seq(S)] :
              /\ g[0] = <<>>
              /\ \A i \in 1..Len(p) : g[i] = g[i - 1] \o p[i]
              /\ FlattenSeq(p) = g[Len(p)]
    BY <1>2, FlattenSteps
  <2> QED
    BY <1>2, <2>1
<1> DEFINE Alternates(n) == /\ Len(g[n]) = 2 * n
                            /\ \A i \in 1..n : g[n][2 * i - 1] = s[i] /\ g[n][2 * i] = t[i]
           I == {n \in Nat : n <= L => Alternates(n)}
<1>4. 0 \in I
  BY <1>3
<1>5. ASSUME NEW n \in Nat, n \in I
      PROVE  n + 1 \in I
  <2> SUFFICES ASSUME n + 1 <= L
               PROVE  Alternates(n + 1)
    BY <1>5
  <2>1. n + 1 \in 1..L /\ n \in 0..L /\ (n + 1) - 1 = n
    BY <1>1
  <2> DEFINE last == <<s[n + 1], t[n + 1]>>
  <2>2. g[n] \in Seq(S) /\ g[n + 1] = g[n] \o last
    BY <1>1, <1>3, <2>1
  <2>3. Alternates(n)
    BY <1>5, <2>1
  <2>4. last \in Seq(S) /\ Len(last) = 2 /\ last[1] = s[n + 1] /\ last[2] = t[n + 1]
    BY <1>1, <2>1
  <2> HIDE DEF last
  <2>5. /\ Len(g[n + 1]) = 2 * n + 2
        /\ \A i \in 1..(2 * n + 2) : g[n + 1][i] = IF i <= 2 * n THEN g[n][i] ELSE last[i - 2 * n]
    <3> DEFINE x == g[n]
    <3>1. x \in Seq(S) /\ g[n + 1] = x \o last /\ Len(x) = 2 * n
      BY <2>2, <2>3
    <3> HIDE DEF x
    <3>2. /\ Len(x \o last) = Len(x) + Len(last)
          /\ \A i \in 1..(Len(x) + Len(last)) :
                (x \o last)[i] = IF i <= Len(x) THEN x[i] ELSE last[i - Len(x)]
      <4>1. x \in Seq(S) /\ last \in Seq(S)
        BY <2>4, <3>1
      <4> QED
        BY <4>1, ConcatElements
    <3> QED
      BY <2>4, <3>1, <3>2 DEF x
  <2>6. ASSUME NEW i \in 1..n
        PROVE  g[n + 1][2 * i - 1] = s[i] /\ g[n + 1][2 * i] = t[i]
    BY <2>3, <2>5
  <2>7. g[n + 1][2 * (n + 1) - 1] = s[n + 1] /\ g[n + 1][2 * (n + 1)] = t[n + 1]
    <3>1. 2 * (n + 1) - 1 \in 1..(2 * n + 2) /\ ~ (2 * (n + 1) - 1 <= 2 * n)
          /\ (2 * (n + 1) - 1) - 2 * n = 1 /\ 2 * (n + 1) \in 1..(2 * n + 2)
          /\ ~ (2 * (n + 1) <= 2 * n) /\ 2 * (n + 1) - 2 * n = 2
      OBVIOUS
    <3> QED
      BY <2>4, <2>5, <3>1
  <2>8. 2 * n + 2 = 2 * (n + 1) /\ \A i \in 1..(n + 1) : i \in 1..n \/ i = n + 1
    OBVIOUS
  <2> QED
    BY <2>5, <2>6, <2>7, <2>8
<1>6. L \in I
  <2> HIDE DEF I
  <2> QED
    BY <1>1, <1>4, <1>5, SetInduction
<1>7. Alternates(L) /\ g[L] \in Seq(S)
  BY <1>1, <1>6
<1> QED
  BY <1>3, <1>7 DEF p

-----------------------------------------------------------------------------
(* Numbers: the least and the greatest of a set. *)

LEMMA LeastExists ==
    ASSUME NEW S \in SUBSET Nat, S # {}
    PROVE  \E n \in S : \A m \in S : n <= m
<1>1. PICK n \in S : \A m \in S : <<m, n>> \notin OpToRel(<, Nat)
  BY WFMin, NatLessThanWellFounded, Zenon
<1>2. ASSUME NEW m \in S
      PROVE  n <= m
  <2>1. m \in Nat /\ n \in Nat
    OBVIOUS
  <2>2. m < n => <<m, n>> \in OpToRel(<, Nat)
    BY <2>1 DEF OpToRel
  <2>3. ~(m < n)
    BY <1>1, <2>2, Zenon
  <2> QED
    BY <2>1, <2>3
<1> QED
  BY <1>2

LEMMA MinIs ==
    ASSUME NEW S \in SUBSET Int, NEW n \in S, \A m \in S : n <= m
    PROVE  Min(S) = n
<1>1. Min(S) \in S /\ \A m \in S : Min(S) <= m
  BY DEF Min
<1>2. Min(S) \in Int /\ n \in Int /\ Min(S) <= n /\ n <= Min(S)
  BY <1>1
<1> QED
  BY <1>2

LEMMA MinOfTwo ==
    ASSUME NEW a \in Int, NEW b \in Int, a <= b
    PROVE  Min({a, b}) = a /\ Min({b, a}) = a
BY DEF Min

LEMMA MaxIs ==
    ASSUME NEW S \in SUBSET Int, NEW n \in S, \A m \in S : m <= n
    PROVE  Max(S) = n
<1>1. Max(S) \in S /\ \A m \in S : Max(S) >= m
  BY DEF Max
<1>2. Max(S) \in Int /\ n \in Int /\ Max(S) <= n /\ n <= Max(S)
  BY <1>1
<1> QED
  BY <1>2

LEMMA MinExists ==
    ASSUME NEW S \in SUBSET Nat, S # {}
    PROVE  Min(S) \in S /\ \A m \in S : Min(S) <= m
BY LeastExists DEF Min

-----------------------------------------------------------------------------
(* Parsers. *)

\* A recursion over texts that takes off the first item of a text as long as it
\* is not to stop.
Parser(f, Stop, first, rest) ==
    [s \in Seq(Char) |-> IF s \in Stop THEN <<>> ELSE <<first[s]>> \o f[rest[s]]]

\* It takes values off the front, and makes the text shorter.
Reads(V, Stop, first, rest) ==
    \A s \in Seq(Char) \ Stop :
        first[s] \in V /\ rest[s] \in Seq(Char) /\ Len(rest[s]) < Len(s)

TheParser(Stop, first, rest) == CHOOSE f : f = Parser(f, Stop, first, rest)

LEMMA ParserFacts ==
    ASSUME NEW V, NEW Stop, NEW first, NEW rest, Reads(V, Stop, first, rest)
    PROVE  /\ TheParser(Stop, first, rest) \in [Seq(Char) -> Seq(V)]
           /\ TheParser(Stop, first, rest)
                = Parser(TheParser(Stop, first, rest), Stop, first, rest)
<1> USE DEF Reads
<1> DEFINE D == Seq(Char)
           W == Seq(V)
           measure == [s \in D |-> IF s \in Stop THEN 0 ELSE Len(s)]
           previous == [s \in D |-> IF s \in Stop THEN s ELSE rest[s]]
           base == [s \in D |-> <<>>]
           step == [x \in D \X W |-> IF x[1] \in Stop THEN <<>> ELSE <<first[x[1]]>> \o x[2]]
<1>1. step \in [D \X W -> W]
  <2>1. ASSUME NEW x \in D \X W
        PROVE  step[x] \in W
    <3>1. CASE x[1] \in Stop
      BY <3>1
    <3>2. CASE x[1] \notin Stop
      <4> DEFINE v == first[x[1]]
                 w == x[2]
      <4>1. v \in V /\ w \in Seq(V) /\ <<v>> \in Seq(V) /\ step[x] = <<v>> \o w
        BY <3>2
      <4> HIDE DEF v, w
      <4>2. <<v>> \o w \in Seq(V)
        BY <4>1, ConcatProperties
      <4> QED
        BY <4>1, <4>2
    <3> QED
      BY <3>1, <3>2
  <2> QED
    BY <2>1
<1>2. IsRecursion(D, W, measure, base, step, previous)
  <2>1. \A s \in D : Len(s) \in Nat
    OBVIOUS
  <2>2. measure \in [D -> Nat] /\ previous \in [D -> D] /\ base \in [D -> W]
    BY <2>1
  <2>3. ASSUME NEW s \in D, measure[s] # 0
        PROVE  measure[previous[s]] < measure[s]
    <3>1. s \notin Stop /\ previous[s] = rest[s] /\ rest[s] \in D
      BY <2>3
    <3>2. measure[rest[s]] <= Len(rest[s]) /\ Len(rest[s]) < Len(s) /\ measure[s] = Len(s)
      BY <2>1, <3>1
    <3> QED
      BY <2>1, <3>1, <3>2
  <2> QED
    BY <1>1, <2>2, <2>3 DEF IsRecursion
<1>3. PICK f \in [D -> W] : \A s \in D : f[s] = Value(f, s, measure, base, step, previous)
  <2> HIDE DEF measure, previous, base, step, D, W
  <2> QED
    BY <1>2, RecursionExists
<1>4. ASSUME NEW s \in D
      PROVE  f[s] = IF s \in Stop THEN <<>> ELSE <<first[s]>> \o f[rest[s]]
  <2>1. CASE s \in Stop
    BY <1>3, <2>1 DEF Value
  <2>2. CASE s \notin Stop
    <3>1. measure[s] # 0 /\ previous[s] = rest[s] /\ rest[s] \in D
      <4>1. Len(rest[s]) \in Nat /\ Len(s) \in Nat /\ Len(rest[s]) < Len(s)
        BY <2>2
      <4> QED
        BY <2>2, <4>1
    <3>2. f[s] = step[<<s, f[rest[s]]>>]
      BY <1>3, <3>1 DEF Value
    <3>3. f[rest[s]] \in W
      BY <3>1
    <3> QED
      BY <2>2, <3>2, <3>3
  <2> QED
    BY <2>1, <2>2
<1>5. f = Parser(f, Stop, first, rest)
  BY <1>4 DEF Parser
<1> DEFINE g == TheParser(Stop, first, rest)
<1>6. g = Parser(g, Stop, first, rest)
  BY <1>5 DEF TheParser
<1> HIDE DEF g
<1> DEFINE I == {n \in Nat : \A s \in Seq(Char) : Len(s) <= n => g[s] = f[s]}
<1>7. ASSUME NEW s \in Seq(Char), s \notin Stop => g[rest[s]] = f[rest[s]]
      PROVE  g[s] = f[s]
  <2>1. g[s] = IF s \in Stop THEN <<>> ELSE <<first[s]>> \o g[rest[s]]
    BY <1>6 DEF Parser
  <2> QED
    BY <1>4, <1>7, <2>1
<1>8. 0 \in I
  <2>1. ASSUME NEW s \in Seq(Char), Len(s) <= 0
        PROVE  s \in Stop
    BY <2>1
  <2> QED
    BY <1>7, <2>1
<1>9. ASSUME NEW n \in Nat, n \in I
      PROVE  n + 1 \in I
  <2>1. ASSUME NEW s \in Seq(Char), Len(s) <= n + 1
        PROVE  g[s] = f[s]
    <3>1. ASSUME s \notin Stop
          PROVE  g[rest[s]] = f[rest[s]]
      <4>1. Len(s) \in Nat /\ Len(rest[s]) \in Nat /\ Len(rest[s]) < Len(s)
            /\ rest[s] \in Seq(Char)
        BY <3>1
      <4>2. Len(rest[s]) <= n
        BY <2>1, <4>1
      <4> QED
        BY <1>9, <4>1, <4>2
    <3> QED
      BY <1>7, <3>1
  <2> QED
    BY <2>1
<1>10. ASSUME NEW s \in Seq(Char)
       PROVE  g[s] = f[s]
  <2>1. Nat \subseteq I
    <3> HIDE DEF I
    <3> QED
      BY <1>8, <1>9, SetInduction
  <2>2. Len(s) \in Nat
    OBVIOUS
  <2> QED
    BY <2>1, <2>2
<1>11. g = [s \in Seq(Char) |-> g[s]]
  BY <1>6 DEF Parser
<1>12. g = f
  BY <1>10, <1>11
<1> QED
  BY <1>6, <1>12 DEF g

-----------------------------------------------------------------------------
(* Reading a configuration file. *)

USE DEF LF, CR

LEMMA Bounds ==
    /\ MaxRead \in Nat /\ MaxRead >= 2 /\ MaxRead + 1 = BufferSize
    /\ LF \in Char /\ CR \in Char
BY ConfigAssumption DEF MaxRead, Char

\* What is read ends at the first line feed, at the end of the text or of the buffer.
LEMMA ReadEndFacts ==
    ASSUME NEW text \in Seq(Char), text # <<>>
    PROVE  /\ ReadEnd(text) \in 1..(Len(text) + 1) /\ ReadEnd(text) <= MaxRead + 1
           /\ \A j \in 1..(ReadEnd(text) - 1) : text[j] # LF
           /\ \/ ReadEnd(text) = Len(text) + 1
              \/ ReadEnd(text) = MaxRead + 1
              \/ text[ReadEnd(text)] = LF
<1> DEFINE limit == Min({Len(text), MaxRead}) + 1
           Ends(i) == /\ i = limit \/ text[i] = LF
                      /\ \A j \in 1..i - 1 : text[j] # LF
<1>1. Len(text) \in Nat /\ Len(text) >= 1 /\ MaxRead \in Nat /\ MaxRead >= 2
  BY Bounds
<1>2. limit = IF Len(text) <= MaxRead THEN Len(text) + 1 ELSE MaxRead + 1
  <2>1. CASE Len(text) <= MaxRead
    <3>1. Min({Len(text), MaxRead}) = Len(text)
      BY <1>1, <2>1, MinOfTwo
    <3> QED
      BY <2>1, <3>1
  <2>2. CASE ~(Len(text) <= MaxRead)
    <3>1. Min({Len(text), MaxRead}) = MaxRead
      BY <1>1, <2>2, MinOfTwo
    <3> QED
      BY <2>2, <3>1
  <2> QED
    BY <2>1, <2>2
<1> HIDE DEF limit
<1>3. \E i \in 1..limit : Ends(i)
  <2> DEFINE S == {i \in 1..limit : i = limit \/ text[i] = LF}
  <2>1. S \in SUBSET Nat /\ limit \in S
    BY <1>1, <1>2
  <2>2. PICK i \in S : \A m \in S : i <= m
    <3> HIDE DEF S
    <3> QED
      BY <2>1, LeastExists
  <2>3. ASSUME NEW j \in 1..i - 1
        PROVE  text[j] # LF
    <3>1. j \in 1..limit /\ j < i
      BY <1>1, <1>2
    <3> QED
      BY <1>1, <2>2, <3>1
  <2> QED
    BY <2>2, <2>3
<1>4. ReadEnd(text) = CHOOSE i \in 1..limit : Ends(i)
  BY DEF ReadEnd, limit
<1>5. ReadEnd(text) \in 1..limit /\ Ends(ReadEnd(text))
  <2> HIDE DEF Ends
  <2> QED
    BY <1>3, <1>4
<1> QED
  BY <1>1, <1>2, <1>5

\* Strings that are read.
ReadString == {s \in Seq(Char) : IsLine(s) /\ Len(s) <= MaxRead}

LEMMA LineFacts ==
    ASSUME NEW text \in Seq(Char), text # <<>>
    PROVE  /\ Line(text) \in ReadString
           /\ Rest(text) \in Seq(Char) /\ Len(Rest(text)) < Len(text)
<1> DEFINE end == ReadEnd(text)
           read == SubSeq(text, 1, end - 1)
<1>1. /\ end \in 1..(Len(text) + 1) /\ end <= MaxRead + 1
      /\ \A j \in 1..(end - 1) : text[j] # LF
  BY ReadEndFacts
<1>2. Len(text) \in Nat /\ Len(text) >= 1 /\ MaxRead \in Nat /\ MaxRead >= 2
      /\ \A j \in 1..Len(text) : text[j] \in Char
  BY Bounds
<1> HIDE DEF end
<1>3. /\ read \in Seq(Char) /\ Len(read) = end - 1
      /\ \A i \in 1..(end - 1) : read[i] = text[i]
  <2>1. end - 1 \in 0..Len(text)
    BY <1>1, <1>2
  <2> QED
    BY <2>1, PrefixFacts
<1>4. read \in ReadString
  <2> HIDE DEF read
  <2>1. \A i \in 1..Len(read) : read[i] # LF
    BY <1>1, <1>2, <1>3
  <2>2. Len(read) <= MaxRead
    BY <1>1, <1>2, <1>3
  <2> QED
    BY <1>3, <2>1, <2>2 DEF ReadString, IsLine
<1>5. ASSUME read # <<>>
      PROVE  Front(read) \in ReadString
  <2> HIDE DEF read
  <2>1. Len(read) \in Nat /\ Len(read) - 1 \in 0..Len(read) /\ Len(read) = end - 1
    BY <1>1, <1>2, <1>3, <1>5
  <2>2. /\ Front(read) \in Seq(Char) /\ Len(Front(read)) = Len(read) - 1
        /\ \A i \in 1..(Len(read) - 1) : Front(read)[i] = read[i]
    BY <1>3, <2>1, PrefixFacts DEF Front
  <2> DEFINE front == Front(read)
  <2>3. /\ front \in Seq(Char) /\ Len(front) = Len(read) - 1
        /\ \A i \in 1..(Len(read) - 1) : front[i] = read[i]
    BY <2>2
  <2> HIDE DEF front
  <2>4. \A i \in 1..Len(read) : read[i] # LF
    BY <1>4 DEF ReadString, IsLine
  <2>5. \A i \in 1..Len(front) : front[i] # LF
    BY <2>1, <2>3, <2>4
  <2>6. Len(front) <= MaxRead
    BY <1>1, <1>2, <2>1, <2>3
  <2>7. front \in ReadString
    BY <2>3, <2>5, <2>6 DEF ReadString, IsLine
  <2> QED
    BY <2>7 DEF front
<1>6. Line(text) \in ReadString
  BY <1>4, <1>5 DEF Line, end
<1>7. Rest(text) \in Seq(Char) /\ Len(Rest(text)) < Len(text)
  <2> DEFINE from == end + (IF end <= MaxRead THEN 1 ELSE 0)
  <2>1. from \in Nat /\ from >= 2
    BY <1>1, <1>2
  <2>2. Rest(text) = SubSeq(text, from, Len(text))
    BY DEF Rest, end
  <2> HIDE DEF from
  <2>3. \A i \in from..Len(text) : text[i] \in Char
    BY <1>2, <2>1
  <2>4. /\ SubSeq(text, from, Len(text)) \in Seq(Char)
        /\ Len(SubSeq(text, from, Len(text)))
             = IF from <= Len(text) THEN Len(text) - from + 1 ELSE 0
    <3>1. from \in Int /\ Len(text) \in Int
      BY <1>2, <2>1
    <3> QED
      BY <2>3, <3>1, SubSeqProperties
  <2> QED
    BY <1>2, <2>1, <2>2, <2>4
<1> QED
  BY <1>6, <1>7

\* All strings of a file are read through the buffer.
LEMMA LinesFacts ==
    /\ Lines \in [Seq(Char) -> Seq(ReadString)]
    /\ Lines[<<>>] = <<>>
    /\ \A text \in Seq(Char) :
          text # <<>> => Lines[text] = <<Line(text)>> \o Lines[Rest(text)]
<1> DEFINE Stop == {<<>>}
           first == [text \in Seq(Char) |-> Line(text)]
           rest == [text \in Seq(Char) |-> Rest(text)]
           Read(f) == [text \in Seq(Char) |->
                          IF text = <<>> THEN <<>> ELSE <<Line(text)>> \o f[Rest(text)]]
           lines == CHOOSE f : f = Read(f)
<1>1. Reads(ReadString, Stop, first, rest)
  BY LineFacts DEF Reads
<1>2. \A f : Parser(f, Stop, first, rest) = Read(f)
  BY DEF Parser
<1> DEFINE parser == TheParser(Stop, first, rest)
<1>3. parser \in [Seq(Char) -> Seq(ReadString)] /\ parser = Parser(parser, Stop, first, rest)
  <2> HIDE DEF Stop, first, rest
  <2> QED
    BY <1>1, ParserFacts
<1>4. lines \in [Seq(Char) -> Seq(ReadString)] /\ lines = Read(lines)
  <2> HIDE DEF Stop, first, rest, Read
  <2>1. lines = parser
    BY <1>2 DEF TheParser
  <2> QED
    BY <1>2, <1>3, <2>1
<1>5. Lines = lines
  BY DEF Lines
<1> HIDE DEF lines
<1>6. <<>> \in Seq(Char)
  OBVIOUS
<1>7. lines[<<>>] = <<>> /\ \A text \in Seq(Char) :
          text # <<>> => lines[text] = <<Line(text)>> \o lines[Rest(text)]
  BY <1>4, <1>6
<1> QED
  BY <1>4, <1>5, <1>7

\* A string that can be written and read.
Writable(s) == IsLine(s) /\ Fits(s)

LEMMA WritableFacts ==
    ASSUME NEW s, Writable(s)
    PROVE  /\ s \in Seq(Char) /\ s \in ReadString /\ Len(s) \in Nat /\ Len(s) + 2 <= MaxRead
           /\ \A i \in 1..Len(s) : s[i] # LF
<1>1. s \in Seq(Char) /\ Len(s) \in Nat /\ Len(s) + 3 <= BufferSize
      /\ \A i \in 1..Len(s) : s[i] # LF
  BY DEF Writable, IsLine, Fits
<1>2. Len(s) + 2 <= MaxRead
  BY <1>1, Bounds
<1>3. Len(s) <= MaxRead
  BY <1>1, <1>2, Bounds
<1> QED
  BY <1>1, <1>2, <1>3 DEF ReadString, IsLine

LEMMA PrintLineFacts ==
    ASSUME NEW s \in Seq(Char)
    PROVE  /\ PrintLine(s) \in Seq(Char) /\ Len(PrintLine(s)) = Len(s) + 2
           /\ \A i \in 1..Len(s) : PrintLine(s)[i] = s[i]
           /\ PrintLine(s)[Len(s) + 1] = CR /\ PrintLine(s)[Len(s) + 2] = LF
<1> DEFINE end == <<CR, LF>>
<1>1. end \in Seq(Char) /\ Len(end) = 2 /\ end[1] = CR /\ end[2] = LF
  BY Bounds
<1>2. PrintLine(s) = s \o end
  BY DEF PrintLine
<1> HIDE DEF end
<1>3. /\ s \o end \in Seq(Char) /\ Len(s \o end) = Len(s) + Len(end)
      /\ \A i \in 1..(Len(s) + Len(end)) :
             (s \o end)[i] = IF i <= Len(s) THEN s[i] ELSE end[i - Len(s)]
  <2>1. end \in Seq(Char)
    BY <1>1
  <2> QED
    BY <2>1, ConcatProperties
<1>4. Len(s) \in Nat
  OBVIOUS
<1> DEFINE line == s \o end
<1>5. /\ line \in Seq(Char) /\ Len(line) = Len(s) + 2
      /\ \A i \in 1..(Len(s) + 2) : line[i] = IF i <= Len(s) THEN s[i] ELSE end[i - Len(s)]
  BY <1>1, <1>3
<1> HIDE DEF line
<1>6. line[Len(s) + 1] = CR /\ line[Len(s) + 2] = LF
  BY <1>1, <1>4, <1>5
<1>7. \A i \in 1..Len(s) : line[i] = s[i]
  BY <1>4, <1>5
<1> QED
  BY <1>2, <1>5, <1>6, <1>7 DEF line

\* A line that fits is read as it was written, and leaves the text behind it.
LEMMA LineRead ==
    ASSUME NEW s, Writable(s), NEW t \in Seq(Char)
    PROVE  LET text == PrintLine(s) \o t
           IN  /\ text \in Seq(Char) /\ text # <<>>
               /\ Line(text) = s /\ Rest(text) = t
<1> DEFINE line == PrintLine(s)
           text == line \o t
           end == ReadEnd(text)
           n == Len(s)
<1>1. /\ s \in Seq(Char) /\ n \in Nat /\ n + 2 <= MaxRead /\ MaxRead \in Nat
      /\ \A i \in 1..n : s[i] # LF /\ s[i] \in Char
  BY WritableFacts, Bounds
<1>2. /\ line \in Seq(Char) /\ Len(line) = n + 2
      /\ \A i \in 1..n : line[i] = s[i]
      /\ line[n + 1] = CR /\ line[n + 2] = LF
  BY <1>1, PrintLineFacts
<1> HIDE DEF line
<1>3. /\ text \in Seq(Char) /\ Len(text) = Len(line) + Len(t)
      /\ \A i \in 1..(Len(line) + Len(t)) :
             text[i] = IF i <= Len(line) THEN line[i] ELSE t[i - Len(line)]
  <2>1. line \in Seq(Char)
    BY <1>2
  <2> QED
    BY <2>1, ConcatProperties
<1> HIDE DEF text
<1>4. Len(t) \in Nat /\ Len(text) = n + 2 + Len(t)
  BY <1>2, <1>3
<1>5. /\ \A i \in 1..n : text[i] = s[i] /\ text[i] # LF
      /\ text[n + 1] = CR /\ text[n + 1] # LF /\ text[n + 2] = LF
  BY <1>1, <1>2, <1>3, <1>4
<1>6. \A i \in 1..Len(t) : text[n + 2 + i] = t[i]
  <2> SUFFICES ASSUME NEW i \in 1..Len(t)
               PROVE  text[n + 2 + i] = t[i]
    OBVIOUS
  <2>1. n + 2 + i \in 1..(Len(line) + Len(t)) /\ ~(n + 2 + i <= Len(line))
        /\ (n + 2 + i) - Len(line) = i
    BY <1>1, <1>2, <1>4
  <2> QED
    BY <1>3, <2>1
<1>7. text # <<>>
  BY <1>1, <1>4
<1>8. end = n + 2
  <2>1. /\ end \in 1..(Len(text) + 1) /\ end <= MaxRead + 1
        /\ \A j \in 1..(end - 1) : text[j] # LF
        /\ end = Len(text) + 1 \/ end = MaxRead + 1 \/ text[end] = LF
    BY <1>3, <1>7, ReadEndFacts
  <2> HIDE DEF end
  <2>2. end <= n + 2
    <3>1. end \in Nat /\ (n + 2 \in 1..(end - 1) \/ end <= n + 2)
      BY <1>1, <1>4, <2>1
    <3> QED
      BY <1>5, <2>1, <3>1
  <2>3. text[end] = LF
    BY <1>1, <1>4, <2>1, <2>2
  <2>4. end \in 1..n \/ end = n + 1 \/ end = n + 2
    BY <1>1, <1>4, <2>1, <2>2
  <2> QED
    BY <1>5, <2>3, <2>4
<1>9. Line(text) = s
  <2> DEFINE read == SubSeq(text, 1, n + 1)
  <2>1. read \in Seq(Char) /\ Len(read) = n + 1 /\ \A i \in 1..(n + 1) : read[i] = text[i]
    <3>1. n + 1 \in 0..Len(text)
      BY <1>1, <1>4
    <3> QED
      BY <1>3, <3>1, PrefixFacts
  <2>2. Line(text) = IF read # <<>> /\ Last(read) = CR THEN Front(read) ELSE read
    <3>1. end - 1 = n + 1
      BY <1>1, <1>8
    <3> QED
      BY <3>1 DEF Line
  <2> HIDE DEF read
  <2>3. read # <<>> /\ Last(read) = CR
    <3>1. n + 1 \in 1..(n + 1)
      BY <1>1
    <3> QED
      BY <1>1, <1>5, <2>1, <3>1 DEF Last
  <2> DEFINE front == SubSeq(read, 1, n)
  <2>4. front \in Seq(Char) /\ Len(front) = n /\ \A i \in 1..n : front[i] = read[i]
    <3>1. n \in 0..Len(read)
      BY <1>1, <2>1
    <3> QED
      BY <2>1, <3>1, PrefixFacts
  <2>5. Front(read) = front
    <3>1. Len(read) - 1 = n
      BY <1>1, <2>1
    <3> QED
      BY <3>1 DEF Front
  <2> HIDE DEF front
  <2>6. front = s
    <3>1. \A i \in 1..n : front[i] = s[i]
      BY <1>1, <1>5, <2>1, <2>4
    <3> QED
      BY <1>1, <2>4, <3>1, SeqEqual
  <2> QED
    BY <2>2, <2>3, <2>5, <2>6
<1>10. Rest(text) = t
  <2> DEFINE rest == SubSeq(text, n + 3, Len(text))
  <2>1. Rest(text) = rest
    <3>1. end <= MaxRead /\ end + 1 = n + 3
      BY <1>1, <1>8
    <3> QED
      BY <3>1 DEF Rest
  <2>2. \A i \in (n + 3)..Len(text) : text[i] \in Char
    BY <1>1, <1>3
  <2>3. /\ rest \in Seq(Char)
        /\ Len(rest) = IF n + 3 <= Len(text) THEN Len(text) - (n + 3) + 1 ELSE 0
        /\ \A i \in 1..(Len(text) - (n + 3) + 1) : rest[i] = text[(n + 3) + i - 1]
    <3>1. n + 3 \in Int /\ Len(text) \in Int
      BY <1>1, <1>4
    <3> QED
      BY <2>2, <3>1, SubSeqProperties
  <2> HIDE DEF rest
  <2>4. Len(rest) = Len(t)
    BY <1>1, <1>4, <2>3
  <2>5. \A i \in 1..Len(t) : rest[i] = t[i]
    <3> SUFFICES ASSUME NEW i \in 1..Len(t)
                 PROVE  rest[i] = t[i]
      OBVIOUS
    <3>1. i \in 1..(Len(text) - (n + 3) + 1) /\ (n + 3) + i - 1 = n + 2 + i
      BY <1>1, <1>4
    <3> QED
      BY <1>6, <2>3, <3>1
  <2> QED
    BY <2>1, <2>3, <2>4, <2>5, SeqEqual
<1> QED
  BY <1>3, <1>7, <1>9, <1>10 DEF text, line

LEMMA LineParsed ==
    ASSUME NEW s, Writable(s)
    PROVE  Parses(Lines, Char, PrintLine(s), <<s>>)
<1> SUFFICES ASSUME NEW t \in Seq(Char)
             PROVE  Lines[PrintLine(s) \o t] = <<s>> \o Lines[t]
  BY DEF Parses
<1> DEFINE text == PrintLine(s) \o t
<1>1. text \in Seq(Char) /\ text # <<>> /\ Line(text) = s /\ Rest(text) = t
  BY LineRead
<1> HIDE DEF text
<1>2. Lines[text] = <<s>> \o Lines[t]
  BY <1>1, LinesFacts
<1> QED
  BY <1>2 DEF text

LEMMA EntryParsed ==
    ASSUME NEW name, NEW value, Writable(name), Writable(value)
    PROVE  /\ PrintEntry(name, value) \in Seq(Char)
           /\ <<name, value>> \in Seq(ReadString)
           /\ Parses(Lines, Char, PrintEntry(name, value), <<name, value>>)
<1> DEFINE x == PrintLine(name)
           y == PrintLine(value)
           u == <<name>>
           v == <<value>>
<1>1. name \in Seq(Char) /\ value \in Seq(Char) /\ name \in ReadString /\ value \in ReadString
  BY WritableFacts
<1>2. x \in Seq(Char) /\ y \in Seq(Char) /\ u \in Seq(ReadString) /\ v \in Seq(ReadString)
  BY <1>1, PrintLineFacts
<1>3. Parses(Lines, Char, x, u) /\ Parses(Lines, Char, y, v)
  BY LineParsed
<1>4. u \o v = <<name, value>> /\ <<name, value>> \in Seq(ReadString)
  BY <1>1, TwoElements
<1> HIDE DEF x, y, u, v
<1>5. Parses(Lines, Char, x \o y, u \o v)
  BY <1>2, <1>3, LinesFacts, ParsesTwo
<1>6. x \o y \in Seq(Char)
  BY <1>2
<1>7. PrintEntry(name, value) = x \o y
  BY DEF PrintEntry, x, y
<1> QED
  BY <1>4, <1>5, <1>6, <1>7

-----------------------------------------------------------------------------
(* The order of the names. *)

LEMMA Codes ==
    ASSUME NEW s \in Seq(Char)
    PROVE  Len(s) \in Nat /\ \A i \in 1..Len(s) : s[i] \in 1..255 /\ s[i] \in Int
<1>1. \A c \in Char : c \in 1..255 /\ c \in Int
  BY DEF Char
<1>2. Len(s) \in Nat /\ \A i \in 1..Len(s) : s[i] \in Char
  OBVIOUS
<1> QED
  BY <1>1, <1>2

LEMMA LessIrreflexive ==
    ASSUME NEW s \in Seq(Char)
    PROVE  ~ Less(s, s)
<1> SUFFICES ASSUME NEW n \in 0..Len(s), n < Len(s), s[n + 1] < s[n + 1]
             PROVE  FALSE
  BY DEF Less
<1>1. n + 1 \in 1..Len(s)
  OBVIOUS
<1>2. s[n + 1] \in Int
  BY <1>1, Codes
<1> QED
  BY <1>2

LEMMA LessTotal ==
    ASSUME NEW s \in Seq(Char), NEW t \in Seq(Char), s # t
    PROVE  Less(s, t) \/ Less(t, s)
<1>1. /\ Len(s) \in Nat /\ Len(t) \in Nat
      /\ \A i \in 1..Len(s) : s[i] \in Int
      /\ \A i \in 1..Len(t) : t[i] \in Int
  BY Codes
<1> DEFINE K == {k \in Nat : /\ k <= Len(s) /\ k <= Len(t)
                             /\ k = Len(s) \/ k = Len(t) \/ s[k + 1] # t[k + 1]}
<1>2. K # {}
  <2>1. Len(s) \in K \/ Len(t) \in K
    BY <1>1
  <2> QED
    BY <2>1
<1>3. PICK n \in K : \A m \in K : n <= m
  <2>1. K \in SUBSET Nat
    OBVIOUS
  <2> HIDE DEF K
  <2> QED
    BY <1>2, <2>1, LeastExists
<1>4. ASSUME NEW i \in 1..n
      PROVE  s[i] = t[i]
  <2>1. /\ i - 1 \in Nat /\ i - 1 < n /\ (i - 1) + 1 = i /\ n \in Nat
        /\ i - 1 < Len(s) /\ i - 1 < Len(t)
    BY <1>1
  <2>2. i - 1 \notin K
    <3> HIDE DEF K
    <3> QED
      BY <1>3, <2>1
  <2> QED
    BY <1>1, <2>1, <2>2
<1>5. CASE n = Len(s) /\ n = Len(t)
  <2>1. s = t
    BY <1>4, <1>5, SeqEqual
  <2> QED
    BY <2>1
<1>6. CASE n = Len(s) /\ n # Len(t)
  <2>1. n \in 0..Len(s) /\ n < Len(t)
    BY <1>1, <1>6
  <2> QED
    BY <1>4, <1>6, <2>1 DEF Less
<1>7. CASE n # Len(s) /\ n = Len(t)
  <2>1. n \in 0..Len(t) /\ n < Len(s)
    BY <1>1, <1>7
  <2> QED
    BY <1>4, <1>7, <2>1 DEF Less
<1>8. CASE n # Len(s) /\ n # Len(t)
  <2>1. n \in 0..Len(s) /\ n \in 0..Len(t) /\ n < Len(s) /\ n < Len(t)
    BY <1>1, <1>8
  <2>2. n + 1 \in 1..Len(s) /\ n + 1 \in 1..Len(t) /\ s[n + 1] # t[n + 1]
    BY <1>1, <1>8, <2>1
  <2>3. s[n + 1] < t[n + 1] \/ t[n + 1] < s[n + 1]
    BY <1>1, <2>2
  <2> QED
    BY <1>4, <2>1, <2>3 DEF Less
<1> QED
  BY <1>5, <1>6, <1>7, <1>8

LEMMA LessTransitive ==
    ASSUME NEW s \in Seq(Char), NEW t \in Seq(Char), NEW u \in Seq(Char),
           Less(s, t), Less(t, u)
    PROVE  Less(s, u)
<1>1. PICK n \in 0..Len(s) : /\ n < Len(t)
                             /\ \A i \in 1..n : s[i] = t[i]
                             /\ n = Len(s) \/ s[n + 1] < t[n + 1]
  BY DEF Less
<1>2. PICK m \in 0..Len(t) : /\ m < Len(u)
                             /\ \A i \in 1..m : t[i] = u[i]
                             /\ m = Len(t) \/ t[m + 1] < u[m + 1]
  BY DEF Less
<1>3. /\ Len(s) \in Nat /\ Len(t) \in Nat /\ Len(u) \in Nat
      /\ \A i \in 1..Len(s) : s[i] \in Int
      /\ \A i \in 1..Len(t) : t[i] \in Int
      /\ \A i \in 1..Len(u) : u[i] \in Int
  BY Codes
<1>4. CASE n < m
  <2>1. n \in 0..Len(s) /\ n < Len(u) /\ n + 1 \in 1..m
    BY <1>1, <1>2, <1>3, <1>4
  <2>2. \A i \in 1..n : s[i] = u[i]
    BY <1>1, <1>2, <1>3, <1>4
  <2>3. n = Len(s) \/ s[n + 1] < u[n + 1]
    BY <1>1, <1>2, <2>1
  <2> QED
    BY <2>1, <2>2, <2>3 DEF Less
<1>5. CASE m < n
  <2>1. m \in 0..Len(s) /\ m < Len(u) /\ m + 1 \in 1..n /\ m # Len(t)
    BY <1>1, <1>2, <1>3, <1>5
  <2>2. \A i \in 1..m : s[i] = u[i]
    BY <1>1, <1>2, <1>3, <1>5
  <2>3. s[m + 1] < u[m + 1]
    BY <1>1, <1>2, <2>1
  <2> QED
    BY <2>1, <2>2, <2>3 DEF Less
<1>6. CASE m = n
  <2>1. n \in 0..Len(s) /\ n < Len(u) /\ m # Len(t) /\ t[n + 1] < u[n + 1]
    BY <1>1, <1>2, <1>3, <1>6
  <2>2. \A i \in 1..n : s[i] = u[i]
    BY <1>1, <1>2, <1>6
  <2>3. n = Len(s) \/ s[n + 1] < u[n + 1]
    <3>1. CASE n # Len(s)
      <4>1. n + 1 \in 1..Len(s) /\ n + 1 \in 1..Len(t) /\ n + 1 \in 1..Len(u)
        BY <1>1, <1>3, <2>1, <3>1
      <4>2. s[n + 1] \in Int /\ t[n + 1] \in Int /\ u[n + 1] \in Int /\ s[n + 1] < t[n + 1]
        BY <1>1, <1>3, <3>1, <4>1
      <4> QED
        BY <2>1, <4>2
    <3> QED
      BY <3>1
  <2> QED
    BY <2>1, <2>2, <2>3 DEF Less
<1> QED
  BY <1>1, <1>2, <1>4, <1>5, <1>6

\* order lists S in the order of Less.
Sorts(order, S) ==
    /\ ToSet(order) = S
    /\ \A i, j \in DOMAIN order : i < j => Less(order[i], order[j])

LEMMA SortedAppend ==
    ASSUME NEW S \in SUBSET Seq(Char), NEW n \in Nat, NEW order \in [1..n -> S],
           Sorts(order, S), NEW x \in Seq(Char), \A s \in S : Less(s, x)
    PROVE  \E new \in [1..(n + 1) -> S \cup {x}] : Sorts(new, S \cup {x})
<1> DEFINE new == [i \in 1..(n + 1) |-> IF i <= n THEN order[i] ELSE x]
<1>1. new \in [1..(n + 1) -> S \cup {x}]
  OBVIOUS
<1>2. ASSUME NEW i \in 1..(n + 1)
      PROVE  (i \in 1..n /\ new[i] = order[i]) \/ (i = n + 1 /\ new[i] = x)
  <2>1. CASE i <= n
    BY <2>1
  <2>2. CASE ~(i <= n)
    BY <2>2
  <2> QED
    BY <2>1, <2>2
<1>3. new[n + 1] = x /\ \A i \in 1..n : i \in 1..(n + 1) /\ new[i] = order[i]
  OBVIOUS
<1> HIDE DEF new
<1>4. ToSet(new) = S \cup {x}
  <2>1. S = {order[i] : i \in 1..n}
    BY DEF Sorts, ToSet
  <2>2. ToSet(new) = {new[i] : i \in 1..(n + 1)}
    BY <1>1 DEF ToSet
  <2> QED
    BY <1>2, <1>3, <2>1, <2>2
<1>5. ASSUME NEW i \in 1..(n + 1), NEW j \in 1..(n + 1), i < j
      PROVE  Less(new[i], new[j])
  <2>1. i \in 1..n
    BY <1>5
  <2>2. CASE j \in 1..n
    BY <1>3, <1>5, <2>1, <2>2 DEF Sorts
  <2>3. CASE j = n + 1
    <3>1. order[i] \in S /\ new[i] = order[i] /\ new[j] = x
      BY <1>3, <2>1, <2>3
    <3> QED
      BY <3>1
  <2> QED
    BY <2>2, <2>3
<1> QED
  BY <1>1, <1>4, <1>5 DEF Sorts

LEMMA OrderExists ==
    ASSUME NEW S \in SUBSET Seq(Char), IsFiniteSet(S)
    PROVE  \E order \in [1..Cardinality(S) -> S] : Sorts(order, S)
<1> DEFINE Sortable(T, n) == \E order \in [1..n -> T] : Sorts(order, T)
           Sets(n) == {T \in SUBSET Seq(Char) : IsFiniteSet(T) /\ Cardinality(T) = n}
           I == {n \in Nat : \A T \in Sets(n) : Sortable(T, n)}
<1>1. 0 \in I
  <2> SUFFICES ASSUME NEW T \in Sets(0)
               PROVE  Sortable(T, 0)
    OBVIOUS
  <2>1. T = {}
    BY FS_EmptySet
  <2> DEFINE order == [i \in 1..0 |-> <<>>]
  <2>2. order \in [1..0 -> T] /\ Sorts(order, T)
    BY <2>1 DEF Sorts, ToSet
  <2> QED
    BY <2>2
<1>2. ASSUME NEW n \in Nat, n \in I
      PROVE  n + 1 \in I
  <2> SUFFICES ASSUME NEW T \in Sets(n + 1)
               PROVE  Sortable(T, n + 1)
    OBVIOUS
  <2>1. T \in SUBSET Seq(Char) /\ IsFiniteSet(T) /\ Cardinality(T) = n + 1
    OBVIOUS
  <2>2. ASSUME NEW x \in T
        PROVE  Sortable(T \ {x}, n)
    <3>1. IsFiniteSet(T \ {x}) /\ Cardinality(T \ {x}) = n
      <4>1. (n + 1) - 1 = n
        OBVIOUS
      <4>2. IsFiniteSet(T \ {x}) /\ Cardinality(T \ {x}) = Cardinality(T) - 1
        BY <2>1, FS_RemoveElement
      <4> QED
        BY <2>1, <4>1, <4>2
    <3> QED
      BY <1>2, <2>1, <3>1
  <2>3. \E max \in T : \A s \in T \ {max} : Less(s, max)
    <3>1. PICK x \in T : TRUE
      BY <2>1, FS_EmptySet
    <3>2. PICK order \in [1..n -> T \ {x}] : Sorts(order, T \ {x})
      BY <2>2
    <3>3. T \ {x} = {order[i] : i \in 1..n}
      BY <3>2 DEF Sorts, ToSet
    <3>4. CASE n = 0
      BY <3>3, <3>4
    <3>5. CASE n # 0
      <4> DEFINE m == order[n]
      <4>1. n \in 1..n /\ m \in T \ {x}
        BY <3>5
      <4>2. \A s \in T \ {x} : s = m \/ Less(s, m)
        <5> SUFFICES ASSUME NEW i \in 1..n
                     PROVE  order[i] = m \/ Less(order[i], m)
          BY <3>3
        <5>1. i = n \/ i < n
          OBVIOUS
        <5>2. DOMAIN order = 1..n
          OBVIOUS
        <5> QED
          BY <3>2, <4>1, <5>1, <5>2 DEF Sorts
      <4>3. x \in Seq(Char) /\ m \in Seq(Char) /\ x # m
        BY <2>1, <4>1
      <4> HIDE DEF m
      <4>4. CASE Less(x, m)
        <5>1. \A s \in T \ {m} : Less(s, m)
          BY <4>2, <4>4
        <5> QED
          BY <4>1, <5>1
      <4>5. CASE Less(m, x)
        <5>1. ASSUME NEW s \in T \ {x}
              PROVE  Less(s, x)
          <6>1. s \in Seq(Char) /\ (s = m \/ Less(s, m))
            BY <2>1, <4>2
          <6> QED
            BY <4>3, <4>5, <6>1, LessTransitive
        <5> QED
          BY <5>1
      <4> QED
        BY <4>3, <4>4, <4>5, LessTotal
    <3> QED
      BY <3>4, <3>5
  <2>4. PICK max \in T : \A s \in T \ {max} : Less(s, max)
    BY <2>3
  <2> DEFINE R == T \ {max}
  <2>5. PICK order \in [1..n -> R] : Sorts(order, R)
    BY <2>2
  <2>6. R \in SUBSET Seq(Char) /\ max \in Seq(Char) /\ R \cup {max} = T
    BY <2>1
  <2> HIDE DEF R
  <2>7. \E new \in [1..(n + 1) -> R \cup {max}] : Sorts(new, R \cup {max})
    <3>1. \A s \in R : Less(s, max)
      BY <2>4 DEF R
    <3> QED
      BY <2>5, <2>6, <3>1, SortedAppend
  <2> QED
    BY <2>6, <2>7
<1>3. Nat \subseteq I
  <2> HIDE DEF I
  <2> QED
    BY <1>1, <1>2, SetInduction
<1>4. Cardinality(S) \in Nat
  BY FS_CardinalityType
<1> QED
  BY <1>3, <1>4

\* All of a finite set of names, each of them once.
LEMMA OrderedFacts ==
    ASSUME NEW S \in SUBSET Seq(Char), IsFiniteSet(S)
    PROVE  /\ Ordered(S) \in Seq(S) /\ ToSet(Ordered(S)) = S
           /\ \A i, j \in DOMAIN Ordered(S) : Ordered(S)[i] = Ordered(S)[j] => i = j
<1> DEFINE n == Cardinality(S)
           order == Ordered(S)
<1>1. order \in [1..n -> S] /\ Sorts(order, S)
  BY OrderExists DEF Ordered, Sorts
<1>2. n \in Nat
  BY FS_CardinalityType
<1> HIDE DEF order, n
<1>3. order \in Seq(S)
  BY <1>1, <1>2
<1>4. ASSUME NEW i \in DOMAIN order, NEW j \in DOMAIN order, order[i] = order[j]
      PROVE  i = j
  <2>1. i \in 1..n /\ j \in 1..n /\ order[i] \in Seq(Char)
    BY <1>1
  <2>2. ~ Less(order[i], order[i])
    BY <2>1, LessIrreflexive
  <2>3. ~(i < j) /\ ~(j < i)
    BY <1>1, <1>4, <2>2, Zenon DEF Sorts
  <2> QED
    BY <1>2, <2>1, <2>3
<1>5. ToSet(order) = S
  BY <1>1 DEF Sorts
<1> QED
  BY <1>3, <1>4, <1>5 DEF order

-----------------------------------------------------------------------------
(* Loading and saving. *)

LEMMA GreatestExists ==
    ASSUME NEW n \in Nat, NEW S \in SUBSET 1..n, S # {}
    PROVE  Max(S) \in S /\ \A m \in S : m <= Max(S)
<1> DEFINE U == {b \in Nat : \A m \in S : m <= b}
<1>1. n \in U
  OBVIOUS
<1>2. PICK b \in U : \A c \in U : b <= c
  <2>1. U \in SUBSET Nat
    OBVIOUS
  <2> HIDE DEF U
  <2> QED
    BY <1>1, <2>1, LeastExists
<1>3. b \in S
  <2> SUFFICES ASSUME b \notin S
               PROVE  FALSE
    OBVIOUS
  <2>1. b \in Nat /\ \A m \in S : m \in Nat /\ m >= 1 /\ m < b
    OBVIOUS
  <2>2. b - 1 \in U
    <3>1. b # 0
      <4>1. PICK m \in S : TRUE
        OBVIOUS
      <4>2. m >= 1 /\ m < b /\ m \in Nat
        BY <2>1, <4>1
      <4> QED
        BY <4>2
    <3>2. b - 1 \in Nat /\ \A m \in S : m <= b - 1
      BY <2>1, <3>1
    <3> QED
      BY <3>2
  <2>3. b <= b - 1
    BY <1>2, <2>2
  <2> QED
    BY <2>1, <2>3
<1>4. S \in SUBSET Int /\ \A m \in S : m <= b
  OBVIOUS
<1>5. Max(S) = b
  BY <1>3, <1>4, MaxIs
<1> QED
  BY <1>3, <1>4, <1>5

\* What a ksConfig holds: finitely many names and values without line feeds.
IsConfig(map) ==
    /\ IsFiniteSet(DOMAIN map) /\ map = [name \in DOMAIN map |-> map[name]]
    /\ \A name \in DOMAIN map : IsLine(name) /\ IsLine(map[name])

LEMMA LoadFacts ==
    ASSUME NEW text \in Seq(Char)
    PROVE  /\ IsConfig(Load(text))
           /\ DOMAIN Load(text) \subseteq {Lines[text][i] : i \in DOMAIN Lines[text]}
<1> DEFINE line == Lines[text]
           n == Len(line) \div 2
           Name(i) == line[2 * i - 1]
           Found(name) == {i \in 1..n : Name(i) = name}
           names == {Name(i) : i \in 1..n}
<1>1. /\ line \in Seq(ReadString) /\ Len(line) \in Nat /\ n \in Nat /\ 2 * n <= Len(line)
      /\ \A i \in 1..Len(line) : line[i] \in ReadString
  <2>1. line \in Seq(ReadString)
    BY LinesFacts
  <2> HIDE DEF line
  <2> QED
    BY <2>1
<1>2. Load(text) = [name \in names |-> line[2 * Max(Found(name))]]
  BY DEF Load
<1> HIDE DEF line, n
<1>3. \A i \in 1..n : 2 * i - 1 \in 1..Len(line) /\ 2 * i \in 1..Len(line)
  BY <1>1
<1>4. DOMAIN line = 1..Len(line)
  BY <1>1
<1>5. IsFiniteSet(names)
  <2> DEFINE f == [i \in 1..n |-> Name(i)]
  <2>1. f \in Surjection(1..n, names)
    BY DEF Surjection
  <2>2. IsFiniteSet(1..n)
    BY <1>1, FS_Interval
  <2> HIDE DEF f, names
  <2> QED
    BY <2>1, <2>2, FS_Surjection
<1>6. \A name \in names : name \in ReadString
  BY <1>1, <1>3
<1>7. ASSUME NEW name \in names
      PROVE  line[2 * Max(Found(name))] \in ReadString
  <2>1. Found(name) \in SUBSET 1..n /\ Found(name) # {}
    OBVIOUS
  <2>2. Max(Found(name)) \in 1..n
    <3> HIDE DEF Found
    <3> QED
      BY <1>1, <2>1, GreatestExists
  <2> QED
    BY <1>1, <1>3, <2>2
<1>8. names \subseteq {line[i] : i \in DOMAIN line}
  BY <1>3, <1>4
<1> HIDE DEF names, Found
<1>9. DOMAIN Load(text) = names /\ Load(text) = [name \in names |-> Load(text)[name]]
      /\ \A name \in names : Load(text)[name] \in ReadString
  BY <1>2, <1>7
<1>10. \A s \in ReadString : IsLine(s)
  BY DEF ReadString
<1> QED
  BY <1>5, <1>6, <1>8, <1>9, <1>10 DEF IsConfig, line

LEMMA ConfigNames ==
    ASSUME NEW map, IsConfig(map)
    PROVE  /\ DOMAIN map \in SUBSET Seq(Char) /\ IsFiniteSet(DOMAIN map)
           /\ \A name \in DOMAIN map : name \in Seq(Char) /\ map[name] \in Seq(Char)
BY DEF IsConfig, IsLine

LEMMA TextType ==
    ASSUME NEW map, IsConfig(map)
    PROVE  Text(map) \in Seq(Char)
<1> DEFINE o == Ordered(DOMAIN map)
           p == [i \in DOMAIN o |-> PrintEntry(o[i], map[o[i]])]
<1>1. o \in Seq(DOMAIN map)
  BY ConfigNames, OrderedFacts
<1>2. Text(map) = FlattenSeq(p)
  BY DEF Text
<1> HIDE DEF o
<1>3. DOMAIN o = 1..Len(o) /\ Len(o) \in Nat /\ \A i \in 1..Len(o) : o[i] \in DOMAIN map
  BY <1>1
<1>4. ASSUME NEW i \in 1..Len(o)
      PROVE  PrintEntry(o[i], map[o[i]]) \in Seq(Char)
  <2> DEFINE x == PrintLine(o[i])
             y == PrintLine(map[o[i]])
  <2>1. x \in Seq(Char) /\ y \in Seq(Char)
    BY <1>3, ConfigNames, PrintLineFacts
  <2>2. PrintEntry(o[i], map[o[i]]) = x \o y
    BY DEF PrintEntry
  <2> HIDE DEF x, y
  <2>3. x \o y \in Seq(Char)
    BY <2>1
  <2> QED
    BY <2>2, <2>3
<1>5. p \in Seq(Seq(Char))
  BY <1>3, <1>4
<1> HIDE DEF p
<1> QED
  BY <1>2, <1>5, FlattenType

LEMMA HalfOfDouble == \A n \in Nat : (2 * n) \div 2 = n
OBVIOUS

LEMMA IsSeq ==
    ASSUME NEW S, NEW n \in Nat, NEW s, s \in [1..n -> S]
    PROVE  s \in Seq(S) /\ Len(s) = n
OBVIOUS

\* The lines of a file whose strings fit are its names and values.
LEMMA TextLines ==
    ASSUME NEW map, IsConfig(map),
           \A name \in DOMAIN map : Fits(name) /\ Fits(map[name])
    PROVE  LET o    == Ordered(DOMAIN map)
               line == Lines[Text(map)]
           IN  /\ line \in Seq(ReadString) /\ Len(line) = 2 * Len(o)
               /\ \A i \in 1..Len(o) : line[2 * i - 1] = o[i] /\ line[2 * i] = map[o[i]]
<1> DEFINE o == Ordered(DOMAIN map)
           v == [i \in DOMAIN o |-> map[o[i]]]
           p == [i \in DOMAIN o |-> PrintEntry(o[i], map[o[i]])]
           q == [i \in DOMAIN o |-> <<o[i], v[i]>>]
<1>1. o \in Seq(DOMAIN map)
  BY ConfigNames, OrderedFacts
<1>2. Text(map) = FlattenSeq(p)
  BY DEF Text
<1> HIDE DEF o
<1>3. DOMAIN o = 1..Len(o) /\ Len(o) \in Nat /\ \A i \in 1..Len(o) : o[i] \in DOMAIN map
  BY <1>1
<1>4. \A name \in DOMAIN map : Writable(name) /\ Writable(map[name])
  BY DEF IsConfig, Writable
<1>5. \A i \in 1..Len(o) : /\ Writable(o[i]) /\ Writable(map[o[i]])
                           /\ o[i] \in ReadString /\ map[o[i]] \in ReadString
  BY <1>3, <1>4, WritableFacts
<1>6. o \in Seq(ReadString) /\ v \in Seq(ReadString) /\ Len(v) = Len(o)
      /\ \A i \in 1..Len(o) : v[i] = map[o[i]]
  <2>1. o \in [1..Len(o) -> ReadString]
    BY <1>1, <1>3, <1>5
  <2>2. v \in [1..Len(o) -> ReadString]
    BY <1>3, <1>5
  <2>3. \A i \in 1..Len(o) : v[i] = map[o[i]]
    BY <1>3
  <2> HIDE DEF v
  <2> QED
    BY <1>3, <2>1, <2>2, <2>3, IsSeq
<1> HIDE DEF v
<1>7. ASSUME NEW i \in 1..Len(o)
      PROVE  /\ p[i] \in Seq(Char) /\ q[i] \in Seq(ReadString)
             /\ Parses(Lines, Char, p[i], q[i])
  <2>1. p[i] = PrintEntry(o[i], map[o[i]]) /\ q[i] = <<o[i], map[o[i]]>>
    BY <1>3, <1>6
  <2> QED
    BY <1>5, <2>1, EntryParsed
<1>8. p \in Seq(Seq(Char)) /\ q \in Seq(Seq(ReadString)) /\ Len(p) = Len(o) /\ Len(q) = Len(o)
  <2>1. p \in [1..Len(o) -> Seq(Char)] /\ q \in [1..Len(o) -> Seq(ReadString)]
    BY <1>3, <1>7
  <2> HIDE DEF p, q
  <2> QED
    BY <1>3, <2>1, IsSeq
<1> DEFINE all == FlattenSeq(q)
<1>9. /\ all \in Seq(ReadString) /\ Len(all) = 2 * Len(o)
      /\ \A i \in 1..Len(o) : all[2 * i - 1] = o[i] /\ all[2 * i] = v[i]
  BY <1>6, FlattenPairs
<1> HIDE DEF p, q
<1>10. Parses(Lines, Char, FlattenSeq(p), all)
  <2>1. \A i \in 1..Len(p) : Parses(Lines, Char, p[i], q[i])
    BY <1>7, <1>8
  <2> QED
    BY <1>8, <2>1, LinesFacts, ParsesAll
<1> HIDE DEF all
<1>11. Lines[Text(map)] = all
  <2>1. <<>> \in Seq(Char) /\ Text(map) \in Seq(Char)
    BY TextType
  <2>2. Lines[Text(map) \o <<>>] = all \o Lines[<<>>]
    BY <1>2, <1>10, <2>1 DEF Parses
  <2>3. Text(map) \o <<>> = Text(map) /\ all \o <<>> = all
    BY <1>9, <2>1, ConcatEmptySeq
  <2> QED
    BY <2>2, <2>3, LinesFacts
<1> QED
  BY <1>6, <1>9, <1>11 DEF o

\* A configuration that fits is loaded as it was saved.
LEMMA LoadOfText ==
    ASSUME NEW map, IsConfig(map),
           \A name \in DOMAIN map : Fits(name) /\ Fits(map[name])
    PROVE  Load(Text(map)) = map
<1> DEFINE o == Ordered(DOMAIN map)
           line == Lines[Text(map)]
           n == Len(o)
<1>1. /\ o \in Seq(DOMAIN map) /\ ToSet(o) = DOMAIN map
      /\ \A i, j \in DOMAIN o : o[i] = o[j] => i = j
  BY ConfigNames, OrderedFacts
<1>2. /\ line \in Seq(ReadString) /\ Len(line) = 2 * n
      /\ \A i \in 1..n : line[2 * i - 1] = o[i] /\ line[2 * i] = map[o[i]]
  BY TextLines
<1> DEFINE Pairs == 1..Len(line) \div 2
           Name(i) == line[2 * i - 1]
           Found(name) == {i \in Pairs : Name(i) = name}
           names == {Name(i) : i \in Pairs}
<1>3. Load(Text(map)) = [name \in names |-> line[2 * Max(Found(name))]]
  BY DEF Load
<1> HIDE DEF o, line
<1>4. n \in Nat /\ DOMAIN o = 1..n /\ \A i \in 1..n : o[i] \in DOMAIN map
  BY <1>1
<1>5. Pairs = 1..n
  <2>1. (2 * n) \div 2 = n
    BY <1>4, HalfOfDouble
  <2> QED
    BY <1>2, <2>1
<1> HIDE DEF Pairs
<1>6. names = DOMAIN map
  <2>1. names = {o[i] : i \in 1..n}
    BY <1>2, <1>5
  <2> QED
    BY <1>1, <1>4, <2>1 DEF ToSet
<1>7. ASSUME NEW name \in DOMAIN map
      PROVE  line[2 * Max(Found(name))] = map[name]
  <2>1. PICK k \in 1..n : o[k] = name
    BY <1>1, <1>4 DEF ToSet
  <2>2. Found(name) = {k}
    <3>1. \A i \in 1..n : o[i] = o[k] <=> i = k
      BY <1>1, <1>4
    <3>2. \A i \in 1..n : line[2 * i - 1] = o[i]
      BY <1>2
    <3> QED
      BY <1>5, <2>1, <3>1, <3>2
  <2>3. Max(Found(name)) = k
    <3>1. k \in Int
      BY <1>4
    <3>2. {k} \in SUBSET Int /\ k \in {k} /\ \A m \in {k} : m <= k
      BY <3>1
    <3>3. Max({k}) = k
      BY <3>2, MaxIs
    <3> QED
      BY <2>2, <3>3
  <2> HIDE DEF Found
  <2> QED
    BY <1>2, <2>1, <2>3
<1> HIDE DEF Found, names
<1>8. map = [name \in DOMAIN map |-> map[name]]
  BY DEF IsConfig
<1> QED
  BY <1>3, <1>6, <1>7, <1>8

-----------------------------------------------------------------------------
(* The message. *)

USE DEF Equals, Bar

\* A text is cut in two at the first c.
LEMMA Cut ==
    ASSUME NEW a \in Seq(Char), NEW c \in Char, \A i \in 1..Len(a) : a[i] # c,
           NEW t \in Seq(Char)
    PROVE  LET s == (a \o <<c>>) \o t
           IN  /\ s \in Seq(Char) /\ At(s, c) # {} /\ Min(At(s, c)) = Len(a) + 1
               /\ Before(s, c) = a /\ After(s, c) = t
<1> DEFINE b == a \o <<c>>
           s == b \o t
           n == Len(a)
<1>1. n \in Nat /\ Len(t) \in Nat
  OBVIOUS
<1>2. /\ b \in Seq(Char) /\ Len(b) = n + 1 /\ b[n + 1] = c
      /\ \A i \in 1..n : b[i] = a[i]
  <2> DEFINE u == <<c>>
  <2>1. u \in Seq(Char) /\ Len(u) = 1 /\ u[1] = c
    OBVIOUS
  <2> HIDE DEF u
  <2>2. /\ a \o u \in Seq(Char) /\ Len(a \o u) = Len(a) + Len(u)
        /\ \A i \in 1..(Len(a) + Len(u)) : (a \o u)[i] = IF i <= Len(a) THEN a[i] ELSE u[i - Len(a)]
    <3>1. u \in Seq(Char)
      BY <2>1
    <3> QED
      BY <3>1, ConcatProperties
  <2> DEFINE w == a \o u
  <2>3. /\ w \in Seq(Char) /\ Len(w) = n + 1
        /\ \A i \in 1..(n + 1) : w[i] = IF i <= n THEN a[i] ELSE u[i - n]
    BY <2>1, <2>2
  <2>4. b = w
    BY DEF u
  <2> HIDE DEF w, b
  <2>5. w[n + 1] = c
    BY <1>1, <2>1, <2>3
  <2>6. \A i \in 1..n : w[i] = a[i]
    BY <1>1, <2>3
  <2> QED
    BY <2>3, <2>4, <2>5, <2>6
<1> HIDE DEF b
<1>3. /\ s \in Seq(Char) /\ Len(s) = Len(b) + Len(t)
      /\ \A i \in 1..(Len(b) + Len(t)) :
             s[i] = IF i <= Len(b) THEN b[i] ELSE t[i - Len(b)]
  <2>1. b \in Seq(Char)
    BY <1>2
  <2> QED
    BY <2>1, ConcatProperties
<1> HIDE DEF s
<1>4. Len(s) = n + 1 + Len(t) /\ DOMAIN s = 1..Len(s)
  BY <1>1, <1>2, <1>3
<1>5. (\A i \in 1..n : s[i] = a[i] /\ s[i] # c) /\ s[n + 1] = c
  BY <1>1, <1>2, <1>3
<1>6. \A i \in 1..Len(t) : s[n + 1 + i] = t[i]
  <2> SUFFICES ASSUME NEW i \in 1..Len(t)
               PROVE  s[n + 1 + i] = t[i]
    OBVIOUS
  <2>1. n + 1 + i \in 1..(Len(b) + Len(t)) /\ ~(n + 1 + i <= Len(b))
        /\ (n + 1 + i) - Len(b) = i
    BY <1>1, <1>2
  <2> QED
    BY <1>3, <2>1
<1>7. At(s, c) # {} /\ Min(At(s, c)) = n + 1
  <2> DEFINE P == At(s, c)
  <2>1. P = {i \in 1..Len(s) : s[i] = c}
    BY <1>4 DEF At
  <2>2. n + 1 \in P
    BY <1>1, <1>4, <1>5, <2>1
  <2>3. ASSUME NEW m \in P
        PROVE  n + 1 <= m
    <3>1. m \in 1..Len(s) /\ m \notin 1..n
      BY <1>5, <2>1
    <3> QED
      BY <1>1, <1>4, <3>1
  <2>4. P \in SUBSET Int
    BY <1>1, <1>4, <2>1
  <2> HIDE DEF P
  <2>5. Min(P) = n + 1
    BY <2>2, <2>3, <2>4, MinIs
  <2> QED
    BY <2>2, <2>5 DEF P
<1>8. Before(s, c) = a
  <2> DEFINE before == SubSeq(s, 1, n)
  <2>1. (n + 1) - 1 = n
    BY <1>1
  <2>2. Before(s, c) = before
    BY <1>7, <2>1 DEF Before
  <2>3. before \in Seq(Char) /\ Len(before) = n /\ \A i \in 1..n : before[i] = s[i]
    <3>1. n \in 0..Len(s)
      BY <1>1, <1>4
    <3> QED
      BY <1>3, <3>1, PrefixFacts
  <2> HIDE DEF before
  <2>4. \A i \in 1..n : before[i] = a[i]
    BY <1>5, <2>3
  <2> QED
    BY <2>2, <2>3, <2>4, SeqEqual
<1>9. After(s, c) = t
  <2> DEFINE after == SubSeq(s, n + 2, Len(s))
  <2>1. (n + 1) + 1 = n + 2
    BY <1>1
  <2>2. After(s, c) = after
    BY <1>7, <2>1 DEF After
  <2>3. \A i \in (n + 2)..Len(s) : s[i] \in Char
    BY <1>1, <1>3
  <2>4. /\ after \in Seq(Char)
        /\ Len(after) = IF n + 2 <= Len(s) THEN Len(s) - (n + 2) + 1 ELSE 0
        /\ \A i \in 1..(Len(s) - (n + 2) + 1) : after[i] = s[(n + 2) + i - 1]
    <3>1. n + 2 \in Int /\ Len(s) \in Int
      BY <1>1, <1>4
    <3> QED
      BY <2>3, <3>1, SubSeqProperties
  <2> HIDE DEF after
  <2>5. Len(after) = Len(t)
    BY <1>1, <1>4, <2>4
  <2>6. \A i \in 1..Len(t) : after[i] = t[i]
    <3> SUFFICES ASSUME NEW i \in 1..Len(t)
                 PROVE  after[i] = t[i]
      OBVIOUS
    <3>1. i \in 1..(Len(s) - (n + 2) + 1) /\ (n + 2) + i - 1 = n + 1 + i
      BY <1>1, <1>4
    <3> QED
      BY <1>6, <2>4, <3>1
  <2> QED
    BY <2>2, <2>4, <2>5, <2>6, SeqEqual
<1> QED
  BY <1>3, <1>7, <1>8, <1>9 DEF s, b

LEMMA CutFacts ==
    ASSUME NEW s \in Seq(Char), NEW c, At(s, c) # {}
    PROVE  /\ Before(s, c) \in Seq(Char) /\ \A i \in 1..Len(Before(s, c)) : Before(s, c)[i] # c
           /\ After(s, c) \in Seq(Char) /\ Len(After(s, c)) < Len(s)
<1> DEFINE P == At(s, c)
           n == Min(P)
<1>1. Len(s) \in Nat /\ DOMAIN s = 1..Len(s) /\ \A i \in 1..Len(s) : s[i] \in Char
  OBVIOUS
<1>2. P = {i \in 1..Len(s) : s[i] = c} /\ P \in SUBSET Nat /\ P # {}
  BY <1>1 DEF At
<1>3. n \in P /\ \A m \in P : n <= m
  <2> HIDE DEF P
  <2> QED
    BY <1>2, MinExists
<1> HIDE DEF n
<1>4. n \in 1..Len(s) /\ \A i \in 1..(n - 1) : s[i] # c
  BY <1>1, <1>2, <1>3
<1>5. Before(s, c) = SubSeq(s, 1, n - 1) /\ After(s, c) = SubSeq(s, n + 1, Len(s))
  BY DEF Before, After, n
<1>6. /\ SubSeq(s, 1, n - 1) \in Seq(Char) /\ Len(SubSeq(s, 1, n - 1)) = n - 1
      /\ \A i \in 1..(n - 1) : SubSeq(s, 1, n - 1)[i] = s[i]
  <2>1. n - 1 \in 0..Len(s)
    BY <1>1, <1>4
  <2> QED
    BY <2>1, PrefixFacts
<1>7. SubSeq(s, n + 1, Len(s)) \in Seq(Char) /\ Len(SubSeq(s, n + 1, Len(s))) < Len(s)
  <2>1. n + 1 \in Int /\ Len(s) \in Int /\ \A i \in (n + 1)..Len(s) : s[i] \in Char
    BY <1>1, <1>4
  <2>2. /\ SubSeq(s, n + 1, Len(s)) \in Seq(Char)
        /\ Len(SubSeq(s, n + 1, Len(s))) = IF n + 1 <= Len(s) THEN Len(s) - (n + 1) + 1 ELSE 0
    BY <2>1, SubSeqProperties
  <2> QED
    BY <1>1, <1>4, <2>2
<1> QED
  BY <1>4, <1>5, <1>6, <1>7

LEMMA BodyLinesFacts ==
    /\ BodyLines \in [Seq(Char) -> Seq(Seq(Char))]
    /\ BodyLines[<<>>] = <<>>
    /\ \A s \in Seq(Char) :
          At(s, LF) # {} => BodyLines[s] = <<Before(s, LF)>> \o BodyLines[After(s, LF)]
<1> DEFINE Stop == {s \in Seq(Char) : At(s, LF) = {}}
           first == [s \in Seq(Char) |-> Before(s, LF)]
           rest == [s \in Seq(Char) |-> After(s, LF)]
           Split(f) == [s \in Seq(Char) |->
                          IF At(s, LF) = {} THEN <<>>
                          ELSE <<Before(s, LF)>> \o f[After(s, LF)]]
           lines == CHOOSE f : f = Split(f)
           parser == TheParser(Stop, first, rest)
<1>1. Reads(Seq(Char), Stop, first, rest)
  BY CutFacts DEF Reads
<1>2. \A f : Parser(f, Stop, first, rest) = Split(f)
  BY DEF Parser
<1>3. parser \in [Seq(Char) -> Seq(Seq(Char))] /\ parser = Parser(parser, Stop, first, rest)
  <2> HIDE DEF Stop, first, rest
  <2> QED
    BY <1>1, ParserFacts
<1>4. lines \in [Seq(Char) -> Seq(Seq(Char))] /\ lines = Split(lines)
  <2> HIDE DEF Stop, first, rest, Split
  <2>1. lines = parser
    BY <1>2 DEF TheParser
  <2> QED
    BY <1>2, <1>3, <2>1
<1>5. BodyLines = lines
  BY DEF BodyLines
<1> HIDE DEF lines
<1>6. <<>> \in Seq(Char) /\ At(<<>>, LF) = {}
  BY DEF At
<1>7. lines[<<>>] = <<>> /\ \A s \in Seq(Char) :
          At(s, LF) # {} => lines[s] = <<Before(s, LF)>> \o lines[After(s, LF)]
  BY <1>4, <1>6
<1> QED
  BY <1>4, <1>5, <1>7

LEMMA BodyLineParsed ==
    ASSUME NEW s, IsLine(s)
    PROVE  s \o <<LF>> \in Seq(Char) /\ Parses(BodyLines, Char, s \o <<LF>>, <<s>>)
<1> USE DEF IsLine
<1>1. LF \in Char /\ s \in Seq(Char) /\ \A i \in 1..Len(s) : s[i] # LF
  BY Bounds
<1>2. s \o <<LF>> \in Seq(Char)
  BY <1>1
<1>3. ASSUME NEW t \in Seq(Char)
      PROVE  BodyLines[(s \o <<LF>>) \o t] = <<s>> \o BodyLines[t]
  <2> DEFINE text == (s \o <<LF>>) \o t
  <2>1. text \in Seq(Char) /\ At(text, LF) # {} /\ Before(text, LF) = s /\ After(text, LF) = t
    BY <1>1, Cut
  <2> HIDE DEF text
  <2>2. BodyLines[text] = <<s>> \o BodyLines[t]
    BY <2>1, BodyLinesFacts
  <2> QED
    BY <2>2 DEF text
<1> QED
  BY <1>2, <1>3 DEF Parses

\* A line of the message.
Assignment(name, value) == (Key(name) \o <<Equals>>) \o value

LEMMA KeyFacts ==
    ASSUME NEW name \in Names
    PROVE  /\ name \in Seq(Char) /\ IsLine(name) /\ Fits(name)
           /\ Key(name) \in Seq(Char)
           /\ \A i \in 1..Len(Key(name)) : Key(name)[i] # LF /\ Key(name)[i] # Equals
<1>1. /\ IsLine(name) /\ name \in Seq(Char) /\ Fits(name) /\ Len(name) \in Nat
      /\ \A i \in 1..Len(name) : name[i] # LF /\ name[i] # Equals
  BY ConfigAssumption, FormAssumption DEF IsLine, At
<1> DEFINE u == <<112, 95>>
           x == u \o name
<1>2. u \in Seq(Char) /\ Len(u) = 2 /\ u[1] = 112 /\ u[2] = 95
  <2>1. 112 \in Char /\ 95 \in Char
    BY DEF Char
  <2> QED
    BY <2>1
<1>3. Key(name) = x
  BY DEF Key
<1> HIDE DEF u
<1>4. /\ x \in Seq(Char) /\ Len(x) = Len(u) + Len(name)
      /\ \A i \in 1..(Len(u) + Len(name)) :
             x[i] = IF i <= Len(u) THEN u[i] ELSE name[i - Len(u)]
  <2>1. u \in Seq(Char) /\ name \in Seq(Char)
    BY <1>1, <1>2
  <2> QED
    BY <2>1, ConcatProperties
<1> HIDE DEF x
<1>5. ASSUME NEW i \in 1..Len(x)
      PROVE  x[i] # LF /\ x[i] # Equals
  <2>1. CASE i <= 2
    <3>1. i = 1 \/ i = 2
      BY <1>1, <1>2, <1>4, <2>1
    <3> QED
      BY <1>1, <1>2, <1>4, <3>1
  <2>2. CASE ~(i <= 2)
    <3>1. i - 2 \in 1..Len(name) /\ x[i] = name[i - 2]
      BY <1>1, <1>2, <1>4, <2>2
    <3> QED
      BY <1>1, <3>1
  <2> QED
    BY <2>1, <2>2
<1> QED
  BY <1>1, <1>3, <1>4, <1>5

LEMMA KeyInjective ==
    ASSUME NEW name \in Names, NEW other \in Names, Key(name) = Key(other)
    PROVE  name = other
<1> DEFINE u == <<112, 95>>
<1>1. u \in Seq(Char)
  <2>1. 112 \in Char /\ 95 \in Char
    BY DEF Char
  <2> QED
    BY <2>1
<1>2. name \in Seq(Char) /\ other \in Seq(Char) /\ u \o name = u \o other
  BY KeyFacts DEF Key
<1> HIDE DEF u
<1>3. \A S : \A s, t, v \in Seq(S) : s \o t = s \o v => t = v
  BY ConcatSimplifications
<1> QED
  BY <1>1, <1>2, <1>3

\* A line of the message has one name and one value, whatever is in the value.
LEMMA AssignmentFacts ==
    ASSUME NEW name \in Names, NEW value, IsLine(value)
    PROVE  LET line == Assignment(name, value)
           IN  /\ IsLine(line) /\ At(line, Equals) # {}
               /\ SubSeq(line, 1, Separator(line) - 1) = Key(name)
               /\ SubSeq(line, Separator(line) + 1, Len(line)) = value
<1> DEFINE key == Key(name)
           line == Assignment(name, value)
<1>1. /\ key \in Seq(Char) /\ value \in Seq(Char) /\ Equals \in Char
      /\ \A i \in 1..Len(key) : key[i] # LF /\ key[i] # Equals
      /\ \A i \in 1..Len(value) : value[i] # LF
  <2>1. Equals \in Char
    BY DEF Char
  <2> QED
    BY <2>1, KeyFacts DEF IsLine
<1> HIDE DEF key
<1>2. line = (key \o <<Equals>>) \o value
  BY DEF Assignment, key
<1> HIDE DEF line
<1>3. /\ line \in Seq(Char) /\ At(line, Equals) # {}
      /\ Before(line, Equals) = key /\ After(line, Equals) = value
  BY <1>1, <1>2, Cut
<1>4. ASSUME NEW i \in 1..Len(line)
      PROVE  line[i] # LF
  <2> DEFINE b == key \o <<Equals>>
             n == Len(key)
  <2>1. b \in Seq(Char) /\ Len(b) = n + 1 /\ n \in Nat
        /\ \A j \in 1..(n + 1) : b[j] = IF j <= n THEN key[j] ELSE <<Equals>>[j - n]
    <3> DEFINE u == <<Equals>>
    <3>1. u \in Seq(Char) /\ Len(u) = 1
      BY <1>1
    <3> HIDE DEF u
    <3>2. /\ key \o u \in Seq(Char) /\ Len(key \o u) = Len(key) + Len(u)
          /\ \A j \in 1..(Len(key) + Len(u)) :
                 (key \o u)[j] = IF j <= Len(key) THEN key[j] ELSE u[j - Len(key)]
      <4>1. u \in Seq(Char) /\ key \in Seq(Char)
        BY <1>1, <3>1
      <4> QED
        BY <4>1, ConcatProperties
    <3>3. n \in Nat
      BY <1>1
    <3> QED
      BY <3>1, <3>2, <3>3 DEF u
  <2> HIDE DEF b
  <2>2. \A j \in 1..(n + 1) : b[j] # LF
    <3> SUFFICES ASSUME NEW j \in 1..(n + 1)
                 PROVE  b[j] # LF
      OBVIOUS
    <3>1. CASE j <= n
      BY <1>1, <2>1, <3>1
    <3>2. CASE ~(j <= n)
      <4>1. j - n = 1
        BY <2>1, <3>2
      <4>2. b[j] = Equals
        BY <2>1, <3>2, <4>1
      <4> QED
        BY <4>2
    <3> QED
      BY <3>1, <3>2
  <2>3. line = b \o value
    BY <1>2 DEF b
  <2>4. /\ Len(b \o value) = Len(b) + Len(value)
        /\ \A j \in 1..(Len(b) + Len(value)) :
               (b \o value)[j] = IF j <= Len(b) THEN b[j] ELSE value[j - Len(b)]
    <3>1. b \in Seq(Char) /\ value \in Seq(Char)
      BY <1>1, <2>1
    <3> QED
      BY <3>1, ConcatProperties
  <2>5. Len(value) \in Nat /\ i \in 1..(Len(b) + Len(value))
    BY <1>1, <2>3, <2>4
  <2>6. CASE i <= Len(b)
    BY <2>1, <2>2, <2>3, <2>4, <2>5, <2>6
  <2>7. CASE ~(i <= Len(b))
    <3>1. i - Len(b) \in 1..Len(value)
      BY <2>1, <2>5, <2>7
    <3> QED
      BY <1>1, <2>3, <2>4, <2>5, <2>7, <3>1
  <2> QED
    BY <2>6, <2>7
<1>5. /\ SubSeq(line, 1, Separator(line) - 1) = Before(line, Equals)
      /\ SubSeq(line, Separator(line) + 1, Len(line)) = After(line, Equals)
  BY DEF Separator, Before, After
<1> QED
  BY <1>3, <1>4, <1>5 DEF IsLine, line, key

\* The lines behind the command.
Assignments(values) ==
    LET name == Ordered(Names)
    IN  [i \in DOMAIN name |-> Assignment(name[i], values[name[i]])]

LEMMA NamesFacts ==
    LET o == Ordered(Names)
    IN  /\ o \in Seq(Names) /\ DOMAIN o = 1..Len(o) /\ Len(o) \in Nat
        /\ \A i \in 1..Len(o) : o[i] \in Names
        /\ \A name \in Names : \E i \in 1..Len(o) : o[i] = name
        /\ \A i, j \in 1..Len(o) : o[i] = o[j] => i = j
<1> DEFINE o == Ordered(Names)
<1>1. Names \in SUBSET Seq(Char) /\ IsFiniteSet(Names)
  BY KeyFacts, ConfigAssumption
<1>2. o \in Seq(Names) /\ ToSet(o) = Names /\ \A i, j \in DOMAIN o : o[i] = o[j] => i = j
  BY <1>1, OrderedFacts
<1> HIDE DEF o
<1>3. DOMAIN o = 1..Len(o) /\ Len(o) \in Nat /\ \A i \in 1..Len(o) : o[i] \in Names
  BY <1>2
<1>4. \A name \in Names : \E i \in 1..Len(o) : o[i] = name
  BY <1>2, <1>3 DEF ToSet
<1> QED
  BY <1>2, <1>3, <1>4 DEF o

LEMMA AssignmentLines ==
    ASSUME NEW values \in [Names -> Values]
    PROVE  LET o == Ordered(Names)
               s == Assignments(values)
           IN  /\ s \in Seq(Seq(Char)) /\ Len(s) = Len(o) /\ DOMAIN s = 1..Len(o)
               /\ \A i \in 1..Len(o) : /\ s[i] = Assignment(o[i], values[o[i]])
                                       /\ IsLine(s[i]) /\ s[i] \in Seq(Char)
<1> DEFINE o == Ordered(Names)
           s == Assignments(values)
<1>1. s = [i \in DOMAIN o |-> Assignment(o[i], values[o[i]])]
  BY DEF Assignments
<1>2. /\ o \in Seq(Names) /\ DOMAIN o = 1..Len(o) /\ Len(o) \in Nat
      /\ \A i \in 1..Len(o) : o[i] \in Names
  BY NamesFacts
<1> HIDE DEF o, s
<1>3. \A name \in Names : IsLine(values[name])
  BY ConfigAssumption
<1>4. ASSUME NEW i \in 1..Len(o)
      PROVE  /\ s[i] = Assignment(o[i], values[o[i]])
             /\ IsLine(s[i]) /\ s[i] \in Seq(Char)
  <2>1. s[i] = Assignment(o[i], values[o[i]]) /\ o[i] \in Names /\ IsLine(values[o[i]])
    BY <1>1, <1>2, <1>3
  <2>2. IsLine(s[i])
    BY <2>1, AssignmentFacts
  <2> QED
    BY <2>1, <2>2 DEF IsLine
<1>5. s \in [1..Len(o) -> Seq(Char)]
  BY <1>1, <1>2, <1>4
<1>6. s \in Seq(Seq(Char)) /\ Len(s) = Len(o)
  BY <1>2, <1>5, IsSeq
<1> QED
  BY <1>4, <1>5, <1>6 DEF o, s

\* The body of the message is taken apart into what it was put together from.
LEMMA MessageLines ==
    ASSUME NEW values \in [Names -> Values]
    PROVE  BodyLines[Body(Message(values))] = Assignments(values)
<1> DEFINE o == Ordered(Names)
           s == Assignments(values)
           p == [i \in DOMAIN o |-> s[i] \o <<LF>>]
           q == [i \in DOMAIN s |-> <<s[i]>>]
           flat == FlattenSeq(p)
<1>1. /\ s \in Seq(Seq(Char)) /\ Len(s) = Len(o) /\ DOMAIN s = 1..Len(o)
      /\ \A i \in 1..Len(o) : /\ s[i] = Assignment(o[i], values[o[i]])
                              /\ IsLine(s[i]) /\ s[i] \in Seq(Char)
  BY AssignmentLines
<1>2. DOMAIN o = 1..Len(o) /\ Len(o) \in Nat
  BY NamesFacts
<1>3. Message(values) = <<49, Bar, 115, LF>> \o flat
  <2>1. p = [i \in DOMAIN o |->
                (Key(o[i]) \o <<Equals>> \o values[o[i]]) \o <<LF>>]
    BY <1>1, <1>2 DEF Assignment
  <2> QED
    BY <2>1 DEF Message
<1> HIDE DEF o, s
<1>4. FlattenSeq(q) = s
  BY <1>1, FlattenSingles
<1>5. ASSUME NEW i \in 1..Len(o)
      PROVE  /\ p[i] \in Seq(Char) /\ q[i] \in Seq(Seq(Char))
             /\ Parses(BodyLines, Char, p[i], q[i])
  <2>1. p[i] = s[i] \o <<LF>> /\ q[i] = <<s[i]>>
    BY <1>1, <1>2
  <2> QED
    BY <1>1, <2>1, BodyLineParsed
<1>6. /\ p \in Seq(Seq(Char)) /\ q \in Seq(Seq(Seq(Char)))
      /\ Len(p) = Len(o) /\ Len(q) = Len(o)
  <2>1. p \in [1..Len(o) -> Seq(Char)] /\ q \in [1..Len(o) -> Seq(Seq(Char))]
    BY <1>1, <1>2, <1>5
  <2> HIDE DEF p, q
  <2> QED
    BY <1>2, <2>1, IsSeq
<1> HIDE DEF p, q
<1>7. Parses(BodyLines, Char, flat, s)
  <2>1. \A i \in 1..Len(p) : Parses(BodyLines, Char, p[i], q[i])
    BY <1>5, <1>6
  <2>2. Parses(BodyLines, Char, FlattenSeq(p), FlattenSeq(q))
    BY <1>6, <2>1, BodyLinesFacts, ParsesAll
  <2> QED
    BY <1>4, <2>2
<1>8. flat \in Seq(Char)
  BY <1>6, FlattenType
<1> HIDE DEF flat
<1>9. BodyLines[flat] = s
  <2>1. <<>> \in Seq(Char)
    OBVIOUS
  <2>2. BodyLines[flat \o <<>>] = s \o BodyLines[<<>>]
    BY <1>7, <2>1 DEF Parses
  <2>3. flat \o <<>> = flat /\ s \o <<>> = s
    BY <1>1, <1>8, ConcatEmptySeq
  <2> QED
    BY <2>2, <2>3, BodyLinesFacts
<1>10. Body(Message(values)) = flat
  <2> DEFINE id == <<49>>
             name == <<115>>
             command == (name \o <<LF>>) \o flat
             message == (id \o <<Bar>>) \o command
  <2>1. /\ 49 \in Char /\ Bar \in Char /\ 115 \in Char /\ LF \in Char
        /\ 49 # Bar /\ 115 # LF
    BY DEF Char
  <2>2. /\ id \in Seq(Char) /\ (\A i \in 1..Len(id) : id[i] # Bar)
        /\ name \in Seq(Char) /\ \A i \in 1..Len(name) : name[i] # LF
    BY <2>1
  <2>3. /\ command \in Seq(Char) /\ At(command, LF) # {} /\ After(command, LF) = flat
    <3> HIDE DEF name
    <3> QED
      BY <1>8, <2>1, <2>2, Cut
  <2>4. After(message, Bar) = command
    <3> HIDE DEF id, command
    <3> QED
      BY <2>1, <2>2, <2>3, Cut
  <2>5. Message(values) = message
    <3>1. /\ id \o <<Bar>> = <<49, Bar>> /\ name \o <<LF>> = <<115, LF>>
          /\ <<49, Bar>> \in Seq(Char) /\ <<115, LF>> \in Seq(Char)
      BY <2>1, TwoElements
    <3> DEFINE x == <<49, Bar>>
               y == <<115, LF>>
    <3>2. x \o y = <<49, Bar, 115, LF>>
      BY <2>1, FourElements
    <3>3. message = x \o (y \o flat)
      BY <3>1
    <3>4. x \in Seq(Char) /\ y \in Seq(Char)
      BY <3>1
    <3>5. Message(values) = (x \o y) \o flat
      BY <1>3, <3>2
    <3> HIDE DEF x, y, message
    <3>6. (x \o y) \o flat = x \o (y \o flat)
      BY <1>8, <3>4, ConcatAssociative
    <3> QED
      BY <3>3, <3>5, <3>6
  <2> HIDE DEF message, command
  <2> QED
    BY <2>3, <2>4, <2>5 DEF Body
<1> QED
  BY <1>9, <1>10 DEF s

\* What the portal finds for a name is what the page has sent for it.
LEMMA ParamMapFacts ==
    ASSUME NEW values \in [Names -> Values], NEW name \in Names
    PROVE  LET sent == ParamMap(Body(Message(values)))
           IN  Key(name) \in DOMAIN sent /\ sent[Key(name)] = values[name]
<1> DEFINE o == Ordered(Names)
           body == Body(Message(values))
           line == BodyLines[body]
           n == Len(o)
           Pairs == {i \in DOMAIN line : At(line[i], Equals) # {}}
           KeyOf(i) == SubSeq(line[i], 1, Separator(line[i]) - 1)
           ValueOf(i) == SubSeq(line[i], Separator(line[i]) + 1, Len(line[i]))
           Found(key) == {i \in Pairs : KeyOf(i) = key}
           keys == {KeyOf(i) : i \in Pairs}
<1>1. ParamMap(body) = [key \in keys |-> ValueOf(Max(Found(key)))]
  BY DEF ParamMap
<1>2. line = Assignments(values)
  BY MessageLines
<1> HIDE DEF body, line
<1>3. /\ DOMAIN o = 1..n /\ n \in Nat
      /\ \A i \in 1..n : o[i] \in Names
      /\ \E i \in 1..n : o[i] = name
      /\ \A i, j \in 1..n : o[i] = o[j] => i = j
  BY NamesFacts
<1>4. /\ DOMAIN line = 1..n
      /\ \A i \in 1..n : line[i] = Assignment(o[i], values[o[i]])
  BY <1>2, AssignmentLines
<1> HIDE DEF o, n
<1>5. ASSUME NEW i \in 1..n
      PROVE  /\ At(line[i], Equals) # {} /\ KeyOf(i) = Key(o[i]) /\ ValueOf(i) = values[o[i]]
  <2>1. line[i] = Assignment(o[i], values[o[i]]) /\ o[i] \in Names /\ IsLine(values[o[i]])
    BY <1>3, <1>4, ConfigAssumption
  <2> QED
    BY <2>1, AssignmentFacts
<1>6. Pairs = 1..n
  BY <1>4, <1>5
<1>7. PICK k \in 1..n : o[k] = name
  BY <1>3
<1> HIDE DEF Pairs, KeyOf, ValueOf
<1>8. Found(Key(name)) = {k}
  <2>1. \A i \in 1..n : Key(o[i]) = Key(name) => o[i] = name
    BY <1>3, KeyInjective
  <2>2. \A i \in 1..n : KeyOf(i) = Key(name) <=> i = k
    BY <1>3, <1>5, <1>7, <2>1
  <2> QED
    BY <1>6, <2>2
<1>9. Max({k}) = k
  <2>1. k \in Int
    BY <1>3
  <2>2. {k} \in SUBSET Int /\ k \in {k} /\ \A m \in {k} : m <= k
    BY <2>1
  <2> QED
    BY <2>2, MaxIs
<1>10. Key(name) \in keys
  BY <1>5, <1>6, <1>7
<1>11. ValueOf(k) = values[name]
  BY <1>5, <1>7
<1> HIDE DEF keys, Found
<1> QED
  BY <1>1, <1>8, <1>9, <1>10, <1>11 DEF body

-----------------------------------------------------------------------------
(* The page reads the string it is sent. *)

LEMMA SuffixFacts ==
    ASSUME NEW S, NEW s \in Seq(S), s # <<>>, NEW n \in Nat, n > 0
    PROVE  SubSeq(s, n + 1, Len(s)) \in Seq(S) /\ Len(SubSeq(s, n + 1, Len(s))) < Len(s)
<1>1. Len(s) \in Nat /\ Len(s) > 0 /\ \A i \in 1..Len(s) : s[i] \in S
  OBVIOUS
<1>2. n + 1 \in Int /\ Len(s) \in Int /\ \A i \in (n + 1)..Len(s) : s[i] \in S
  BY <1>1
<1>3. /\ SubSeq(s, n + 1, Len(s)) \in Seq(S)
      /\ Len(SubSeq(s, n + 1, Len(s))) = IF n + 1 <= Len(s) THEN Len(s) - (n + 1) + 1 ELSE 0
  BY <1>2, SubSeqProperties
<1> QED
  BY <1>1, <1>3

LEMMA SuffixOfConcat ==
    ASSUME NEW S, NEW a \in Seq(S), NEW t \in Seq(S)
    PROVE  SubSeq(a \o t, Len(a) + 1, Len(a \o t)) = t
<1> DEFINE n == Len(a)
           s == a \o t
           after == SubSeq(s, n + 1, Len(s))
<1>1. n \in Nat /\ Len(t) \in Nat
  OBVIOUS
<1>2. /\ s \in Seq(S) /\ Len(s) = n + Len(t)
      /\ \A i \in 1..(n + Len(t)) : s[i] = IF i <= n THEN a[i] ELSE t[i - n]
  BY ConcatProperties
<1> HIDE DEF s, n
<1>3. \A i \in 1..Len(t) : s[n + i] = t[i]
  <2> SUFFICES ASSUME NEW i \in 1..Len(t)
               PROVE  s[n + i] = t[i]
    OBVIOUS
  <2>1. n + i \in 1..(n + Len(t)) /\ ~(n + i <= n) /\ (n + i) - n = i
    BY <1>1
  <2> QED
    BY <1>2, <2>1
<1>4. /\ after \in Seq(S)
      /\ Len(after) = IF n + 1 <= Len(s) THEN Len(s) - (n + 1) + 1 ELSE 0
      /\ \A i \in 1..(Len(s) - (n + 1) + 1) : after[i] = s[(n + 1) + i - 1]
  <2>1. \A i \in (n + 1)..Len(s) : s[i] \in S
    BY <1>1, <1>2
  <2>2. n + 1 \in Int /\ Len(s) \in Int
    BY <1>1, <1>2
  <2> QED
    BY <2>1, <2>2, SubSeqProperties
<1> HIDE DEF after
<1>5. Len(after) = Len(t)
  BY <1>1, <1>2, <1>4
<1>6. \A i \in 1..Len(t) : after[i] = t[i]
  <2> SUFFICES ASSUME NEW i \in 1..Len(t)
               PROVE  after[i] = t[i]
    OBVIOUS
  <2>1. i \in 1..(Len(s) - (n + 1) + 1) /\ (n + 1) + i - 1 = n + i
    BY <1>1, <1>2
  <2> QED
    BY <1>3, <1>4, <2>1
<1>7. after = t
  BY <1>4, <1>5, <1>6, SeqEqual
<1> QED
  BY <1>7 DEF after, s, n

\* What is read off the front of a text.
JsonValue == Char \cup {Unescaped(s) : s \in Seq(Char)}

LEMMA JsonFacts ==
    /\ JsonParse \in [Seq(Char) -> Seq(JsonValue)]
    /\ \A s \in Seq(Char) :
          JsonParse[s] = IF s = <<>> \/ s[1] = Quote THEN <<>>
                         ELSE <<Unescaped(s)>> \o JsonParse[SubSeq(s, Width(s) + 1, Len(s))]
<1> DEFINE Stop == {s \in Seq(Char) : s = <<>> \/ s[1] = Quote}
           first == [s \in Seq(Char) |-> Unescaped(s)]
           rest == [s \in Seq(Char) |-> SubSeq(s, Width(s) + 1, Len(s))]
           Split(f) == [s \in Seq(Char) |->
                          IF s = <<>> \/ s[1] = Quote THEN <<>>
                          ELSE <<Unescaped(s)>> \o f[SubSeq(s, Width(s) + 1, Len(s))]]
           value == CHOOSE f : f = Split(f)
           parser == TheParser(Stop, first, rest)
<1>1. Reads(JsonValue, Stop, first, rest)
  <2> SUFFICES ASSUME NEW s \in Seq(Char), s # <<>>
               PROVE  /\ Unescaped(s) \in JsonValue
                      /\ SubSeq(s, Width(s) + 1, Len(s)) \in Seq(Char)
                      /\ Len(SubSeq(s, Width(s) + 1, Len(s))) < Len(s)
    BY DEF Reads
  <2>1. Width(s) \in Nat /\ Width(s) > 0
    BY DEF Width
  <2> QED
    BY <2>1, SuffixFacts DEF JsonValue
<1>2. \A f : Parser(f, Stop, first, rest) = Split(f)
  BY DEF Parser
<1>3. parser \in [Seq(Char) -> Seq(JsonValue)] /\ parser = Parser(parser, Stop, first, rest)
  <2> HIDE DEF Stop, first, rest
  <2> QED
    BY <1>1, ParserFacts
<1>4. value \in [Seq(Char) -> Seq(JsonValue)] /\ value = Split(value)
  <2> HIDE DEF Stop, first, rest, Split
  <2>1. value = parser
    BY <1>2 DEF TheParser
  <2> QED
    BY <1>2, <1>3, <2>1
<1>5. JsonParse = value
  BY DEF JsonParse
<1> HIDE DEF value
<1> QED
  BY <1>4, <1>5

\* The hexadecimal digits.
LEMMA DigitFacts ==
    ASSUME NEW n \in 0..15
    PROVE  Digit(n) \in Char /\ HexValue(Digit(n)) = n /\ Digit(n) # Quote
BY DEF Digit, HexValue, Char, Quote

LEMMA ShortFacts ==
    /\ DOMAIN Short = {8, 9, 10, 12, 13}
    /\ Short[8] = 98 /\ Short[9] = 116 /\ Short[10] = 110 /\ Short[12] = 102 /\ Short[13] = 114
BY DEF Short

\* Every character is escaped to something that is read as this character, whatever follows.
LEMMA EscapedFacts ==
    ASSUME NEW c \in Char
    PROVE  LET e == Escaped(c)
           IN  /\ e \in Seq(Char) /\ Len(e) > 0 /\ e[1] # Quote
               /\ \A s : (\A i \in 1..Len(e) : s[i] = e[i])
                            => Unescaped(s) = c /\ Width(s) = Len(e)
<1> USE DEF Quote, Slash
<1>1. c \in 1..255
  BY DEF Char
<1>2. CASE c \in {Quote, Slash}
  <2>1. Escaped(c) = <<92, c>>
    BY <1>2, ShortFacts DEF Escaped
  <2>2. 92 \in Char
    BY DEF Char
  <2>3. <<92, c>> \in Seq(Char)
    BY <2>2
  <2>4. ASSUME NEW s, s[1] = 92, s[2] = c
        PROVE  Unescaped(s) = c /\ Width(s) = 2
    BY <1>2, <2>4 DEF Unescaped, Width
  <2> QED
    BY <2>1, <2>3, <2>4
<1>3. CASE c \in DOMAIN Short
  <2>1. Escaped(c) = <<92, Short[c]>>
    BY <1>3, ShortFacts DEF Escaped
  <2>2. 92 \in Char /\ Short[c] \in Char
    BY <1>3, ShortFacts DEF Char
  <2>3. <<92, Short[c]>> \in Seq(Char)
    BY <2>2
  <2>4. ASSUME NEW s, s[1] = 92, s[2] = Short[c]
        PROVE  Unescaped(s) = c /\ Width(s) = 2
    <3>1. s[2] # 117 /\ s[2] \notin {Quote, Slash}
      BY <1>3, <2>4, ShortFacts
    <3>2. \A d \in DOMAIN Short : Short[d] = s[2] <=> d = c
      BY <1>3, <2>4, ShortFacts
    <3>3. (CHOOSE d \in DOMAIN Short : Short[d] = s[2]) = c
      BY <1>3, <3>2
    <3> QED
      BY <2>4, <3>1, <3>3 DEF Unescaped, Width
  <2> QED
    BY <2>1, <2>3, <2>4
<1>4. CASE c < 32 /\ c \notin DOMAIN Short
  <2> DEFINE h == Digit(c \div 16)
             l == Digit(c % 16)
  <2>1. Escaped(c) = <<92, 117, 48, 48, h, l>>
    BY <1>4, ShortFacts DEF Escaped
  <2>2. c \div 16 \in 0..15 /\ c % 16 \in 0..15 /\ 16 * (c \div 16) + (c % 16) = c
    BY <1>1, <1>4
  <2>3. /\ h \in Char /\ l \in Char
        /\ 16 * HexValue(h) + HexValue(l) = c
    <3>1. HexValue(h) = c \div 16 /\ HexValue(l) = c % 16
      BY <2>2, DigitFacts
    <3>2. h \in Char /\ l \in Char
      BY <2>2, DigitFacts
    <3> QED
      BY <2>2, <3>1, <3>2
  <2> HIDE DEF h, l
  <2>4. 92 \in Char /\ 117 \in Char /\ 48 \in Char
    BY DEF Char
  <2>5. <<92, 117, 48, 48, h, l>> \in Seq(Char) /\ Len(<<92, 117, 48, 48, h, l>>) = 6
    BY <2>3, <2>4
  <2>6. ASSUME NEW s, s[1] = 92, s[2] = 117, s[5] = h, s[6] = l
        PROVE  Unescaped(s) = c /\ Width(s) = 6
    BY <2>3, <2>6 DEF Unescaped, Width
  <2> QED
    BY <2>1, <2>5, <2>6
<1>5. CASE c \notin {Quote, Slash} /\ c \notin DOMAIN Short /\ ~(c < 32)
  <2>1. Escaped(c) = <<c>>
    BY <1>5 DEF Escaped
  <2>2. <<c>> \in Seq(Char)
    OBVIOUS
  <2>3. ASSUME NEW s, s[1] = c
        PROVE  Unescaped(s) = c /\ Width(s) = 1
    BY <1>5, <2>3 DEF Unescaped, Width
  <2> QED
    BY <1>5, <2>1, <2>2, <2>3
<1> QED
  BY <1>2, <1>3, <1>4, <1>5

LEMMA EscapedParsed ==
    ASSUME NEW c \in Char
    PROVE  Parses(JsonParse, Char, Escaped(c), <<c>>)
<1> DEFINE e == Escaped(c)
<1>1. /\ e \in Seq(Char) /\ Len(e) > 0 /\ e[1] # Quote
      /\ \A s : (\A i \in 1..Len(e) : s[i] = e[i])
                   => Unescaped(s) = c /\ Width(s) = Len(e)
  BY EscapedFacts
<1> HIDE DEF e
<1>2. ASSUME NEW t \in Seq(Char)
      PROVE  JsonParse[e \o t] = <<c>> \o JsonParse[t]
  <2> DEFINE s == e \o t
  <2>1. Len(e) \in Nat /\ Len(t) \in Nat /\ 1 \in 1..Len(e)
    BY <1>1
  <2>2. /\ s \in Seq(Char) /\ Len(s) = Len(e) + Len(t)
        /\ \A i \in 1..(Len(e) + Len(t)) : s[i] = IF i <= Len(e) THEN e[i] ELSE t[i - Len(e)]
    <3>1. e \in Seq(Char)
      BY <1>1
    <3> QED
      BY <3>1, ConcatProperties
  <2>3. SubSeq(s, Len(e) + 1, Len(s)) = t
    BY <1>1, SuffixOfConcat
  <2> HIDE DEF s
  <2>4. \A i \in 1..Len(e) : s[i] = e[i]
    BY <2>1, <2>2
  <2>5. Unescaped(s) = c /\ Width(s) = Len(e)
    BY <1>1, <2>4
  <2>6. s # <<>> /\ s[1] # Quote
    BY <1>1, <2>1, <2>2, <2>4
  <2>7. JsonParse[s] = <<Unescaped(s)>> \o JsonParse[SubSeq(s, Width(s) + 1, Len(s))]
    BY <2>2, <2>6, JsonFacts
  <2> QED
    BY <2>3, <2>5, <2>7 DEF s
<1> QED
  BY <1>2 DEF Parses, e

\* JSON.parse takes back what json_escape has done.
LEMMA EscapedIsRead ==
    ASSUME NEW s \in Seq(Char)
    PROVE  JsonParse[json_escape(s) \o <<Quote, 44>>] = s
<1> DEFINE p == [i \in DOMAIN s |-> Escaped(s[i])]
           q == [i \in DOMAIN s |-> <<s[i]>>]
           end == <<Quote, 44>>
<1>1. DOMAIN s = 1..Len(s) /\ Len(s) \in Nat /\ \A i \in 1..Len(s) : s[i] \in Char
  OBVIOUS
<1>2. ASSUME NEW i \in 1..Len(s)
      PROVE  /\ p[i] \in Seq(Char) /\ q[i] \in Seq(JsonValue)
             /\ Parses(JsonParse, Char, p[i], q[i])
  <2>1. p[i] = Escaped(s[i]) /\ q[i] = <<s[i]>> /\ s[i] \in Char /\ s[i] \in JsonValue
    BY <1>1 DEF JsonValue
  <2>2. Escaped(s[i]) \in Seq(Char)
    BY <2>1, EscapedFacts
  <2>3. <<s[i]>> \in Seq(JsonValue)
    BY <2>1
  <2> QED
    BY <2>1, <2>2, <2>3, EscapedParsed
<1>3. /\ p \in Seq(Seq(Char)) /\ q \in Seq(Seq(JsonValue))
      /\ Len(p) = Len(s) /\ Len(q) = Len(s)
  <2>1. p \in [1..Len(s) -> Seq(Char)] /\ q \in [1..Len(s) -> Seq(JsonValue)]
    BY <1>1, <1>2
  <2> HIDE DEF p, q
  <2> QED
    BY <1>1, <2>1, IsSeq
<1>4. FlattenSeq(q) = s
  BY FlattenSingles
<1>5. json_escape(s) = FlattenSeq(p)
  BY DEF json_escape
<1> HIDE DEF p, q
<1>6. Parses(JsonParse, Char, FlattenSeq(p), FlattenSeq(q))
  <2>1. \A i \in 1..Len(p) : Parses(JsonParse, Char, p[i], q[i])
    BY <1>2, <1>3
  <2> QED
    BY <1>3, <2>1, JsonFacts, ParsesAll
<1>7. end \in Seq(Char) /\ end # <<>> /\ end[1] = Quote
  <2>1. Quote \in Char /\ 44 \in Char
    BY DEF Char, Quote
  <2> QED
    BY <2>1
<1> HIDE DEF end
<1>8. JsonParse[end] = <<>>
  BY <1>7, JsonFacts
<1>9. JsonParse[FlattenSeq(p) \o end] = FlattenSeq(q) \o JsonParse[end]
  BY <1>6, <1>7 DEF Parses
<1>10. s \o <<>> = s
  BY ConcatEmptySeq
<1>11. json_escape(s) \o <<Quote, 44>> = FlattenSeq(p) \o end
  BY <1>5 DEF end
<1> QED
  BY <1>4, <1>8, <1>9, <1>10, <1>11

-----------------------------------------------------------------------------
(* The fingerprint. *)

LEMMA HexFacts ==
    ASSUME NEW c \in Char, HexValue(c) <= 15
    PROVE  HexValue(c) \in 0..15 /\ HexChar(HexValue(c)) = Upper(c)
<1>1. c \in 1..255
  BY DEF Char
<1>2. CASE c \in 48..57
  <2>1. HexValue(c) = c - 48 /\ c - 48 \in 0..9
    BY <1>2 DEF HexValue
  <2> QED
    BY <1>2, <2>1 DEF HexChar, Upper, Digit
<1>3. CASE c \in 65..70
  <2>1. HexValue(c) = c - 55 /\ c - 55 \in 10..15
    BY <1>3 DEF HexValue
  <2> QED
    BY <1>3, <2>1 DEF HexChar, Upper, Digit
<1>4. CASE c \in 97..102
  <2>1. HexValue(c) = c - 87 /\ c - 87 \in 10..15
    BY <1>4 DEF HexValue
  <2> QED
    BY <1>4, <2>1 DEF HexChar, Upper, Digit
<1>5. CASE c \notin 48..57 /\ c \notin 65..70 /\ c \notin 97..102
  BY <1>5 DEF HexValue
<1> QED
  BY <1>2, <1>3, <1>4, <1>5

\* A fingerprint that is not refused is compared as it was typed.
LEMMA FingerprintFacts ==
    ASSUME NEW s \in Seq(Char), FingerprintToBytes(s) # <<>>
    PROVE  FingerprintText(FingerprintToBytes(s)) = [i \in 1..2 |-> Upper(s[i])]
<1> DEFINE h == HexValue(s[1])
           l == HexValue(s[2])
           b == 16 * h + l
<1>1. /\ Len(s) = 2 /\ ~(h > 15) /\ ~(l > 15)
      /\ FingerprintToBytes(s) = <<b>>
  BY DEF FingerprintToBytes, HexToValue
<1>2. s[1] \in Char /\ s[2] \in Char
  <2>1. \A i \in 1..Len(s) : s[i] \in Char
    OBVIOUS
  <2> QED
    BY <1>1, <2>1
<1>3. \A c \in Char : HexValue(c) \in Int
  BY DEF HexValue, Char
<1>4. /\ h \in 0..15 /\ HexChar(h) = Upper(s[1])
      /\ l \in 0..15 /\ HexChar(l) = Upper(s[2])
  BY <1>1, <1>2, <1>3, HexFacts
<1> HIDE DEF h, l
<1>5. b \div 16 = h /\ b % 16 = l
  BY <1>4
<1> HIDE DEF b
<1>6. FingerprintText(<<b>>) = <<HexChar(h), HexChar(l)>>
  BY <1>5 DEF FingerprintText
<1>7. FingerprintText(<<b>>) = <<Upper(s[1]), Upper(s[2])>>
  BY <1>4, <1>6
<1>8. <<Upper(s[1]), Upper(s[2])>> = [i \in 1..2 |-> Upper(s[i])]
  OBVIOUS
<1> QED
  BY <1>1, <1>7, <1>8

-----------------------------------------------------------------------------
(* Configuration files and forms: the invariant and the theorems. *)

LineOf(text) == {Lines[text][i] : i \in DOMAIN Lines[text]}

FileInv ==
    /\ file \in Seq(Char)
    /\ open \in BOOLEAN /\ isDirty \in BOOLEAN /\ (isDirty => open)
    /\ IsConfig(params) /\ DOMAIN params \subseteq Names \cup LineOf(file)
    /\ ~open => params = NoParams

\* What has been typed is the file: the message, the lines of the file and the
\* strings of the JSON have all kept it.
TypedInv ==
    typed # NoForm => /\ typed \in [Names -> Values]
                      /\ \A name \in Names : Fits(typed[name])
                      /\ file = Text(typed)

FormInv == FileInv /\ TypedInv

LEMMA NoParamsFacts == IsConfig(NoParams) /\ DOMAIN NoParams = {}
<1>1. DOMAIN NoParams = {}
  BY DEF NoParams
<1>2. NoParams = [name \in DOMAIN NoParams |-> NoParams[name]]
  BY DEF NoParams
<1>3. IsFiniteSet(DOMAIN NoParams)
  BY <1>1, FS_EmptySet
<1> HIDE DEF NoParams
<1> QED
  BY <1>1, <1>2, <1>3 DEF IsConfig

\* The form is a configuration.
LEMMA ValuesFacts ==
    ASSUME NEW values \in [Names -> Values]
    PROVE  IsConfig(values) /\ DOMAIN values = Names
BY ConfigAssumption DEF IsConfig

\* Setting keeps a configuration one.
LEMMA SetFacts ==
    ASSUME NEW map, IsConfig(map), NEW name, IsLine(name), NEW value, IsLine(value)
    PROVE  LET new == [n \in DOMAIN map \cup {name} |-> IF n = name THEN value ELSE map[n]]
           IN  IsConfig(new) /\ DOMAIN new = DOMAIN map \cup {name}
<1> DEFINE D == DOMAIN map \cup {name}
           new == [n \in D |-> IF n = name THEN value ELSE map[n]]
<1>1. IsFiniteSet(D)
  BY FS_AddElement DEF IsConfig
<1>2. \A n \in D : IsLine(n) /\ IsLine(new[n])
  BY DEF IsConfig
<1>3. DOMAIN new = D /\ new = [n \in D |-> new[n]]
  OBVIOUS
<1> HIDE DEF D, new
<1>4. IsConfig(new)
  BY <1>1, <1>2, <1>3 DEF IsConfig
<1> QED
  BY <1>3, <1>4 DEF new, D

\* A form that is submitted becomes the file.
LEMMA SubmitFacts ==
    ASSUME FileInv, NEW values \in [Names -> Values], Submit(values)
    PROVE  /\ file' \in Seq(Char)
           /\ DOMAIN Load(file) \subseteq Names => file' = Text(values)
<1> DEFINE old == Load(file)
           sent == ParamMap(Body(Message(values)))
           NewValue(name) == IF name \in Names /\ Key(name) \in DOMAIN sent
                             THEN sent[Key(name)]
                             ELSE IF name \in DOMAIN old THEN old[name] ELSE <<>>
           new == [name \in DOMAIN old \cup Names |-> NewValue(name)]
<1>1. file' = Text(new)
  BY DEF Submit
<1>2. \A name \in Names : NewValue(name) = values[name]
  BY ParamMapFacts
<1>3. IsConfig(old)
  BY LoadFacts DEF FileInv
<1> HIDE DEF old, sent
<1>4. \A name \in DOMAIN old \ Names : NewValue(name) = old[name]
  OBVIOUS
<1> HIDE DEF NewValue
<1>5. IsConfig(new)
  <2>1. IsFiniteSet(DOMAIN old \cup Names)
    BY <1>3, ConfigAssumption, FS_Union DEF IsConfig
  <2>2. ASSUME NEW name \in DOMAIN old \cup Names
        PROVE  IsLine(name) /\ IsLine(new[name])
    <3>1. CASE name \in Names
      BY <1>2, <3>1, ConfigAssumption
    <3>2. CASE name \in DOMAIN old \ Names
      BY <1>3, <1>4, <3>2 DEF IsConfig
    <3> QED
      BY <3>1, <3>2
  <2>3. DOMAIN new = DOMAIN old \cup Names /\ new = [name \in DOMAIN old \cup Names |-> new[name]]
    OBVIOUS
  <2> HIDE DEF new
  <2> QED
    BY <2>1, <2>2, <2>3 DEF IsConfig
<1>6. file' \in Seq(Char)
  BY <1>1, <1>5, TextType
<1>7. ASSUME DOMAIN old \subseteq Names
      PROVE  new = values
  <2>1. DOMAIN old \cup Names = Names
    BY <1>7
  <2> QED
    BY <1>2, <2>1
<1> HIDE DEF new
<1> QED
  BY <1>1, <1>6, <1>7 DEF old

LEMMA FormInitInv == FormInit => FormInv
<1> SUFFICES ASSUME FormInit
             PROVE  FormInv
  OBVIOUS
<1>1. file \in Seq(Char)
  BY DEF FormInit, Init
<1>2. IsConfig(params) /\ DOMAIN params = {}
  BY NoParamsFacts DEF FormInit, Init
<1> QED
  BY <1>1, <1>2 DEF FormInit, Init, FormInv, FileInv, TypedInv

LEMMA FormNextInv == FormInv /\ [FormNext]_formVars => FormInv'
<1> SUFFICES ASSUME FormInv, [FormNext]_formVars
             PROVE  FormInv'
  OBVIOUS
<1> USE DEF FormInv
<1>1. CASE Construct /\ UNCHANGED typed
  <2>1. IsConfig(Load(file)) /\ DOMAIN Load(file) \subseteq LineOf(file)
    BY LoadFacts DEF FileInv, LineOf
  <2>2. FileInv'
    BY <1>1, <2>1 DEF FileInv, Construct
  <2>3. TypedInv'
    BY <1>1 DEF TypedInv, Construct
  <2> QED
    BY <2>2, <2>3
<1>2. CASE EndUnsaved /\ UNCHANGED typed
  <2>1. FileInv'
    BY <1>2, NoParamsFacts DEF FileInv, EndUnsaved, Gone
  <2>2. TypedInv'
    BY <1>2 DEF TypedInv, EndUnsaved
  <2> QED
    BY <2>1, <2>2
<1>3. ASSUME NEW name \in Names, NEW value \in Values, SetParam(name, value), UNCHANGED typed
      PROVE  FormInv'
  <2>1. IsConfig(params') /\ DOMAIN params' = DOMAIN params \cup {name}
    <3>1. IsLine(name) /\ IsLine(value)
      BY ConfigAssumption
    <3>2. params' = [n \in DOMAIN params \cup {name} |->
                        IF n = name THEN value ELSE params[n]]
      BY <1>3 DEF SetParam
    <3> DEFINE new == [n \in DOMAIN params \cup {name} |->
                         IF n = name THEN value ELSE params[n]]
    <3>3. IsConfig(params)
      BY DEF FileInv
    <3>4. IsConfig(new) /\ DOMAIN new = DOMAIN params \cup {name}
      BY <3>1, <3>3, SetFacts
    <3>5. params' = new
      BY <3>2
    <3> HIDE DEF new
    <3> QED
      BY <3>4, <3>5
  <2>2. FileInv'
    BY <1>3, <2>1 DEF FileInv, SetParam
  <2>3. TypedInv'
    BY <1>3 DEF TypedInv, SetParam
  <2> QED
    BY <2>2, <2>3
<1>4. CASE Save /\ typed' = NoForm
  <2>1. file' \in Seq(Char)
    BY <1>4, TextType DEF FileInv, Save
  <2>2. FileInv'
    BY <1>4, <2>1, NoParamsFacts DEF FileInv, Save, Gone
  <2> QED
    BY <1>4, <2>2 DEF TypedInv
<1>5. CASE EraseConfigData /\ typed' = NoForm
  <2>1. file' \in Seq(Char)
    BY <1>5 DEF EraseConfigData
  <2>2. FileInv'
    BY <1>5, <2>1, NoParamsFacts DEF FileInv, EraseConfigData
  <2> QED
    BY <1>5, <2>2 DEF TypedInv
<1>6. ASSUME NEW values \in [Names -> Values], Submit(values)
      PROVE  FormInv'
  <2>1. /\ file' \in Seq(Char)
        /\ DOMAIN Load(file) \subseteq Names => file' = Text(values)
    BY <1>6, SubmitFacts
  <2>2. FileInv'
    BY <1>6, <2>1, NoParamsFacts DEF FileInv, Submit
  <2>3. typed' = IF DOMAIN Load(file) \subseteq Names /\ (\A n \in Names : Fits(values[n]))
                 THEN values ELSE NoForm
    BY <1>6 DEF Submit
  <2>4. TypedInv'
    BY <2>1, <2>3 DEF TypedInv
  <2> QED
    BY <2>2, <2>4
<1>7. CASE UNCHANGED formVars
  BY <1>7 DEF formVars, FileInv, TypedInv
<1> QED
  BY <1>1, <1>2, <1>3, <1>4, <1>5, <1>6, <1>7 DEF FormNext

LEMMA FormInvariance == FormSpec => []FormInv
BY FormInitInv, FormNextInv, PTL DEF FormSpec

\* The lines of any text fit the buffer with their NUL, hold no line feed, and
\* the names that the object holds are the program's or lines of its file
\* (ksConfig::ksConfig, ksConfig::setParam).
THEOREM ConfigTypeCorrect == FormSpec => []ConfigTypeOK
<1>1. FormInv => ConfigTypeOK
  <2> SUFFICES ASSUME FormInv
               PROVE  ConfigTypeOK
    OBVIOUS
  <2> DEFINE line == Lines[file]
  <2>1. line \in Seq(ReadString)
    BY LinesFacts DEF FormInv, FileInv
  <2> HIDE DEF line
  <2>2. ASSUME NEW i \in DOMAIN line
        PROVE  /\ Len(line[i]) < BufferSize
               /\ \A c \in DOMAIN line[i] : line[i][c] # LF
    <3>1. line[i] \in ReadString
      BY <2>1
    <3>2. line[i] \in Seq(Char) /\ Len(line[i]) <= MaxRead
          /\ \A c \in 1..Len(line[i]) : line[i][c] # LF
      BY <3>1 DEF ReadString, IsLine
    <3>3. DOMAIN line[i] = 1..Len(line[i]) /\ Len(line[i]) \in Nat
      BY <3>2
    <3> QED
      BY <3>2, <3>3, Bounds, ConfigAssumption
  <2> QED
    BY <2>2 DEF FormInv, FileInv, LineOf, ConfigTypeOK, line
<1> QED
  BY <1>1, FormInvariance, PTL

\* Whatever the program sets is read back from the file that the destructor has
\* written, if every line of it fits (ksConfig::~ksConfig, ksConfig::ksConfig).
THEOREM SavedConfigIsReadBack == FormSpec => SavedIsReadBack
<1>1. FormInv /\ [FormNext]_formVars
        => [Save /\ (\A name \in DOMAIN params : Fits(name) /\ Fits(params[name]))
              => Load(file') = params]_vars
  <2> SUFFICES ASSUME FormInv, Save,
                      \A name \in DOMAIN params : Fits(name) /\ Fits(params[name])
               PROVE  Load(file') = params
    OBVIOUS
  <2> QED
    BY LoadOfText DEF FormInv, FileInv, Save
<1> QED
  BY <1>1, FormInvariance, PTL DEF FormSpec, SavedIsReadBack

\* The page shows of every form it has sent what was typed, through the message,
\* the file and the JSON, and a fingerprint in it is compared as it was typed
\* (saveConfig, handle_getDeviceParams, json_escape, fingerprintToBytes).
THEOREM FormsAreKept == FormSpec => []FormIsKept
<1>1. FormInv => FormIsKept
  <2> SUFFICES ASSUME FormInv, typed # NoForm, NEW name \in Names
               PROVE  /\ Shown(name) = typed[name]
                      /\ LET bytes == FingerprintToBytes(Shown(name))
                         IN  bytes # <<>> =>
                               FingerprintText(bytes) = [i \in 1..2 |-> Upper(typed[name][i])]
    BY DEF FormIsKept
  <2>1. typed \in [Names -> Values] /\ (\A n \in Names : Fits(typed[n])) /\ file = Text(typed)
    BY DEF FormInv, TypedInv
  <2>2. IsConfig(typed) /\ DOMAIN typed = Names
    BY <2>1, ValuesFacts
  <2>3. Load(file) = typed
    BY <2>1, <2>2, FormAssumption, LoadOfText
  <2>4. typed[name] \in Seq(Char)
    BY <2>2, ConfigNames
  <2>5. Shown(name) = typed[name]
    BY <2>2, <2>3, <2>4, EscapedIsRead DEF Shown
  <2> QED
    BY <2>4, <2>5, FingerprintFacts
<1> QED
  BY <1>1, FormInvariance, PTL
=============================================================================
