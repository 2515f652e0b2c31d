------------------------- MODULE KsFrameworkProofs -------------------------
(***************************************************************************)
(* First the life cycle of one application (KsApplication), for every set  *)
(* of components.  TypeOK and the stage order are not inductive as they    *)
(* stand.  While a component's init or postInit runs, the state the loop   *)
(* will store when the method returns depends on the state it was          *)
(* dispatched from, even if the component has meanwhile marked itself for  *)
(* removal, so the invariant speaks of that effective state; and the       *)
(* history variables have to be tied to the list and to the iterator.      *)
(*                                                                         *)
(* Then the framework as a whole, for every number of application classes: *)
(* it implements the rotator, which is a round robin, and what holds of    *)
(* one application's life cycle holds of one application after the other.  *)
(***************************************************************************)
EXTENDS KsFramework, SequenceTheorems, TLAPS

\* The state a method is dispatched from.
DispatchedFrom(m) == CASE m = "init"     -> "NotInitialized"
                       [] m = "postInit" -> "Initialized"
                       [] OTHER          -> "Active"

\* The state of the component at position i that decides its next stage.
Effective(i) == IF call # "none" /\ i = Cursor THEN DispatchedFrom(call)
                                              ELSE componentState[components[i]]

\* StagesOrdered, on effective states.
StagesInv ==
    \A i, j \in 1..Len(components) :
        (i < j /\ Effective(i) # "ToRemove" /\ Effective(j) # "ToRemove")
        => Level(Effective(i))
             <= Level(Effective(j)) + (IF Passed(i) /\ ~Passed(j) THEN 1 ELSE 0)

\* A running method belongs to the component under the iterator, which is still
\* in the state it was dispatched from unless it has marked itself.
CallInv ==
    call # "none" =>
        componentState[Current] \in {DispatchedFrom(call), "ToRemove"}

\* The history variables refer to existing objects; what the pass has dealt
\* with has been through init.
HistoryInv ==
    /\ atStart \subseteq Component /\ visited \subseteq Component
    /\ marked \subseteq Component /\ due \subseteq marked
    /\ phase = "pass" => \A c \in atStart : componentState[c] # "Absent"
    /\ phase = "pass" => \A c \in visited :
          componentState[c] \in {"Initialized", "Active", "ToRemove"}

\* Marks that count are kept, and are out of reach of the running method.
MarkInv ==
    /\ MarkIsKept
    /\ call \in {"init", "postInit"} => Current \notin marked
    /\ phase = "pass" => due \subseteq atStart \ visited
    /\ call # "none" => Current \notin due

IInv ==
    /\ TypeOK /\ StagesInv /\ CallInv /\ HistoryInv
    /\ PassCoversList /\ MarkInv /\ PostInitSeesInitialised

-----------------------------------------------------------------------------
(* The two list operations. *)

\* push_front shifts every element by one position.
LEMMA ConsFacts ==
    ASSUME NEW S, NEW s \in Seq(S), NEW e \in S
    PROVE  /\ Cons(e, s) \in Seq(S)
           /\ Len(Cons(e, s)) = Len(s) + 1
           /\ \A i \in 1..Len(s) + 1 :
                 Cons(e, s)[i] = IF i = 1 THEN e ELSE s[i - 1]
BY DEF Cons

\* erase closes the gap at the erased position.
LEMMA RemoveAtFacts ==
    ASSUME NEW S, NEW s \in Seq(S), NEW k \in 1..Len(s)
    PROVE  /\ RemoveAt(s, k) \in Seq(S)
           /\ Len(RemoveAt(s, k)) = Len(s) - 1
           /\ \A i \in 1..Len(s) - 1 :
                 RemoveAt(s, k)[i] = IF i < k THEN s[i] ELSE s[i + 1]
<1> DEFINE a == SubSeq(s, 1, k - 1)
           b == SubSeq(s, k + 1, Len(s))
<1>1. a \in Seq(S) /\ Len(a) = k - 1 /\ \A i \in 1..k - 1 : a[i] = s[i]
  BY SubSeqProperties
<1>2. b \in Seq(S) /\ Len(b) = Len(s) - k
      /\ \A i \in 1..Len(s) - k : b[i] = s[k + i]
  BY SubSeqProperties
<1>3. RemoveAt(s, k) = a \o b
  BY DEF RemoveAt
<1> HIDE DEF a, b
<1>4. /\ a \o b \in Seq(S)
      /\ Len(a \o b) = Len(a) + Len(b)
      /\ \A i \in 1..Len(a) + Len(b) :
            (a \o b)[i] = IF i <= Len(a) THEN a[i] ELSE b[i - Len(a)]
  BY <1>1, <1>2, ConcatProperties
<1>5. k \in Nat /\ Len(s) \in Nat /\ 1 <= k /\ k <= Len(s)
  OBVIOUS
<1>6. RemoveAt(s, k) \in Seq(S) /\ Len(RemoveAt(s, k)) = Len(s) - 1
  BY <1>1, <1>2, <1>3, <1>4, <1>5
<1>7. ASSUME NEW i \in 1..Len(s) - 1
      PROVE RemoveAt(s, k)[i] = IF i < k THEN s[i] ELSE s[i + 1]
  <2>1. CASE i < k
    BY <2>1, <1>1, <1>2, <1>3, <1>4, <1>5
  <2>2. CASE i >= k
    <3>1. i - (k - 1) \in 1..Len(s) - k /\ k + (i - (k - 1)) = i + 1
      BY <2>2, <1>5
    <3>2. (a \o b)[i] = b[i - (k - 1)]
      BY <2>2, <1>1, <1>2, <1>4, <1>5
    <3>3. b[i - (k - 1)] = s[k + (i - (k - 1))]
      BY <3>1, <1>2
    <3>4. (a \o b)[i] = s[i + 1]
      BY <3>1, <3>2, <3>3
    <3>5. ~(i < k)
      BY <2>2, <1>5
    <3> QED
      BY <3>4, <3>5, <1>3
  <2> QED
    BY <2>1, <2>2, <1>5
<1> QED
  BY <1>6, <1>7

\* While it refers to an element, the iterator is a position of the list.
LEMMA CursorFacts ==
    ASSUME TypeOK
    PROVE  /\ Len(components) \in Nat /\ it \in Nat /\ it <= Len(components)
           /\ Cursor \in 1..Len(components) + 1
           /\ it > 0 => Cursor \in 1..Len(components) /\ Current \in Component
           /\ it = 0 => Cursor = Len(components) + 1
           /\ call # "none" => phase = "pass" /\ it > 0
BY DEF TypeOK, Cursor, Current

-----------------------------------------------------------------------------
(* The invariant holds initially and is kept by every action. *)

LEMMA InitInv == Init => IInv
BY DEF Init, IInv, TypeOK, StagesInv, CallInv, HistoryInv, MarkInv, MarkIsKept,
       PassCoversList, PostInitSeesInitialised, ComponentState, Phase, Call

LEMMA AddComponentInv ==
    ASSUME IInv, NEW c \in Component, AddComponent(c)
    PROVE  IInv'
<1> DEFINE n == Len(components)
<1>1. TypeOK /\ n \in Nat /\ components \in Seq(Component)
  BY CursorFacts DEF IInv, TypeOK
<1>2. /\ components' \in Seq(Component)
      /\ Len(components') = n + 1
      /\ \A i \in 1..n + 1 :
            components'[i] = IF i = 1 THEN c ELSE components[i - 1]
  <2>1. components' = Cons(c, components)
    BY DEF AddComponent
  <2> HIDE DEF n
  <2>2. /\ Cons(c, components) \in Seq(Component)
        /\ Len(Cons(c, components)) = Len(components) + 1
        /\ \A i \in 1..Len(components) + 1 :
              Cons(c, components)[i] = IF i = 1 THEN c ELSE components[i - 1]
    BY <1>1, ConsFacts
  <2> QED
    BY <2>1, <2>2 DEF n
<1>3. /\ phase' = phase /\ it' = it /\ call' = call
      /\ atStart' = atStart /\ visited' = visited
      /\ marked' = marked /\ due' = due
      /\ componentState[c] = "Absent"
      /\ componentState' = [componentState EXCEPT ![c] = "NotInitialized"]
  BY DEF AddComponent, historyVars
<1>4. Cursor' = Cursor + 1 /\ (it > 0 => Current' = Current)
  BY <1>1, <1>2, <1>3, CursorFacts DEF Cursor, Current
<1>5. /\ componentState' \in [Component -> ComponentState]
      /\ componentState'[c] = "NotInitialized"
      /\ \A d \in Component : d # c => componentState'[d] = componentState[d]
  BY <1>1, <1>3 DEF TypeOK, ComponentState
<1>6. \A i \in 1..n : components[i] # c /\ components[i] \in Component
  BY <1>1, <1>3 DEF TypeOK
<1>7. TypeOK'
  <2>1. /\ phase' \in Phase /\ call' \in Call /\ it' \in 0..Len(components')
        /\ call' # "none" => phase' = "pass" /\ it' > 0
    BY <1>1, <1>2, <1>3 DEF TypeOK
  <2>2. ASSUME NEW i \in 1..n + 1, NEW j \in 1..n + 1,
               components'[i] = components'[j]
        PROVE  i = j
    <3>1. \A k \in 1..n + 1 : k # 1 => k - 1 \in 1..n /\ components'[k] # c
      BY <1>1, <1>2, <1>6
    <3>2. CASE i = 1 \/ j = 1
      BY <2>2, <3>1, <3>2, <1>1, <1>2
    <3>3. CASE i # 1 /\ j # 1
      <4>1. components[i - 1] = components[j - 1]
        BY <2>2, <3>3, <1>1, <1>2
      <4>2. i - 1 = j - 1
        BY <4>1, <3>1, <3>3 DEF TypeOK, IInv
      <4> QED
        BY <4>2, <1>1
    <3> QED
      BY <3>2, <3>3
  <2>3. \A d \in Component :
           componentState'[d] # "Absent" <=>
             \E i \in 1..n + 1 : components'[i] = d
    <3> SUFFICES ASSUME NEW d \in Component
                 PROVE  componentState'[d] # "Absent" <=>
                          \E i \in 1..n + 1 : components'[i] = d
      OBVIOUS
    <3>1. CASE d = c
      BY <3>1, <1>1, <1>2, <1>5
    <3>2. CASE d # c
      <4>1. (\E i \in 1..n + 1 : components'[i] = d)
              <=> \E i \in 1..n : components[i] = d
        <5>1. ASSUME NEW i \in 1..n, components[i] = d
              PROVE i + 1 \in 1..n + 1 /\ components'[i + 1] = d
          BY <5>1, <1>1, <1>2
        <5>2. ASSUME NEW i \in 1..n + 1, components'[i] = d
              PROVE i - 1 \in 1..n /\ components[i - 1] = d
          BY <5>2, <3>2, <1>1, <1>2
        <5> QED
          BY <5>1, <5>2
      <4> QED
        BY <4>1, <3>2, <1>1, <1>5 DEF TypeOK
    <3> QED
      BY <3>1, <3>2
  <2> QED
    BY <2>1, <2>2, <2>3, <1>2, <1>5 DEF TypeOK
<1>8. StagesInv'
  <2> SUFFICES ASSUME NEW i \in 1..n + 1, NEW j \in 1..n + 1, i < j,
                      Effective(i)' # "ToRemove", Effective(j)' # "ToRemove"
               PROVE  Level(Effective(i)')
                        <= Level(Effective(j)')
                             + (IF Passed(i)' /\ ~Passed(j)' THEN 1 ELSE 0)
    BY <1>2 DEF StagesInv
  <2>1. \A k \in 2..n + 1 : /\ k - 1 \in 1..n
                            /\ Effective(k)' = Effective(k - 1)
                            /\ Passed(k)' = Passed(k - 1)
    BY <1>1, <1>2, <1>3, <1>4, <1>5, <1>6, CursorFacts DEF Effective, Passed
  <2>2. CASE i = 1
    <3>1. Effective(1)' = "NotInitialized"
      BY <1>1, <1>2, <1>3, <1>4, <1>5, CursorFacts DEF Effective
    <3> QED
      BY <2>2, <3>1 DEF Level
  <2>3. CASE i > 1
    BY <2>1, <2>3, <1>1 DEF IInv, StagesInv
  <2> QED
    BY <2>2, <2>3
<1>9. CallInv'
  BY <1>1, <1>3, <1>4, <1>5, CursorFacts DEF IInv, CallInv, DispatchedFrom
<1>10. HistoryInv'
  BY <1>3, <1>5 DEF IInv, HistoryInv
<1>11. PassCoversList'
  <2> SUFFICES ASSUME phase = "pass", NEW i \in 1..n + 1
               PROVE  i >= Cursor' <=> components'[i] \in atStart \ visited
    BY <1>2, <1>3 DEF IInv, PassCoversList
  <2>1. CASE i = 1
    BY <2>1, <1>1, <1>2, <1>3, <1>4, CursorFacts DEF IInv, HistoryInv
  <2>2. CASE i > 1
    BY <2>2, <1>1, <1>2, <1>4, CursorFacts DEF IInv, PassCoversList
  <2> QED
    BY <2>1, <2>2
<1>12. MarkInv'
  BY <1>1, <1>3, <1>4, <1>5, CursorFacts DEF IInv, HistoryInv, MarkInv, MarkIsKept
<1>13. PostInitSeesInitialised'
  BY <1>3, <1>5 DEF IInv, HistoryInv, PostInitSeesInitialised
<1> QED
  BY <1>7, <1>8, <1>9, <1>10, <1>11, <1>12, <1>13 DEF IInv

LEMMA MarkToRemoveInv ==
    ASSUME IInv, NEW c \in Component, MarkToRemove(c)
    PROVE  IInv'
<1>1. TypeOK /\ Len(components) \in Nat
  BY CursorFacts DEF IInv
<1>2. /\ components' = components /\ phase' = phase /\ it' = it /\ call' = call
      /\ atStart' = atStart /\ visited' = visited /\ due' = due
      /\ componentState[c] \notin {"Absent", "ToRemove"}
      /\ componentState' = [componentState EXCEPT ![c] = "ToRemove"]
      /\ marked' = IF call \in {"init", "postInit"} /\ c = Current
                   THEN marked ELSE marked \cup {c}
  BY DEF MarkToRemove
<1>3. Cursor' = Cursor /\ Current' = Current
  BY <1>2 DEF Cursor, Current
<1>4. /\ componentState' \in [Component -> ComponentState]
      /\ componentState'[c] = "ToRemove"
      /\ \A d \in Component : d # c => componentState'[d] = componentState[d]
  BY <1>1, <1>2 DEF TypeOK, ComponentState
<1>5. TypeOK'
  BY <1>1, <1>2, <1>4 DEF TypeOK
<1>6. StagesInv'
  <2>1. ASSUME NEW i \in 1..Len(components), Effective(i)' # "ToRemove"
        PROVE  Effective(i)' = Effective(i)
    BY <2>1, <1>1, <1>2, <1>3, <1>4 DEF Effective, TypeOK
  <2>2. \A i \in 1..Len(components) : Passed(i)' = Passed(i)
    BY <1>2, <1>3 DEF Passed
  <2>3. Len(components') = Len(components)
    BY <1>2
  <2> QED
    BY <2>1, <2>2, <2>3 DEF IInv, StagesInv
<1>7. CallInv'
  BY <1>1, <1>2, <1>3, <1>4, CursorFacts DEF IInv, CallInv, DispatchedFrom
<1>8. HistoryInv'
  BY <1>2, <1>4 DEF IInv, HistoryInv
<1>9. PassCoversList'
  BY <1>2, <1>3 DEF IInv, PassCoversList
<1>10. MarkInv'
  <2>1. MarkIsKept'
    BY <1>2, <1>4 DEF IInv, HistoryInv, MarkInv, MarkIsKept
  <2> QED
    BY <2>1, <1>2, <1>3 DEF IInv, MarkInv
<1>11. PostInitSeesInitialised'
  BY <1>2, <1>4 DEF IInv, HistoryInv, PostInitSeesInitialised
<1> QED
  BY <1>5, <1>6, <1>7, <1>8, <1>9, <1>10, <1>11 DEF IInv

\* Steps that touch neither the list, nor a component's state, nor the call:
\* they only open, close or abandon a pass.
LEMMA PhaseStepInv ==
    ASSUME IInv, (\E ok \in BOOLEAN : InitReturns(ok)) \/ BeginPass \/ EndPass
    PROVE  IInv'
<1>1. TypeOK /\ Len(components) \in Nat
  BY CursorFacts DEF IInv
<1>2. /\ components' = components /\ componentState' = componentState
      /\ call' = "none" /\ call = "none" /\ marked' = marked
      /\ phase' \in {"idle", "stopped", "pass"}
  BY <1>1 DEF InitReturns, BeginPass, EndPass, historyVars, TypeOK
<1>3. \A i \in 1..Len(components) : Effective(i)' = Effective(i)
  BY <1>2 DEF Effective
<1>4. CallInv'
  BY <1>2 DEF CallInv
<1>5. PostInitSeesInitialised'
  BY <1>2 DEF PostInitSeesInitialised
<1>6. CASE \E ok \in BOOLEAN : InitReturns(ok)
  <2>1. /\ phase = "init" /\ phase' \in {"idle", "stopped"} /\ it' = it
        /\ atStart' = atStart /\ visited' = visited /\ due' = due
    BY <1>6 DEF InitReturns, historyVars
  <2>2. TypeOK'
    BY <1>1, <1>2, <2>1 DEF TypeOK, Phase
  <2>3. StagesInv'
    <3>1. \A i \in 1..Len(components) : ~Passed(i)
      BY <2>1 DEF Passed
    <3>2. \A i \in 1..Len(components) : Level(Effective(i)) \in 0..2
      BY DEF Level
    <3> QED
      BY <1>2, <1>3, <3>1, <3>2 DEF IInv, StagesInv
  <2> QED
    BY <1>2, <1>4, <1>5, <2>1, <2>2, <2>3
    DEF IInv, HistoryInv, PassCoversList, MarkInv, MarkIsKept
<1>7. CASE BeginPass
  <2>1. /\ phase = "idle" /\ phase' = "pass" /\ it' = Len(components)
        /\ atStart' = ToSet(components) /\ visited' = {} /\ due' = marked
    BY <1>7 DEF BeginPass
  <2>2. atStart' = {components[i] : i \in 1..Len(components)}
    BY <2>1, <1>1 DEF TypeOK, ToSet
  <2>3. TypeOK'
    BY <1>1, <1>2, <2>1 DEF TypeOK, Phase
  <2>4. Cursor' = 1
    BY <1>1, <1>2, <2>1 DEF Cursor
  <2>5. StagesInv'
    BY <1>1, <1>2, <1>3, <2>1, <2>4 DEF IInv, StagesInv, Passed
  <2>6. HistoryInv'
    BY <1>1, <1>2, <2>1, <2>2 DEF IInv, HistoryInv, TypeOK
  <2>7. PassCoversList'
    BY <1>1, <1>2, <2>1, <2>2, <2>4 DEF PassCoversList
  <2>8. MarkInv'
    BY <1>1, <1>2, <2>1, <2>2 DEF IInv, MarkInv, MarkIsKept, HistoryInv, TypeOK
  <2> QED
    BY <1>4, <1>5, <2>3, <2>5, <2>6, <2>7, <2>8 DEF IInv
<1>8. CASE EndPass
  <2>1. /\ phase = "pass" /\ it = 0 /\ phase' = "idle" /\ it' = it
        /\ atStart' = atStart /\ visited' = visited /\ due' = due
    BY <1>8 DEF EndPass, historyVars
  <2>2. TypeOK'
    BY <1>1, <1>2, <2>1 DEF TypeOK, Phase
  <2>3. \A i \in 1..Len(components) : Passed(i) /\ ~Passed(i)'
    BY <1>1, <2>1, CursorFacts DEF Passed
  <2>4. StagesInv'
    BY <1>2, <1>3, <2>3 DEF IInv, StagesInv
  <2> QED
    BY <1>2, <1>4, <1>5, <2>1, <2>2, <2>4
    DEF IInv, HistoryInv, PassCoversList, MarkInv, MarkIsKept
<1> QED
  BY <1>6, <1>7, <1>8

LEMMA CallMethodInv ==
    ASSUME IInv, CallMethod
    PROVE  IInv'
<1>1. TypeOK /\ Len(components) \in Nat
  BY CursorFacts DEF IInv
<1>2. /\ components' = components /\ componentState' = componentState
      /\ phase' = phase /\ it' = it /\ phase = "pass" /\ it > 0 /\ call = "none"
      /\ atStart' = atStart /\ visited' = visited
      /\ marked' = marked /\ due' = due
      /\ componentState[Current] # "ToRemove"
      /\ call' = Method(componentState[Current])
  BY DEF CallMethod, historyVars
<1>3. Cursor' = Cursor /\ Current' = Current
  BY <1>2 DEF Cursor, Current
<1>4. Cursor \in 1..Len(components) /\ Current \in Component
  BY <1>1, <1>2, CursorFacts
<1>5. componentState[Current] \in {"NotInitialized", "Initialized", "Active"}
  BY <1>1, <1>2, <1>4 DEF TypeOK, Current, ComponentState
<1>6. /\ call' \in {"init", "postInit", "loop"}
      /\ DispatchedFrom(call') = componentState[Current]
  BY <1>2, <1>5 DEF Method, DispatchedFrom
<1>7. TypeOK'
  BY <1>1, <1>2, <1>6 DEF TypeOK, Call
<1>8. StagesInv'
  <2>1. \A i \in 1..Len(components) :
           Effective(i)' = Effective(i) /\ Passed(i)' = Passed(i)
    BY <1>2, <1>3, <1>6 DEF Effective, Passed, Current
  <2> QED
    BY <2>1, <1>2 DEF IInv, StagesInv
<1>9. CallInv'
  BY <1>2, <1>3, <1>6 DEF CallInv
<1>10. HistoryInv' /\ PassCoversList'
  BY <1>2, <1>3 DEF IInv, HistoryInv, PassCoversList
<1>11. MarkInv'
  BY <1>2, <1>3, <1>6 DEF IInv, HistoryInv, MarkInv, MarkIsKept
<1>12. PostInitSeesInitialised'
  \* What the pass has dealt with is in visited; what is still to come is, by
  \* the stage order, not behind the component whose postInit starts.
  <2> SUFFICES ASSUME call' = "postInit", NEW c \in atStart
               PROVE  componentState[c] \in {"Initialized", "Active", "ToRemove"}
    BY <1>2 DEF PostInitSeesInitialised
  <2>1. componentState[Current] = "Initialized"
    BY <1>2, <1>5 DEF Method
  <2>2. CASE c \in visited
    BY <2>2, <1>2 DEF IInv, HistoryInv
  <2>3. CASE c \notin visited
    <3>1. PICK i \in 1..Len(components) : components[i] = c
      BY <1>1, <1>2 DEF IInv, HistoryInv, TypeOK
    <3>2. i >= Cursor
      BY <3>1, <2>3, <1>2 DEF IInv, PassCoversList
    <3>3. CASE i = Cursor
      BY <3>1, <3>3, <2>1 DEF Current
    <3>4. CASE i > Cursor /\ componentState[c] # "ToRemove"
      <4>1. Effective(i) = componentState[c]
            /\ Effective(Cursor) = "Initialized"
        BY <3>1, <3>4, <2>1, <1>2 DEF Effective, Current
      <4>2. ~Passed(Cursor)
        BY <1>4 DEF Passed
      <4>3. Level("Initialized") <= Level(componentState[c])
        BY <4>1, <4>2, <3>4, <1>4, <3>1 DEF IInv, StagesInv, Level
      <4> QED
        BY <4>3 DEF Level
    <3> QED
      BY <3>2, <3>3, <3>4, <1>4
  <2> QED
    BY <2>2, <2>3
<1> QED
  BY <1>7, <1>8, <1>9, <1>10, <1>11, <1>12 DEF IInv

LEMMA MethodFailsInv ==
    ASSUME IInv, MethodFails
    PROVE  IInv'
<1>1. TypeOK /\ Len(components) \in Nat /\ phase = "pass" /\ it > 0
  BY CursorFacts DEF IInv, MethodFails
<1>2. /\ components' = components /\ componentState' = componentState
      /\ phase' = "stopped" /\ it' = it /\ call # "none" /\ call' = "none"
      /\ atStart' = atStart /\ visited' = visited
      /\ marked' = marked /\ due' = due
  BY DEF MethodFails, historyVars
<1>3. Cursor' = Cursor /\ Current' = Current
  BY <1>2 DEF Cursor, Current
<1>4. TypeOK'
  BY <1>1, <1>2 DEF TypeOK, Call, Phase
<1>5. StagesInv'
  <2>1. \A i \in 1..Len(components) :
           /\ Effective(i)' # "ToRemove" => Effective(i)' = Effective(i)
           /\ Passed(i)' = Passed(i)
    BY <1>1, <1>2, <1>3 DEF Effective, Passed, IInv, CallInv, Current
  <2> QED
    BY <2>1, <1>2 DEF IInv, StagesInv
<1> QED
  BY <1>2, <1>4, <1>5
  DEF IInv, CallInv, HistoryInv, PassCoversList, MarkInv, MarkIsKept,
      PostInitSeesInitialised

LEMMA MethodSucceedsInv ==
    ASSUME IInv, MethodSucceeds
    PROVE  IInv'
<1> DEFINE n == Len(components)
           before == DispatchedFrom(call)
           after == StateAfter(call, componentState[Current])
<1>1. /\ TypeOK /\ n \in Nat /\ it \in Nat /\ phase = "pass" /\ it > 0
      /\ Cursor \in 1..n /\ Current \in Component
      /\ Cursor = n - it + 1
  BY CursorFacts DEF IInv, MethodSucceeds, Cursor
<1>2. /\ components' = components /\ phase' = phase /\ it' = it - 1
      /\ call # "none" /\ call' = "none"
      /\ atStart' = atStart /\ visited' = visited \cup {Current}
      /\ marked' = marked /\ due' = due
      /\ componentState' = [componentState EXCEPT ![Current] = after]
  BY DEF MethodSucceeds
<1>3. Cursor' = Cursor + 1
  BY <1>1, <1>2 DEF Cursor
<1>4. /\ call \in {"init", "postInit", "loop"}
      /\ componentState[Current] \in {before, "ToRemove"}
  BY <1>1, <1>2 DEF IInv, CallInv, TypeOK, Call
\* The stage stored: one further for init and postInit, the same for loop.
<1>5. /\ after \in {"Initialized", "Active", "ToRemove"}
      /\ after # "ToRemove" =>
            /\ Level(after) >= Level(before)
            /\ Level(after) <= Level(before) + 1
            /\ Level(after) = Level(before) => Level(after) = 2
      /\ after = "ToRemove" => call = "loop"
      /\ call = "loop" => after = componentState[Current]
  BY <1>4 DEF StateAfter, DispatchedFrom, Level
<1> HIDE DEF after, before
<1>6. /\ componentState' \in [Component -> ComponentState]
      /\ componentState'[Current] = after
      /\ \A d \in Component : d # Current => componentState'[d] = componentState[d]
  BY <1>1, <1>2, <1>5 DEF TypeOK, ComponentState
<1>7. TypeOK'
  <2>1. componentState[Current] # "Absent" /\ after # "Absent"
    BY <1>1, <1>5 DEF TypeOK, Current
  <2> QED
    BY <1>1, <1>2, <1>6, <2>1 DEF TypeOK, Call
<1>8. StagesInv'
  <2> SUFFICES ASSUME NEW i \in 1..n, NEW j \in 1..n, i < j,
                      Effective(i)' # "ToRemove", Effective(j)' # "ToRemove"
               PROVE  Level(Effective(i)')
                        <= Level(Effective(j)')
                             + (IF Passed(i)' /\ ~Passed(j)' THEN 1 ELSE 0)
    BY <1>2 DEF StagesInv
  <2>1. \A k \in 1..n :
           k = Cursor => Effective(k)' = after /\ Effective(k) = before
    BY <1>1, <1>2, <1>6 DEF Effective, Current, before
  <2>2. ASSUME NEW k \in 1..n, k # Cursor
        PROVE  Effective(k)' = Effective(k)
    BY <2>2, <1>1, <1>2, <1>6 DEF Effective, Current, TypeOK
  <2>3. \A k \in 1..n : /\ Passed(k) <=> k < Cursor
                        /\ Passed(k)' <=> k <= Cursor
    BY <1>1, <1>2, <1>3 DEF Passed
  <2>4. \A k \in 1..n : Level(Effective(k)) \in 0..2
    BY DEF Level
  <2>5. Level(after) \in 0..2 /\ Level(before) \in 0..2 /\ before # "ToRemove"
    BY DEF Level, before, DispatchedFrom
  <2>6. Level(Effective(i)) <= Level(Effective(j))
                                 + (IF Passed(i) /\ ~Passed(j) THEN 1 ELSE 0)
    <3>1. Effective(i) # "ToRemove" /\ Effective(j) # "ToRemove"
      BY <2>1, <2>2, <2>5
    <3> QED
      BY <3>1 DEF IInv, StagesInv
  <2>7. CASE i = Cursor
    BY <2>1, <2>2, <2>3, <2>4, <2>5, <2>6, <2>7, <1>1, <1>5
  <2>8. CASE j = Cursor
    BY <2>1, <2>2, <2>3, <2>4, <2>5, <2>6, <2>8, <1>1, <1>5
  <2>9. CASE i # Cursor /\ j # Cursor
    BY <2>2, <2>3, <2>6, <2>9, <1>1
  <2> QED
    BY <2>7, <2>8, <2>9
<1>9. CallInv'
  BY <1>2 DEF CallInv
<1>10. HistoryInv'
  BY <1>1, <1>2, <1>5, <1>6 DEF IInv, HistoryInv
<1>11. PassCoversList'
  <2>1. Current \in atStart \ visited
    BY <1>1 DEF IInv, PassCoversList, Current
  <2>2. \A i \in 1..n : i # Cursor => components[i] # Current
    BY <1>1 DEF TypeOK, Current
  <2> QED
    BY <2>1, <2>2, <1>1, <1>2, <1>3 DEF IInv, PassCoversList, Current
<1>12. MarkInv'
  <2>1. \A d \in marked : componentState'[d] = "ToRemove"
    BY <1>1, <1>2, <1>4, <1>5, <1>6 DEF IInv, HistoryInv, MarkInv, MarkIsKept
  <2>2. Current \notin due
    BY <1>2 DEF IInv, MarkInv
  <2> QED
    BY <2>1, <2>2, <1>1, <1>2 DEF IInv, MarkInv, MarkIsKept
<1>13. PostInitSeesInitialised'
  BY <1>2 DEF PostInitSeesInitialised
<1> QED
  BY <1>7, <1>8, <1>9, <1>10, <1>11, <1>12, <1>13 DEF IInv

LEMMA EraseInv ==
    ASSUME IInv, Erase
    PROVE  IInv'
<1> DEFINE n == Len(components)
           k == Cursor
<1>1. /\ TypeOK /\ n \in Nat /\ it \in Nat /\ it <= n
      /\ phase = "pass" /\ it > 0 /\ call = "none"
      /\ k \in 1..n /\ Current \in Component /\ k = n - it + 1
      /\ components \in Seq(Component)
  BY CursorFacts DEF IInv, Erase, Cursor, TypeOK
<1>2. /\ phase' = phase /\ it' = it - 1 /\ call' = call
      /\ componentState[Current] = "ToRemove"
      /\ componentState' = [componentState EXCEPT ![Current] = "Absent"]
      /\ atStart' = atStart \ {Current} /\ visited' = visited \ {Current}
      /\ marked' = marked \ {Current} /\ due' = due \ {Current}
  BY DEF Erase
<1>3. /\ components' \in Seq(Component) /\ Len(components') = n - 1
      /\ \A i \in 1..n - 1 :
            components'[i] = IF i < k THEN components[i] ELSE components[i + 1]
  <2>1. components' = RemoveAt(components, k)
    BY DEF Erase
  <2> HIDE DEF k
  <2> QED
    BY <2>1, <1>1, RemoveAtFacts
<1>4. Cursor' = k
  BY <1>1, <1>2, <1>3 DEF Cursor
<1>5. /\ componentState' \in [Component -> ComponentState]
      /\ componentState'[Current] = "Absent"
      /\ \A d \in Component : d # Current => componentState'[d] = componentState[d]
  BY <1>1, <1>2 DEF TypeOK, ComponentState
\* Every remaining element stood at an old position other than the iterator's,
\* on the same side of it.
<1> DEFINE Old(i) == IF i < k THEN i ELSE i + 1
<1>6. \A i \in 1..n - 1 :
         /\ Old(i) \in 1..n /\ Old(i) # k
         /\ components'[i] = components[Old(i)]
         /\ components'[i] # Current /\ components'[i] \in Component
         /\ i < k <=> Old(i) < k
  BY <1>1, <1>3 DEF TypeOK, Current
<1>7. \A i, j \in 1..n - 1 : (i < j <=> Old(i) < Old(j)) /\ (Old(i) = Old(j) => i = j)
  BY <1>1
<1>8. \A m \in 1..n : m # k => \E i \in 1..n - 1 : Old(i) = m
  <2> SUFFICES ASSUME NEW m \in 1..n, m # k
               PROVE  \E i \in 1..n - 1 : Old(i) = m
    OBVIOUS
  <2>1. CASE m < k
    BY <2>1, <1>1
  <2>2. CASE m > k
    <3>1. m - 1 \in 1..n - 1 /\ Old(m - 1) = m
      BY <2>2, <1>1
    <3> QED
      BY <3>1
  <2> QED
    BY <2>1, <2>2, <1>1
<1> HIDE DEF Old, k
<1>9. TypeOK'
  <2>1. ASSUME NEW i \in 1..n - 1, NEW j \in 1..n - 1,
               components'[i] = components'[j]
        PROVE  i = j
    <3>1. Old(i) \in 1..n /\ Old(j) \in 1..n
          /\ components[Old(i)] = components[Old(j)]
      BY <2>1, <1>6
    <3>2. Old(i) = Old(j)
      BY <3>1, <1>1 DEF TypeOK
    <3> QED
      BY <3>2, <1>7
  <2>2. ASSUME NEW d \in Component
        PROVE  componentState'[d] # "Absent" <=>
                 \E i \in 1..n - 1 : components'[i] = d
    <3>1. CASE d = Current
      BY <3>1, <1>5, <1>6
    <3>2. CASE d # Current
      <4>1. componentState'[d] # "Absent" <=> \E m \in 1..n : components[m] = d
        BY <3>2, <1>1, <1>5 DEF TypeOK
      <4>2. \A m \in 1..n : components[m] = d => m # k
        BY <3>2 DEF Current, k
      <4> QED
        BY <4>1, <4>2, <1>6, <1>8
    <3> QED
      BY <3>1, <3>2
  <2>3. it' \in 0..n - 1
    BY <1>1, <1>2
  <2> QED
    BY <2>1, <2>2, <2>3, <1>1, <1>2, <1>3, <1>5 DEF TypeOK
<1>10. StagesInv'
  <2>1. \A i \in 1..n - 1 : /\ Effective(i)' = Effective(Old(i))
                            /\ Passed(i)' = Passed(Old(i))
    BY <1>1, <1>2, <1>4, <1>5, <1>6 DEF Effective, Passed, k
  <2> SUFFICES ASSUME NEW i \in 1..n - 1, NEW j \in 1..n - 1, i < j,
                      Effective(i)' # "ToRemove", Effective(j)' # "ToRemove"
               PROVE  Level(Effective(i)')
                        <= Level(Effective(j)')
                             + (IF Passed(i)' /\ ~Passed(j)' THEN 1 ELSE 0)
    BY <1>3 DEF StagesInv
  <2>2. /\ Old(i) \in 1..n /\ Old(j) \in 1..n /\ Old(i) < Old(j)
        /\ Effective(Old(i)) # "ToRemove" /\ Effective(Old(j)) # "ToRemove"
    BY <2>1, <1>6, <1>7
  <2>3. Level(Effective(Old(i)))
          <= Level(Effective(Old(j)))
               + (IF Passed(Old(i)) /\ ~Passed(Old(j)) THEN 1 ELSE 0)
    BY <2>2 DEF IInv, StagesInv
  <2> QED
    BY <2>1, <2>3
<1>11. CallInv'
  BY <1>1, <1>2 DEF CallInv
<1>12. HistoryInv'
  BY <1>2, <1>5 DEF IInv, HistoryInv
<1>13. PassCoversList'
  <2> SUFFICES ASSUME NEW i \in 1..n - 1
               PROVE  i >= Cursor' <=> components'[i] \in atStart' \ visited'
    BY <1>1, <1>2, <1>3 DEF IInv, PassCoversList
  <2>1. i >= Cursor' <=> Old(i) >= k
    BY <1>1, <1>4, <1>6
  <2>2. Old(i) >= k <=> components[Old(i)] \in atStart \ visited
    BY <1>1, <1>6 DEF IInv, PassCoversList, k
  <2> QED
    BY <2>1, <2>2, <1>2, <1>6
<1>14. MarkInv'
  BY <1>1, <1>2, <1>5 DEF IInv, HistoryInv, MarkInv, MarkIsKept
<1>15. PostInitSeesInitialised'
  BY <1>1, <1>2 DEF PostInitSeesInitialised
<1> QED
  BY <1>9, <1>10, <1>11, <1>12, <1>13, <1>14, <1>15 DEF IInv

-----------------------------------------------------------------------------
(* The theorems. *)

LEMMA StepInv == IInv /\ [Next]_vars => IInv'
<1> SUFFICES ASSUME IInv, [Next]_vars PROVE IInv'
  OBVIOUS
<1>1. ASSUME NEW c \in Component, AddComponent(c) PROVE IInv'
  BY <1>1, AddComponentInv
<1>2. ASSUME NEW c \in Component, MarkToRemove(c) PROVE IInv'
  BY <1>2, MarkToRemoveInv
<1>3. CASE (\E ok \in BOOLEAN : InitReturns(ok)) \/ BeginPass \/ EndPass
  BY <1>3, PhaseStepInv
<1>4. CASE CallMethod
  BY <1>4, CallMethodInv
<1>5. CASE MethodSucceeds
  BY <1>5, MethodSucceedsInv
<1>6. CASE MethodFails
  BY <1>6, MethodFailsInv
<1>7. CASE Erase
  BY <1>7, EraseInv
<1>8. CASE UNCHANGED vars
  BY <1>8 DEF vars, IInv, TypeOK, StagesInv, Effective, Passed, Cursor, Current,
     CallInv, HistoryInv, PassCoversList, MarkInv, MarkIsKept,
     PostInitSeesInitialised
<1> QED
  BY <1>1, <1>2, <1>3, <1>4, <1>5, <1>6, <1>7, <1>8
  DEF Next, MethodReturns, LoopStep

\* The inductive invariant holds in every reachable state.
THEOREM Invariance == Spec => []IInv
<1>1. Init => IInv
  BY InitInv
<1>2. IInv /\ [Next]_vars => IInv'
  BY StepInv
<1> QED
  BY <1>1, <1>2, PTL DEF Spec

\* The variables keep their types, the iterator stays inside the list, and the
\* list owns every existing component exactly once.
THEOREM TypeCorrect == Spec => []TypeOK
<1>1. IInv => TypeOK
  BY DEF IInv
<1> QED
  BY <1>1, Invariance, PTL

\* The effective states are the states, but for a component that has marked
\* itself.
LEMMA StagesAreOrdered == IInv => StagesOrdered
<1> SUFFICES ASSUME IInv,
                    NEW i \in 1..Len(components), NEW j \in 1..Len(components),
                    i < j,
                    componentState[components[i]] # "ToRemove",
                    componentState[components[j]] # "ToRemove"
             PROVE  Level(componentState[components[i]])
                      <= Level(componentState[components[j]])
                           + (IF Passed(i) /\ ~Passed(j) THEN 1 ELSE 0)
  BY DEF StagesOrdered
<1>1. \A k \in 1..Len(components) :
         componentState[components[k]] # "ToRemove"
           => Effective(k) = componentState[components[k]]
  BY DEF IInv, CallInv, Effective, Current
<1> QED
  BY <1>1 DEF IInv, StagesInv

\* The life cycle advances in list order in every interleaving of the loop with
\* components being added, marked and erased, and a postInit finds every
\* component of the pass initialised.
THEOREM InitialisationInOrder == Spec => []InitialisedInOrder
<1>1. IInv => InitialisedInOrder
  BY StagesAreOrdered DEF IInv, InitialisedInOrder
<1> QED
  BY <1>1, Invariance, PTL

\* A pass deals with each component exactly once.
THEOREM PassIsExact == Spec => []PassCoversList
<1>1. IInv => PassCoversList
  BY DEF IInv
<1> QED
  BY <1>1, Invariance, PTL

\* No pass ends with a component that was marked when it began.
LEMMA PassRemovesDue == IInv /\ EndPass => due = {}
<1> SUFFICES ASSUME IInv, EndPass PROVE due = {}
  OBVIOUS
<1>1. TypeOK /\ phase = "pass" /\ Cursor = Len(components) + 1
  BY CursorFacts DEF IInv, EndPass
<1>2. due \subseteq atStart \ visited
  BY <1>1 DEF IInv, MarkInv
<1>3. \A c \in atStart \ visited : FALSE
  <2> SUFFICES ASSUME NEW c \in atStart \ visited PROVE FALSE
    OBVIOUS
  <2>1. PICK i \in 1..Len(components) : components[i] = c
    BY <1>1 DEF IInv, HistoryInv, TypeOK
  <2>2. i >= Cursor
    BY <2>1, <1>1 DEF IInv, PassCoversList
  <2> QED
    BY <2>2, <1>1, CursorFacts
<1> QED
  BY <1>2, <1>3

\* A mark made outside the component's own init and postInit is kept, and the
\* component removed, at the latest by the pass that follows.
THEOREM MarkingRemoves == Spec => MarkRemoves
<1>1. IInv => MarkIsKept
  BY DEF IInv, MarkInv
<1>2. IInv /\ [Next]_vars => [EndPass => due = {}]_vars
  BY PassRemovesDue
<1> QED
  BY <1>1, <1>2, Invariance, PTL DEF Spec, MarkRemoves, RemovedNextCycle

-----------------------------------------------------------------------------
(* The framework. *)

\* What the phases mean for the rotator's two fields.
ControlInv ==
    /\ appIndex \in App /\ phase \in Phase
    /\ currentApplication \in App \cup {NoApp} /\ lastSpawned \in App \cup {NoApp}
    /\ phase # "stopped" => currentApplication # NoApp
    /\ phase = "init" => currentApplication = appIndex
    /\ call # "none" => phase = "pass"

\* Nothing of an application exists.
Blank ==
    /\ components = <<>> /\ componentState = [c \in Component |-> "Absent"]
    /\ it = 0 /\ call = "none"
    /\ atStart = {} /\ visited = {} /\ marked = {} /\ due = {}

\* The life cycle's invariant survives the end of an application because the
\* next one starts from nothing.
FrameworkInv == IInv /\ ControlInv /\ (currentApplication = NoApp => Blank)

-----------------------------------------------------------------------------
(* The rotator. *)

\* The counter steps to the successor class, also where it wraps by itself.
LEMMA NextIndexIsSuccessor ==
    ASSUME NEW i \in App
    PROVE  Rotator!NextIndex(i) = Rotator!Successor(i) /\ Rotator!NextIndex(i) \in App
<1>1. AppCount \in Nat /\ IndexMod \in Nat /\ IndexMod > 0 /\ AppCount > 0
      /\ AppCount <= IndexMod /\ i \in Nat /\ i < AppCount
  BY FrameworkAssumption DEF App
<1>2. CASE i + 1 < IndexMod
  <2>1. (i + 1) % IndexMod = i + 1
    BY <1>1, <1>2
  <2> QED
    BY <1>1, <2>1 DEF Rotator!NextIndex, Rotator!Successor, App
<1>3. CASE i + 1 = IndexMod
  <2>1. (i + 1) % IndexMod = 0
    BY <1>1, <1>3
  <2> QED
    BY <1>1, <1>3, <2>1 DEF Rotator!NextIndex, Rotator!Successor, App
<1> QED
  BY <1>1, <1>2, <1>3

\* The rotator never leaves the range of the spawner array, and the classes
\* take turns in their order, one application at a time.
THEOREM RoundRobin == Rotator!Spec => []RotationInTurn
<1> USE DEF RotationInTurn, Rotator!RotatorTypeOK, Rotator!InTurn, Rotator!App,
            Rotator!NoApp
<1>1. Rotator!Init => RotationInTurn
  BY FrameworkAssumption DEF Rotator!Init
<1>2. RotationInTurn /\ [Rotator!Next]_(Rotator!rotatorVars) => RotationInTurn'
  <2> SUFFICES ASSUME RotationInTurn, [Rotator!Next]_(Rotator!rotatorVars)
               PROVE  RotationInTurn'
    OBVIOUS
  <2>1. ASSUME NEW ok \in BOOLEAN, Rotator!Spawn(ok) PROVE RotationInTurn'
    <3>1. /\ appIndex \in App /\ appIndex # -1
          /\ appIndex' = Rotator!NextIndex(appIndex) /\ lastSpawned' = appIndex
          /\ Running' \in {appIndex, -1}
      BY <2>1, FrameworkAssumption DEF Rotator!Spawn, App
    <3>2. appIndex' = Rotator!Successor(appIndex) /\ appIndex' \in App
      BY <3>1, NextIndexIsSuccessor
    <3> QED
      BY <3>1, <3>2 DEF App
  <2>2. ASSUME NEW ok \in BOOLEAN, Rotator!Loop(ok) PROVE RotationInTurn'
    BY <2>2 DEF Rotator!Loop
  <2>3. CASE UNCHANGED Rotator!rotatorVars
    BY <2>3 DEF Rotator!rotatorVars
  <2> QED
    BY <2>1, <2>2, <2>3 DEF Rotator!Next
<1> QED
  BY <1>1, <1>2, PTL DEF Rotator!Spec

-----------------------------------------------------------------------------
(* The inductive invariant. *)

LEMMA BlankInv == Blank /\ phase \in {"init", "stopped"} => IInv
BY DEF Blank, IInv, TypeOK, StagesInv, CallInv, HistoryInv, MarkInv, MarkIsKept,
       PassCoversList, PostInitSeesInitialised, ComponentState, Phase, Call

LEMMA ControlInvInductive == ControlInv /\ [FrameworkNext]_frameworkVars => ControlInv'
<1> SUFFICES ASSUME ControlInv, [FrameworkNext]_frameworkVars PROVE ControlInv'
  OBVIOUS
<1> USE DEF ControlInv
<1>1. CASE SpawnApplication
  BY <1>1, FrameworkAssumption DEF SpawnApplication, App, NoApp, Phase
<1>2. ASSUME NEW ok \in BOOLEAN, FinishInit(ok) PROVE ControlInv'
  BY <1>2, NextIndexIsSuccessor DEF FinishInit, InitReturns, Phase
<1>3. CASE DestroyApplication
  BY <1>3 DEF DestroyApplication
<1>4. CASE ApplicationStep
  <2>1. UNCHANGED <<appIndex, currentApplication, lastSpawned>>
    BY <1>4 DEF ApplicationStep, rotation
  <2>2. ASSUME NEW c \in Component, AddComponent(c) \/ MarkToRemove(c)
        PROVE ControlInv'
    BY <2>1, <2>2 DEF AddComponent, MarkToRemove
  <2>3. CASE MethodReturns
    BY <2>1, <2>3 DEF MethodReturns, MethodSucceeds, MethodFails, Phase
  <2>4. CASE LoopStep
    BY <2>1, <2>4 DEF LoopStep, BeginPass, CallMethod, Erase, EndPass, Phase
  <2> QED
    BY <2>2, <2>3, <2>4, <1>4 DEF ApplicationStep
<1>5. CASE UNCHANGED frameworkVars
  BY <1>5 DEF frameworkVars, vars, rotation
<1> QED
  BY <1>1, <1>2, <1>3, <1>4, <1>5 DEF FrameworkNext

\* An application that does not exist takes no step.
LEMMA StepsNeedApplication ==
    ASSUME ControlInv, currentApplication = NoApp => Blank, ApplicationStep
    PROVE  currentApplication # NoApp
<1> SUFFICES ASSUME currentApplication = NoApp PROVE FALSE
  OBVIOUS
<1>1. phase = "stopped" /\ call = "none"
  BY DEF ControlInv, Blank
<1>2. ~MethodReturns /\ ~LoopStep
  BY <1>1 DEF MethodReturns, MethodSucceeds, MethodFails,
              LoopStep, BeginPass, CallMethod, Erase, EndPass
<1>3. \A c \in Component : ~AddComponent(c) /\ ~MarkToRemove(c)
  BY <1>1 DEF AddComponent, MarkToRemove, UserCodeRuns
<1> QED
  BY <1>2, <1>3 DEF ApplicationStep

LEMMA FrameworkStepInv ==
    FrameworkInv /\ [FrameworkNext]_frameworkVars => FrameworkInv'
<1>1. (Blank /\ phase \in {"init", "stopped"})' => IInv'
  BY BlankInv, PTL
<1>2. SUFFICES ASSUME FrameworkInv, [FrameworkNext]_frameworkVars
               PROVE  IInv' /\ (currentApplication' = NoApp => Blank')
  BY ControlInvInductive DEF FrameworkInv
<1>3. ControlInv /\ (currentApplication = NoApp => Blank)
  BY <1>2 DEF FrameworkInv
<1>4. CASE SpawnApplication
  <2>1. Blank' /\ phase' = "init"
    BY <1>3, <1>4 DEF SpawnApplication, Blank, historyVars
  <2>2. currentApplication' # NoApp
    BY <1>3, <1>4, FrameworkAssumption DEF SpawnApplication, ControlInv, App, NoApp
  <2> QED
    BY <1>1, <2>1, <2>2
<1>5. ASSUME NEW ok \in BOOLEAN, FinishInit(ok)
      PROVE  IInv' /\ (currentApplication' = NoApp => Blank')
  <2>1. Next
    BY <1>5 DEF FinishInit, Next
  <2>2. currentApplication' # NoApp
    BY <1>3, <1>5 DEF FinishInit, InitReturns, ControlInv
  <2> QED
    BY <1>2, <2>1, <2>2, StepInv DEF FrameworkInv
<1>6. CASE DestroyApplication
  <2>1. Blank' /\ phase' = "stopped"
    BY <1>3, <1>6 DEF DestroyApplication, ControlInv, Blank
  <2> QED
    BY <1>1, <2>1
<1>7. CASE ApplicationStep
  <2>1. Next
    BY <1>7 DEF ApplicationStep, Next
  <2>2. currentApplication' # NoApp
    BY <1>3, <1>7, StepsNeedApplication DEF ApplicationStep, rotation
  <2> QED
    BY <1>2, <2>1, <2>2, StepInv DEF FrameworkInv
<1>8. CASE UNCHANGED frameworkVars
  <2>1. UNCHANGED vars /\ UNCHANGED currentApplication
    BY <1>8 DEF frameworkVars, rotation
  <2> QED
    BY <1>2, <1>3, <2>1, StepInv DEF FrameworkInv, Blank, vars
<1> QED
  BY <1>2, <1>4, <1>5, <1>6, <1>7, <1>8 DEF FrameworkNext

LEMMA FrameworkStarts == FrameworkInit => FrameworkInv
<1> SUFFICES ASSUME FrameworkInit PROVE FrameworkInv
  OBVIOUS
<1>1. Blank /\ phase = "stopped"
  BY DEF FrameworkInit, Blank
<1>2. ControlInv
  BY FrameworkAssumption DEF FrameworkInit, ControlInv, App, NoApp, Phase
<1> QED
  BY <1>1, <1>2, BlankInv DEF FrameworkInv

LEMMA FrameworkInvariance == FrameworkSpec => []FrameworkInv
BY FrameworkStarts, FrameworkStepInv, PTL DEF FrameworkSpec

-----------------------------------------------------------------------------
(* The theorems. *)

\* The variables keep their types, and nothing of an application outlives it.
THEOREM FrameworkTypeCorrect == FrameworkSpec => []FrameworkTypeOK
<1>1. FrameworkInv => FrameworkTypeOK
  BY DEF FrameworkInv, IInv, ControlInv, Blank, FrameworkTypeOK
<1> QED
  BY <1>1, FrameworkInvariance, PTL

\* One application after the other initialises its components in the order of
\* their list.
THEOREM ApplicationsInitialiseInOrder == FrameworkSpec => []InitialisedInOrder
<1>1. FrameworkInv => InitialisedInOrder
  BY StagesAreOrdered DEF FrameworkInv, IInv, InitialisedInOrder
<1> QED
  BY <1>1, FrameworkInvariance, PTL

\* Every pass of every application deals with each component exactly once.
THEOREM EveryPassIsExact == FrameworkSpec => []PassCoversList
<1>1. FrameworkInv => PassCoversList
  BY DEF FrameworkInv, IInv
<1> QED
  BY <1>1, FrameworkInvariance, PTL

\* A mark that counts is kept, and its component removed by the pass that
\* follows, or together with its application.
THEOREM MarksRemoveEverywhere == FrameworkSpec => MarkRemoves
<1>1. FrameworkInv => MarkIsKept
  BY DEF FrameworkInv, IInv, MarkInv
<1>2. FrameworkInv /\ [FrameworkNext]_frameworkVars => [EndPass => due = {}]_vars
  BY PassRemovesDue DEF FrameworkInv
<1> QED
  BY <1>1, <1>2, FrameworkInvariance, PTL DEF FrameworkSpec, MarkRemoves, RemovedNextCycle

LEMMA StepIsRotatorStep ==
    ControlInv /\ [FrameworkNext]_frameworkVars => [Rotator!Next]_(Rotator!rotatorVars)
<1> SUFFICES ASSUME ControlInv, [FrameworkNext]_frameworkVars
             PROVE  [Rotator!Next]_(Rotator!rotatorVars)
  OBVIOUS
<1> USE DEF ControlInv, Running, Rotator!rotatorVars
<1>1. CASE SpawnApplication
  BY <1>1 DEF SpawnApplication
\* The return of an application's init is the rotator's Spawn.
<1>2. ASSUME NEW ok \in BOOLEAN, FinishInit(ok) PROVE Rotator!Spawn(ok)
  BY <1>2 DEF FinishInit, InitReturns, Rotator!Spawn, Rotator!NoApp, NoApp
<1>3. CASE DestroyApplication
  BY <1>3 DEF DestroyApplication
<1>4. CASE ApplicationStep
  <2>1. UNCHANGED <<appIndex, currentApplication, lastSpawned>>
    BY <1>4 DEF ApplicationStep, rotation
  <2>2. ASSUME NEW c \in Component, AddComponent(c) \/ MarkToRemove(c)
        PROVE UNCHANGED Rotator!rotatorVars
    BY <2>1, <2>2 DEF AddComponent, MarkToRemove
  <2>3. CASE MethodSucceeds \/ LoopStep
    BY <2>1, <2>3
    DEF MethodSucceeds, LoopStep, BeginPass, CallMethod, Erase, EndPass
  \* A component method that fails is the rotator's failing Loop.
  <2>4. CASE MethodFails
    <3>1. Rotator!Loop(FALSE)
      BY <2>1, <2>4 DEF MethodFails, Rotator!Loop, Rotator!NoApp, NoApp
    <3> QED
      BY <3>1 DEF Rotator!Next
  <2> QED
    BY <2>2, <2>3, <2>4, <1>4 DEF ApplicationStep, MethodReturns
<1>5. CASE UNCHANGED frameworkVars
  BY <1>5 DEF frameworkVars, vars, rotation
<1> QED
  BY <1>1, <1>2, <1>3, <1>4, <1>5 DEF FrameworkNext, Rotator!Next

\* The detailed system implements the rotator, for every set of components and
\* every number of classes the index can hold (the safety part; its fairness is
\* model-checked).
THEOREM FrameworkImplementsRotator == FrameworkSpec => Rotator!Spec
<1>1. FrameworkInv => ControlInv
  BY DEF FrameworkInv
<1>2. FrameworkInit => Rotator!Init
  BY DEF FrameworkInit, Running, Rotator!Init, Rotator!NoApp, NoApp
<1> QED
  BY <1>1, <1>2, FrameworkInvariance, StepIsRotatorStep, PTL
  DEF FrameworkSpec, Rotator!Spec

\* The classes take turns in their order however the life cycles of their
\* components interleave: what the rotator promises holds of the framework,
\* because the framework implements it.
THEOREM FrameworkRotatesInTurn == FrameworkSpec => []RotationInTurn
BY FrameworkImplementsRotator, RoundRobin, PTL
=============================================================================
