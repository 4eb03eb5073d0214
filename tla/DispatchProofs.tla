--------------------------- MODULE DispatchProofs ---------------------------
(***************************************************************************)
(* What TLAPS proves of Dispatch for every set of names, views, keys and   *)
(* runes: its types, that a name stands for one view, that a typed rune    *)
(* reaches the editor, and that the binding of a view comes before one for *)
(* all views.                                                              *)
(***************************************************************************)
EXTENDS Dispatch, SequenceFacts

(* The operators.                                                          *)

\* Where the elements are when the one at place i is gone.
LEMMA RemoveAtPlaces ==
  ASSUME NEW S, NEW s \in Seq(S), NEW i \in DOMAIN s
  PROVE  /\ RemoveAt(s, i) \in Seq(S)
         /\ Len(RemoveAt(s, i)) = Len(s) - 1
         /\ \A j \in 1 .. Len(s) - 1 :
              RemoveAt(s, i)[j] = IF j < i THEN s[j] ELSE s[j + 1]
BY DroppedPlaces DEF RemoveAt, Dropped

\* What is kept of a sequence: elements of it, and no more of them.
LEMMA KeptType ==
  ASSUME NEW S, NEW s \in Seq(S), NEW K, K \subseteq DOMAIN s
  PROVE  Kept(s, K) \in Seq(S) /\ Len(Kept(s, K)) <= Len(s)
<1>1. K \subseteq 1 .. Len(s) /\ Len(s) \in Nat
  OBVIOUS
<1>2. IsFiniteSet(1 .. Len(s)) /\ Cardinality(1 .. Len(s)) = Len(s)
  <2>1. IsFiniteSet(1 .. Len(s)) /\ Cardinality(1 .. Len(s)) = IF 1 > Len(s) THEN 0 ELSE Len(s) - 1 + 1
    BY <1>1, FS_Interval
  <2> QED BY <1>1, <2>1
<1>3. Cardinality(K) \in Nat /\ Cardinality(K) <= Len(s)
  BY <1>1, <1>2, FS_Subset, FS_CardinalityType
<1>4. ASSUME NEW j \in 1 .. Cardinality(K)
      PROVE  s[CHOOSE i \in K : Cardinality({k \in K : k <= i}) = j] \in S
  <2>1. \E i \in K : Cardinality({k \in K : k <= i}) = j
    BY <1>1, NthPlace
  <2>2. (CHOOSE i \in K : Cardinality({k \in K : k <= i}) = j) \in K
    BY <2>1
  <2> QED BY <2>2
<1>5. Kept(s, K) \in [1 .. Cardinality(K) -> S]
  BY <1>4 DEF Kept
<1> HIDE DEF Kept
<1> QED BY <1>3, <1>5

-----------------------------------------------------------------------------
(* The views.  Names are unique because SetView looks for the name, and    *)
(* because what the stacking does to g.views is to move its elements: no   *)
(* name of a view changes.                                                 *)

Distinct == \A i, j \in DOMAIN views : NameOf(views[i]) = NameOf(views[j]) => i = j
DispatchInv == TypeOK /\ Distinct

\* Distinct says what NamesUnique counts.
LEMMA DistinctCounts ==
  ASSUME DispatchInv
  PROVE  NamesUnique
<1> DEFINE names == [i \in DOMAIN views |-> NameOf(views[i])]
<1>1. IsFiniteSet(DOMAIN views) /\ Cardinality(DOMAIN views) = Len(views)
  <2>1. Len(views) \in Nat /\ DOMAIN views = 1 .. Len(views)
    BY DEF DispatchInv, TypeOK
  <2>2. IsFiniteSet(1 .. Len(views)) /\ Cardinality(1 .. Len(views)) =
          IF 1 > Len(views) THEN 0 ELSE Len(views) - 1 + 1
    BY <2>1, FS_Interval
  <2> QED BY <2>1, <2>2
<1>2. views \in Bijection(DOMAIN views, Range(views))
  <2>1. views \in [DOMAIN views -> Range(views)]
    BY DEF DispatchInv, TypeOK, Range
  <2>2. \A i, j \in DOMAIN views : views[i] = views[j] => i = j
    BY DEF DispatchInv, Distinct
  <2>3. \A v \in Range(views) : \E i \in DOMAIN views : views[i] = v
    BY DEF Range
  <2> QED BY <2>1, <2>2, <2>3 DEF Bijection, Injection, Surjection, IsInjective
<1>3. names \in Bijection(DOMAIN views, Listed)
  <2>1. names \in [DOMAIN views -> Listed]
    BY DEF Listed, Range
  <2>2. \A i, j \in DOMAIN views : names[i] = names[j] => i = j
    BY DEF DispatchInv, Distinct
  <2>3. \A n \in Listed : \E i \in DOMAIN views : names[i] = n
    BY DEF Listed, Range
  <2> HIDE DEF names
  <2> QED BY <2>1, <2>2, <2>3 DEF Bijection, Injection, Surjection, IsInjective
<1>4. Cardinality(Range(views)) = Len(views)
  BY <1>1, <1>2, FS_Bijection DEF ExistsBijection
<1>5. Cardinality(Listed) = Len(views)
  <2> HIDE DEF names
  <2> QED BY <1>1, <1>3, FS_Bijection DEF ExistsBijection
<1> QED BY <1>4, <1>5 DEF NamesUnique

\* The view that a name finds is one of the list and has the name.
LEMMA NamedPlace ==
  ASSUME TypeOK, NEW name \in Listed
  PROVE  /\ IndexOf(name) \in DOMAIN views
         /\ Named(name) = views[IndexOf(name)] /\ Named(name) \in Range(views)
         /\ Named(name) \in Objects /\ NameOf(Named(name)) = name
<1> DEFINE K == {i \in DOMAIN views : NameOf(views[i]) = name}
<1>1. K # {} /\ K \subseteq DOMAIN views /\ views \in Seq(Objects)
  BY DEF Listed, Range, TypeOK
<1>2. Min(K) \in K
  <2> HIDE DEF K
  <2> QED BY <1>1, FirstAndLast
<1>3. IndexOf(name) \in DOMAIN views /\ NameOf(views[IndexOf(name)]) = name
  BY <1>2 DEF IndexOf
<1> QED BY <1>1, <1>3 DEF Named, Range

\* The list without the named view.
LEMMA WithoutPlaces ==
  ASSUME TypeOK, NEW name \in Listed
  PROVE  /\ Without(name) \in Seq(Objects) /\ Len(Without(name)) = Len(views) - 1
         /\ IndexOf(name) \in 1 .. Len(views) /\ Len(views) \in Nat
         /\ \A j \in 1 .. Len(views) - 1 :
              Without(name)[j] = IF j < IndexOf(name) THEN views[j] ELSE views[j + 1]
<1>1. views \in Seq(Objects) /\ IndexOf(name) \in DOMAIN views
  BY NamedPlace DEF TypeOK
<1>2. DOMAIN views = 1 .. Len(views) /\ Len(views) \in Nat
  BY <1>1
<1> QED BY <1>1, <1>2, RemoveAtPlaces DEF Without

\* A list whose elements come from different places of the old one, when the
\* views in it keep their names, has no name twice.
LEMMA Rearranged ==
  ASSUME Distinct, NEW p \in [DOMAIN views' -> DOMAIN views],
         \A i, j \in DOMAIN views' : p[i] = p[j] => i = j,
         \A j \in DOMAIN views' : views'[j] = views[p[j]],
         \A v \in Range(views') : view'[v] = view[v]
  PROVE  Distinct' /\ Range(views') \subseteq Range(views)
<1>1. \A j \in DOMAIN views' : view'[views'[j]].name = view[views[p[j]]].name
  BY DEF Range
<1> QED BY <1>1 DEF Distinct, NameOf, Range

\* What is collected is not referred to, and the rest stays as it is.
LEMMA CollectStep ==
  ASSUME TypeOK, Collect, Range(views') \cup ({currentView'} \ {NoView}) \subseteq DOMAIN view
  PROVE  /\ view' \in [Range(views') \cup ({currentView'} \ {NoView}) -> Fields]
         /\ \A v \in Range(views') : view'[v] = view[v]
BY DEF TypeOK, Collect, Restrict

\* A new view, for a name that no view of the list has.
LEMMA SetViewStep ==
  ASSUME DispatchInv, NEW n \in Names, NEW typing \in Typings, SetView(n, typing)
  PROVE  DispatchInv'
<1> DEFINE fields == [name |-> n, typing |-> typing]
<1>1. PICK v \in Objects \ DOMAIN view :
        views' = Append(views, v) /\ view' = [u \in DOMAIN view \cup {v} |-> IF u = v THEN fields ELSE view[u]]
  BY DEF SetView
<1>2. /\ fields \in Fields /\ views \in Seq(Objects)
      /\ view \in [Range(views) \cup ({currentView} \ {NoView}) -> Fields]
      /\ n \notin Listed
      /\ UNCHANGED <<currentView, keybindings, blacklist>>
  BY DEF SetView, Fields, DispatchInv, TypeOK
<1>3. views' \in Seq(Objects) /\ DOMAIN views' = DOMAIN views \cup {Len(views) + 1}
  BY <1>1, <1>2
<1>4. /\ \A i \in DOMAIN views : views'[i] = views[i] /\ views[i] # v
      /\ views'[Len(views) + 1] = v
  BY <1>1, <1>2, AppendPlaces DEF Range
<1>5. Range(views') = Range(views) \cup {v}
  BY <1>3, <1>4 DEF Range
<1> HIDE DEF fields
<1>6. /\ DOMAIN view' = DOMAIN view \cup {v}
      /\ \A u \in DOMAIN view : view'[u] = view[u]
      /\ view'[v] = fields
      /\ view' \in [DOMAIN view \cup {v} -> Fields]
  BY <1>1, <1>2
<1>7. DOMAIN view \cup {v} = Range(views') \cup ({currentView'} \ {NoView})
  BY <1>2, <1>5
<1>8. TypeOK'
  BY <1>2, <1>3, <1>6, <1>7 DEF DispatchInv, TypeOK
<1>9. Distinct'
  <2>1. \A i \in DOMAIN views : views[i] \in DOMAIN view /\ NameOf(views[i]) # n
    BY <1>2 DEF Listed, Range
  <2>2. \A i \in DOMAIN views : view'[views'[i]].name = NameOf(views[i])
    BY <1>4, <1>6, <2>1 DEF NameOf
  <2>3. view'[views'[Len(views) + 1]].name = n
    BY <1>4, <1>6 DEF NameOf, fields
  <2>4. \A i, j \in DOMAIN views' : view'[views'[i]].name = view'[views'[j]].name => i = j
    BY <1>3, <2>1, <2>2, <2>3 DEF DispatchInv, Distinct
  <2> QED BY <2>4 DEF Distinct, NameOf
<1> QED BY <1>8, <1>9 DEF DispatchInv

\* The named view goes to the end of the list, or to its beginning.
LEMMA StackStep ==
  ASSUME DispatchInv, NEW n \in Names, SetViewOnTop(n) \/ SetViewOnBottom(n)
  PROVE  DispatchInv'
<1> DEFINE k == IndexOf(n)
           l == Len(views)
           w == Without(n)
<1>1. /\ n \in Listed /\ views \in Seq(Objects) /\ TypeOK /\ Distinct
      /\ UNCHANGED <<view, currentView, keybindings, blacklist>>
  BY DEF SetViewOnTop, SetViewOnBottom, DispatchInv, TypeOK
<1>2. /\ k \in 1 .. l /\ l \in Nat /\ DOMAIN views = 1 .. l
      /\ w \in Seq(Objects) /\ Len(w) = l - 1
      /\ \A j \in 1 .. l - 1 : w[j] = IF j < k THEN views[j] ELSE views[j + 1]
      /\ Named(n) = views[k] /\ Named(n) \in Objects
  BY <1>1, NamedPlace, WithoutPlaces
<1>3. \E p \in [1 .. l -> 1 .. l] :
        /\ DOMAIN views' = 1 .. l /\ views' \in Seq(Objects)
        /\ \A j \in 1 .. l : views'[j] = views[p[j]]
        /\ \A i, j \in 1 .. l : p[i] = p[j] => i = j
        /\ \A i \in 1 .. l : \E j \in 1 .. l : p[j] = i
  <2>1. CASE SetViewOnTop(n)
    <3> DEFINE p == [j \in 1 .. l |-> IF j = l THEN k ELSE IF j < k THEN j ELSE j + 1]
    <3>1. views' = Append(w, views[k])
      BY <1>2, <2>1 DEF SetViewOnTop
    <3> HIDE DEF k, l, w
    <3>2. p \in [1 .. l -> 1 .. l]
      BY <1>2
    <3>3. DOMAIN views' = 1 .. l /\ views' \in Seq(Objects)
      BY <1>2, <3>1
    <3>4. \A j \in 1 .. l : views'[j] = views[p[j]]
      BY <1>2, <3>1
    <3>5. \A i, j \in 1 .. l : p[i] = p[j] => i = j
      BY <1>2
    <3>6. ASSUME NEW i \in 1 .. l PROVE \E j \in 1 .. l : p[j] = i
      <4>1. i = k => p[l] = i
        BY <1>2
      <4>2. i < k => i \in 1 .. l /\ p[i] = i
        BY <1>2
      <4>3. i > k => i - 1 \in 1 .. l /\ p[i - 1] = i
        BY <1>2
      <4> HIDE DEF p
      <4> QED BY <1>2, <4>1, <4>2, <4>3
    <3> HIDE DEF p
    <3> QED BY <3>2, <3>3, <3>4, <3>5, <3>6
  <2>2. CASE SetViewOnBottom(n)
    <3> DEFINE p == [j \in 1 .. l |-> IF j = 1 THEN k ELSE IF j <= k THEN j - 1 ELSE j]
    <3>1. views' = <<views[k]>> \o w
      BY <1>2, <2>2 DEF SetViewOnBottom
    <3> HIDE DEF k, l, w
    <3>2. p \in [1 .. l -> 1 .. l]
      BY <1>2
    <3>3. <<views[k]>> \in Seq(Objects) /\ Len(<<views[k]>>) = 1 /\ <<views[k]>>[1] = views[k]
      BY <1>2
    <3>4. /\ views' \in Seq(Objects) /\ Len(views') = l
          /\ \A j \in 1 .. l : views'[j] = IF j <= 1 THEN views[k] ELSE w[j - 1]
      BY <1>2, <3>1, <3>3, ConcatProperties
    <3>5. \A j \in 1 .. l : views'[j] = views[p[j]]
      <4> SUFFICES ASSUME NEW j \in 1 .. l PROVE views'[j] = views[p[j]]
        OBVIOUS
      <4>1. j > 1 => w[j - 1] = IF j - 1 < k THEN views[j - 1] ELSE views[j]
        BY <1>2
      <4>2. p[j] = IF j = 1 THEN k ELSE IF j <= k THEN j - 1 ELSE j
        OBVIOUS
      <4> HIDE DEF p
      <4> QED BY <1>2, <3>4, <4>1, <4>2
    <3>6. \A i, j \in 1 .. l : p[i] = p[j] => i = j
      BY <1>2
    <3>7. ASSUME NEW i \in 1 .. l PROVE \E j \in 1 .. l : p[j] = i
      <4>1. i = k => 1 \in 1 .. l /\ p[1] = i
        BY <1>2
      <4>2. i < k => i + 1 \in 1 .. l /\ p[i + 1] = i
        BY <1>2
      <4>3. i > k => i \in 1 .. l /\ p[i] = i
        BY <1>2
      <4> HIDE DEF p
      <4> QED BY <1>2, <4>1, <4>2, <4>3
    <3> HIDE DEF p
    <3>8. DOMAIN views' = 1 .. l
      BY <1>2, <3>4
    <3> QED BY <3>2, <3>4, <3>5, <3>6, <3>7, <3>8
  <2> QED BY <2>1, <2>2
<1> HIDE DEF k, l, w
<1>4. PICK p \in [1 .. l -> 1 .. l] :
        /\ DOMAIN views' = 1 .. l /\ views' \in Seq(Objects)
        /\ \A j \in 1 .. l : views'[j] = views[p[j]]
        /\ \A i, j \in 1 .. l : p[i] = p[j] => i = j
        /\ \A i \in 1 .. l : \E j \in 1 .. l : p[j] = i
  BY <1>3
<1>5. Range(views') = Range(views)
  <2>1. \A j \in 1 .. l : p[j] \in 1 .. l /\ views'[j] = views[p[j]]
    BY <1>4
  <2>2. \A i \in 1 .. l : \E j \in 1 .. l : views'[j] = views[i]
    BY <1>4
  <2>3. Range(views') = {views'[j] : j \in 1 .. l}
    BY <1>4 DEF Range
  <2>4. Range(views) = {views[j] : j \in 1 .. l}
    BY <1>2 DEF Range
  <2>5. \A v \in Range(views') : v \in Range(views)
    BY <2>1, <2>3, <2>4
  <2>6. \A v \in Range(views) : v \in Range(views')
    BY <2>2, <2>3, <2>4
  <2> QED BY <2>5, <2>6
<1>6. Distinct'
  <2>1. p \in [DOMAIN views' -> DOMAIN views]
    BY <1>2, <1>4
  <2>2. /\ \A i, j \in DOMAIN views' : p[i] = p[j] => i = j
        /\ \A j \in DOMAIN views' : views'[j] = views[p[j]]
    BY <1>4
  <2>3. \A v \in Range(views') : view'[v] = view[v]
    BY <1>1
  <2> QED BY <1>1, <2>1, <2>2, <2>3, Rearranged
<1>7. TypeOK'
  BY <1>1, <1>4, <1>5 DEF TypeOK
<1> QED BY <1>6, <1>7 DEF DispatchInv

\* A view leaves the list; its object stays while it has the focus.
LEMMA DeleteViewStep ==
  ASSUME DispatchInv, NEW n \in Names, DeleteView(n)
  PROVE  DispatchInv'
<1> DEFINE k == IndexOf(n)
           l == Len(views)
           p == [j \in 1 .. l - 1 |-> IF j < k THEN j ELSE j + 1]
<1>1. /\ n \in Listed /\ views \in Seq(Objects) /\ TypeOK /\ Distinct
      /\ UNCHANGED <<currentView, keybindings, blacklist>>
      /\ views' = Without(n) /\ Collect
  BY DEF DeleteView, DispatchInv, TypeOK
<1>2. /\ k \in 1 .. l /\ l \in Nat /\ DOMAIN views = 1 .. l
      /\ views' \in Seq(Objects) /\ Len(views') = l - 1 /\ DOMAIN views' = 1 .. l - 1
      /\ \A j \in 1 .. l - 1 : views'[j] = IF j < k THEN views[j] ELSE views[j + 1]
  BY <1>1, WithoutPlaces
<1> HIDE DEF k, l
<1>3. /\ p \in [1 .. l - 1 -> 1 .. l]
      /\ \A i, j \in 1 .. l - 1 : p[i] = p[j] => i = j
      /\ \A j \in 1 .. l - 1 : views'[j] = views[p[j]]
  BY <1>2
<1> HIDE DEF p
<1>4. Range(views') \subseteq Range(views)
  BY <1>2, <1>3 DEF Range
<1>5. Range(views') \cup ({currentView'} \ {NoView}) \subseteq DOMAIN view
  BY <1>1, <1>4 DEF TypeOK
<1>6. /\ view' \in [Range(views') \cup ({currentView'} \ {NoView}) -> Fields]
      /\ \A v \in Range(views') : view'[v] = view[v]
  BY <1>1, <1>5, CollectStep
<1>7. Distinct'
  <2>1. p \in [DOMAIN views' -> DOMAIN views]
    BY <1>2, <1>3
  <2>2. /\ \A i, j \in DOMAIN views' : p[i] = p[j] => i = j
        /\ \A j \in DOMAIN views' : views'[j] = views[p[j]]
    BY <1>2, <1>3
  <2>3. \A v \in Range(views') : view'[v] = view[v]
    BY <1>6
  <2> QED BY <1>1, <2>1, <2>2, <2>3, Rearranged
<1>8. TypeOK'
  BY <1>1, <1>2, <1>6 DEF TypeOK
<1> QED BY <1>7, <1>8 DEF DispatchInv

\* The focus moves to a view of the list.
LEMMA SetCurrentViewStep ==
  ASSUME DispatchInv, NEW n \in Names, SetCurrentView(n)
  PROVE  DispatchInv'
<1>1. /\ n \in Listed /\ TypeOK /\ Distinct /\ Collect
      /\ UNCHANGED <<views, keybindings, blacklist>> /\ currentView' = Named(n)
  BY DEF SetCurrentView, DispatchInv
<1>2. Named(n) \in Range(views) /\ Named(n) \in Objects
  BY <1>1, NamedPlace
<1>3. Range(views') = Range(views)
  BY <1>1
<1>4. Range(views') \cup ({currentView'} \ {NoView}) \subseteq DOMAIN view
  BY <1>1, <1>2, <1>3 DEF TypeOK
<1>5. /\ view' \in [Range(views') \cup ({currentView'} \ {NoView}) -> Fields]
      /\ \A v \in Range(views') : view'[v] = view[v]
  BY <1>1, <1>4, CollectStep
<1>6. Distinct'
  BY <1>1, <1>3, <1>5 DEF Distinct, NameOf, Range
<1>7. TypeOK'
  BY <1>1, <1>2, <1>5 DEF TypeOK
<1> QED BY <1>6, <1>7 DEF DispatchInv

\* No view, no focus and no keybinding are left.
LEMMA SetManagerStep ==
  ASSUME DispatchInv, SetManager
  PROVE  DispatchInv'
<1>1. /\ views' = <<>> /\ currentView' = NoView /\ keybindings' = <<>>
      /\ UNCHANGED blacklist /\ Collect /\ TypeOK
  BY DEF SetManager, DispatchInv
<1>2. Range(views') = {}
  BY <1>1 DEF Range
<1>3. view' \in [Range(views') \cup ({currentView'} \ {NoView}) -> Fields]
  BY <1>1, <1>2, CollectStep
<1>4. TypeOK'
  BY <1>1, <1>3, DispatchAssumption DEF TypeOK
<1>5. Distinct'
  BY <1>1 DEF Distinct
<1> QED BY <1>4, <1>5 DEF DispatchInv

\* What the calls on keybindings and events do: the views stay.
LEMMA KeybindingStep ==
  ASSUME DispatchInv,
         \/ \E b \in Bindings : SetKeybinding(b) \/ DeleteKeybinding(b)
         \/ \E n \in Names \cup {Anywhere} : DeleteKeybindings(n)
         \/ \E k \in Keys : BlacklistKeybinding(k) \/ WhitelistKeybinding(k)
         \/ \E press \in Presses : Key(press)
         \/ \E k \in Keys, p \in Points : Click(k, p)
  PROVE  DispatchInv'
<1>1. UNCHANGED <<views, view, currentView>> /\ TypeOK /\ Distinct
  BY DEF SetKeybinding, DeleteKeybinding, DeleteKeybindings, BlacklistKeybinding,
    WhitelistKeybinding, Key, Click, DispatchInv
<1>2. keybindings \in Seq(Bindings) /\ Len(keybindings) <= MaxBindings /\ MaxBindings \in Nat
  BY <1>1, DispatchAssumption DEF TypeOK
<1>3. keybindings' \in Seq(Bindings) /\ Len(keybindings') <= MaxBindings
  <2>1. ASSUME NEW b \in Bindings, SetKeybinding(b)
        PROVE  keybindings' \in Seq(Bindings) /\ Len(keybindings') <= MaxBindings
    BY <1>2, <2>1 DEF SetKeybinding
  <2>2. ASSUME NEW b \in Bindings, DeleteKeybinding(b)
        PROVE  keybindings' \in Seq(Bindings) /\ Len(keybindings') <= MaxBindings
    <3> DEFINE K == {i \in DOMAIN keybindings : keybindings[i] = b}
    <3>1. K # {} /\ K \subseteq DOMAIN keybindings /\ keybindings' = RemoveAt(keybindings, Min(K))
      BY <2>2 DEF DeleteKeybinding, Range
    <3> HIDE DEF K
    <3>2. Min(K) \in DOMAIN keybindings
      BY <1>2, <3>1, FirstAndLast
    <3>3. keybindings' \in Seq(Bindings) /\ Len(keybindings') = Len(keybindings) - 1
      BY <1>2, <3>1, <3>2, RemoveAtPlaces
    <3> QED BY <1>2, <3>3
  <2>3. ASSUME NEW n \in Names \cup {Anywhere}, DeleteKeybindings(n)
        PROVE  keybindings' \in Seq(Bindings) /\ Len(keybindings') <= MaxBindings
    <3> DEFINE K == {i \in DOMAIN keybindings : keybindings[i].view # n}
    <3>1. K \subseteq DOMAIN keybindings /\ keybindings' = Kept(keybindings, K)
      BY <2>3 DEF DeleteKeybindings
    <3> HIDE DEF K
    <3>2. keybindings' \in Seq(Bindings) /\ Len(keybindings') <= Len(keybindings)
      BY <1>2, <3>1, KeptType
    <3>3. Len(keybindings') \in Nat /\ Len(keybindings) \in Nat
      BY <1>2, <3>2
    <3> QED BY <1>2, <3>2, <3>3
  <2>4. ASSUME UNCHANGED keybindings
        PROVE  keybindings' \in Seq(Bindings) /\ Len(keybindings') <= MaxBindings
    BY <1>2, <2>4
  <2> QED BY <2>1, <2>2, <2>3, <2>4 DEF BlacklistKeybinding, WhitelistKeybinding, Key, Click
<1>4. blacklist' \subseteq Keys
  BY <1>1 DEF TypeOK, SetKeybinding, DeleteKeybinding, DeleteKeybindings, BlacklistKeybinding,
    WhitelistKeybinding, Key, Click
<1>5. TypeOK'
  BY <1>1, <1>3, <1>4 DEF TypeOK
<1>6. Distinct'
  BY <1>1 DEF Distinct, NameOf
<1> QED BY <1>5, <1>6 DEF DispatchInv

-----------------------------------------------------------------------------
(* The invariant, and what it says.                                        *)

\* At first there is nothing.
LEMMA InitDispatchInv == Init => DispatchInv
<1> SUFFICES ASSUME Init PROVE DispatchInv
  OBVIOUS
<1>1. Range(views) = {} /\ views \in Seq(Objects) /\ keybindings \in Seq(Bindings)
  BY DEF Init, Range
<1>2. view \in [Range(views) \cup ({currentView} \ {NoView}) -> Fields]
  BY <1>1 DEF Init
<1>3. TypeOK
  BY <1>1, <1>2, DispatchAssumption DEF Init, TypeOK
<1>4. Distinct
  BY DEF Init, Distinct
<1> QED BY <1>3, <1>4 DEF DispatchInv

\* Every call and every event keeps the types and the names apart.
LEMMA DispatchInvStep == DispatchInv /\ [Next]_vars => DispatchInv'
<1> SUFFICES ASSUME DispatchInv, [Next]_vars PROVE DispatchInv'
  OBVIOUS
<1>1. CASE UNCHANGED vars
  BY <1>1 DEF vars, DispatchInv, TypeOK, Distinct, NameOf
<1>2. ASSUME NEW n \in Names, NEW typing \in Typings, SetView(n, typing)
      PROVE  DispatchInv'
  BY <1>2, SetViewStep
<1>3. ASSUME NEW n \in Names,
             SetViewOnTop(n) \/ SetViewOnBottom(n) \/ DeleteView(n) \/ SetCurrentView(n)
      PROVE  DispatchInv'
  BY <1>3, StackStep, DeleteViewStep, SetCurrentViewStep
<1>4. CASE SetManager
  BY <1>4, SetManagerStep
<1>5. CASE \/ \E b \in Bindings : SetKeybinding(b) \/ DeleteKeybinding(b)
           \/ \E n \in Names \cup {Anywhere} : DeleteKeybindings(n)
           \/ \E k \in Keys : BlacklistKeybinding(k) \/ WhitelistKeybinding(k)
           \/ \E press \in Presses : Key(press)
           \/ \E k \in Keys, p \in Points : Click(k, p)
  BY <1>5, KeybindingStep
<1> QED BY <1>1, <1>2, <1>3, <1>4, <1>5 DEF Next

\* The inductive invariant: the types, and names apart.
LEMMA DispatchInvariant == Spec => []DispatchInv
<1> QED BY InitDispatchInv, DispatchInvStep, PTL DEF Spec

\* g.views, the objects, the focus, the keybindings and the blacklist keep
\* their types: no nil in g.views, and no object but those that are referred to.
THEOREM TypeCorrect == Spec => []TypeOK
<1>1. DispatchInv => TypeOK
  BY DEF DispatchInv
<1> QED BY <1>1, DispatchInvariant, PTL

\* Whatever is made, stacked, deleted and made again, a name stands for one
\* view: View, SetCurrentView and DeleteView act on the only one of the name.
THEOREM NamesStayUnique == Spec => []NamesUnique
<1> QED BY DistinctCounts, DispatchInvariant, PTL

-----------------------------------------------------------------------------
(* Events.                                                                 *)

\* A step that is not an event forgets the last one.
LEMMA LastStep ==
  ASSUME [Next]_vars
  PROVE  \/ UNCHANGED vars
         \/ last' = Quiet
         \/ \E press \in Presses : Key(press)
         \/ \E k \in Keys, p \in Points : Click(k, p)
BY DEF Next, SetView, SetViewOnTop, SetViewOnBottom, DeleteView, SetCurrentView, SetManager,
  SetKeybinding, DeleteKeybinding, DeleteKeybindings, BlacklistKeybinding, WhitelistKeybinding

\* matchView and the test on the bindings for all views leave a rune to a
\* view that is typed into.
LEMMA NoBindingOfTyped ==
  ASSUME NEW press, press.ch # NoChar, NEW v, Typing(v)
  PROVE  Chosen(press, v) = 0
<1>1. Own(press, v) = {} /\ Global(press, v) = {}
  BY DEF Own, Global, MatchView, MatchGlobal, Typing
<1> QED BY <1>1 DEF Chosen

\* The invariant TypedRunesReachEditor, in one step.
LEMMA TypedRunesStep == TypedRunesReachEditor /\ [Next]_vars => TypedRunesReachEditor'
<1> SUFFICES ASSUME TypedRunesReachEditor, [Next]_vars PROVE TypedRunesReachEditor'
  OBVIOUS
<1>1. CASE UNCHANGED vars
  BY <1>1 DEF vars, TypedRunesReachEditor, Typing, Editable, HasEditor, KeybindOnEdit
<1>2. CASE last' = Quiet
  BY <1>2 DEF TypedRunesReachEditor, Quiet
<1>3. ASSUME NEW press \in Presses, Key(press)
      PROVE  TypedRunesReachEditor'
  <2> SUFFICES ASSUME last'.press.ch # NoChar, Typing(last.view)' PROVE last'.what = "edit"
    BY DEF TypedRunesReachEditor
  <2>1. last'.press = press /\ last'.view = currentView /\ UNCHANGED view
    BY <1>3 DEF Key, Run
  <2>2. Typing(currentView)
    BY <2>1 DEF Typing, Editable, HasEditor, KeybindOnEdit
  <2>3. Chosen(press, currentView) = 0
    BY <2>1, <2>2, NoBindingOfTyped
  <2> QED BY <1>3, <2>2, <2>3 DEF Key, Typing
<1>4. ASSUME NEW k \in Keys, NEW p \in Points, Click(k, p)
      PROVE  TypedRunesReachEditor'
  <2>1. last'.press.ch = NoChar
    BY <1>4 DEF Click, Run
  <2> QED BY <2>1 DEF TypedRunesReachEditor
<1> QED BY <1>1, <1>2, <1>3, <1>4, LastStep

\* While the user types into a field that does not ask for keybindings, no
\* binding and no blacklisted key takes a rune from its editor.
THEOREM TypedRunesAreEdited == Spec => []TypedRunesReachEditor
<1>1. Init => TypedRunesReachEditor
  BY DEF Init, TypedRunesReachEditor, Quiet
<1> QED BY <1>1, TypedRunesStep, PTL DEF Spec

\* The binding that execKeybindings runs: if it is one for all views, the view
\* has none of its own that matches.
LEMMA ChosenOfView ==
  ASSUME DispatchInv, NEW press, NEW v \in DOMAIN view \cup {NoView},
         Chosen(press, v) # 0, keybindings[Chosen(press, v)].view = Anywhere
  PROVE  Own(press, v) = {}
<1>1. keybindings \in Seq(Bindings) /\ view \in [DOMAIN view -> Fields]
  BY DEF DispatchInv, TypeOK
<1>2. SUFFICES ASSUME Own(press, v) # {} PROVE FALSE
  OBVIOUS
<1>3. Own(press, v) \subseteq DOMAIN keybindings
  BY DEF Own
<1>4. Min(Own(press, v)) \in Own(press, v)
  BY <1>1, <1>2, <1>3, FirstAndLast
<1>5. MatchView(keybindings[Chosen(press, v)], v)
  BY <1>2, <1>4 DEF Chosen, Own
<1>6. v \in DOMAIN view /\ NameOf(v) = Anywhere
  BY <1>5 DEF MatchView
<1>7. NameOf(v) \in Names
  BY <1>1, <1>6 DEF NameOf, Fields
<1> QED BY <1>6, <1>7, DispatchAssumption

\* ViewByPosition finds a view of the list.
LEMMA ViewAtPlace ==
  ASSUME DispatchInv, NEW p, ViewAt(p) # NoView
  PROVE  ViewAt(p) \in DOMAIN view
<1> DEFINE hit == {i \in DOMAIN views : p \in Inside(NameOf(views[i]))}
<1>1. hit # {} /\ ViewAt(p) = views[Max(hit)]
  BY DEF ViewAt
<1>2. hit \subseteq DOMAIN views /\ views \in Seq(Objects)
  BY DEF DispatchInv, TypeOK
<1> HIDE DEF hit
<1>3. Max(hit) \in DOMAIN views
  BY <1>1, <1>2, FirstAndLast
<1> QED BY <1>1, <1>3 DEF DispatchInv, TypeOK, Range

\* The invariant ViewBindingsWin, in one step.
LEMMA ViewBindingsStep == DispatchInv /\ ViewBindingsWin /\ [Next]_vars => ViewBindingsWin'
<1> SUFFICES ASSUME DispatchInv, ViewBindingsWin, [Next]_vars PROVE ViewBindingsWin'
  OBVIOUS
<1> USE DEF ViewBindingsWin
<1>1. CASE UNCHANGED vars
  BY <1>1 DEF vars, MatchView, NameOf, Editable, KeybindOnEdit
<1>2. CASE last' = Quiet
  BY <1>2 DEF Quiet
<1>3. ASSUME NEW press, NEW v \in DOMAIN view \cup {NoView},
             UNCHANGED <<view, keybindings>>,
             Chosen(press, v) # 0, last' = Run(press, v)
      PROVE  ViewBindingsWin'
  <2> SUFFICES ASSUME keybindings[Chosen(press, v)].view = Anywhere,
                      NEW i \in DOMAIN keybindings, keybindings[i].press = press,
                      MatchView(keybindings[i], v)
               PROVE  FALSE
    BY <1>3 DEF Run, MatchView, NameOf, Editable, KeybindOnEdit
  <2>1. Own(press, v) = {}
    BY <1>3, ChosenOfView
  <2>2. i \in Own(press, v)
    BY DEF Own
  <2> QED BY <2>1, <2>2
<1>4. ASSUME NEW press \in Presses, Key(press)
      PROVE  ViewBindingsWin'
  <2>1. currentView \in DOMAIN view \cup {NoView}
    BY DEF DispatchInv, TypeOK
  <2>2. CASE Chosen(press, currentView) # 0
    BY <1>3, <1>4, <2>1, <2>2 DEF Key
  <2>3. CASE Chosen(press, currentView) = 0
    BY <1>4, <2>3 DEF Key
  <2> QED BY <2>2, <2>3
<1>5. ASSUME NEW k \in Keys, NEW p \in Points, Click(k, p)
      PROVE  ViewBindingsWin'
  <2> DEFINE press == [key |-> k, ch |-> NoChar]
  <2>1. ViewAt(p) \in DOMAIN view \cup {NoView}
    BY ViewAtPlace
  <2>2. CASE Chosen(press, ViewAt(p)) # 0
    BY <1>3, <1>5, <2>1, <2>2 DEF Click
  <2>3. CASE Chosen(press, ViewAt(p)) = 0
    BY <1>5, <2>3 DEF Click
  <2> QED BY <2>2, <2>3
<1> QED BY <1>1, <1>2, <1>4, <1>5, LastStep

\* A binding for all views never runs in the place of one that the view has
\* for the same key, in whatever order they were made and stand in the list.
THEOREM ViewBindingsComeFirst == Spec => []ViewBindingsWin
<1>1. Init => ViewBindingsWin
  BY DEF Init, ViewBindingsWin, Quiet
<1> QED BY <1>1, ViewBindingsStep, DispatchInvariant, PTL DEF Spec
=============================================================================
