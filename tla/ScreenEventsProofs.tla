------------------------- MODULE ScreenEventsProofs -------------------------
(***************************************************************************)
(* What TLAPS proves of ScreenEvents: for every keyboard, every set of     *)
(* buttons and every set of modifiers, pollEvent implements what Input     *)
(* promises.  Each kind of event maps to one action of Input.              *)
(***************************************************************************)
EXTENDS ScreenEvents, SequenceFacts

\* The modifiers of the buttons that are down are some that the terminal
\* reported.
ModInv == lastMouseMod \in ModSets

\* The inductive invariant.
LEMMA ModInvariant == Spec => []ModInv
<1>1. Init => ModInv
  BY ScreenEventsAssumption DEF Init, ModInv
<1>2. ModInv /\ [Next]_vars => ModInv'
  BY ScreenEventsAssumption DEF ModInv, Next, vars, PollOther, PollRune, PollKey, PollMouse
<1> QED BY <1>1, <1>2, PTL DEF Spec

\* The wheel that is reported is one of those that turn.
LEMMA WheelTurns ==
  ASSUME NEW pressed
  PROVE  IF pressed \cap WheelSet = {} THEN WheelOf(pressed) = ZeroKey
         ELSE WheelOf(pressed) \in pressed \cap WheelSet
<1> DEFINE ws == {i \in DOMAIN Wheels : Wheels[i] \in pressed}
           last == CHOOSE i \in ws : \A j \in ws : j <= i
<1>1. pressed \cap WheelSet = {} <=> ws = {}
  BY DEF WheelSet
<1>2. WheelOf(pressed) = IF ws = {} THEN ZeroKey ELSE Wheels[last]
  BY DEF WheelOf
<1>3. ASSUME ws # {}
      PROVE  Wheels[last] \in pressed \cap WheelSet
  <2>1. ws \subseteq Nat /\ Len(Wheels) \in Nat /\ \A i \in ws : i <= Len(Wheels)
    BY ScreenEventsAssumption
  <2>2. \E i \in ws : \A j \in ws : i >= j
    <3> HIDE DEF ws
    <3> QED BY <1>3, <2>1, Greatest
  <2>3. last \in ws
    <3>1. \E i \in ws : \A j \in ws : j <= i
      <4>1. \A i, j \in ws : i >= j <=> j <= i
        BY <2>1
      <4> HIDE DEF ws
      <4> QED BY <2>2, <4>1
    <3> HIDE DEF ws
    <3> QED BY <3>1
  <2> HIDE DEF last
  <2> QED BY <2>3 DEF WheelSet
<1> HIDE DEF ws, last
<1> QED BY <1>1, <1>2, <1>3

-----------------------------------------------------------------------------
(* One lemma for each kind of event.                                       *)

\* A rune, the space bar among them, is a character of Input.
LEMMA RuneStep ==
  ASSUME NEW ch \in Chars, NEW mods \in ModSets, PollRune(ch, mods)
  PROVE  ScreenInput!Character(ch, mods)
<1>1. UNCHANGED <<lastMouseKey, lastMouseMod>> /\ event' = [ch |-> ch, mods |-> mods]
  BY DEF PollRune
<1>2. CASE ch = SpaceChar
  <2>1. polled' = FromKey(KeySpace, NoChar, mods)
    BY <1>2 DEF PollRune
  <2>2. polled'.ch = NoChar /\ polled'.type = "key"
    BY <2>1 DEF FromKey
  <2>3. CASE mods = {"ctrl"}
    <3>1. polled'.key = ZeroKey /\ polled'.mods = {}
      BY <2>1, <2>3 DEF FromKey
    <3>2. Said' = ZeroKey
      BY <2>2, <3>1, ScreenEventsAssumption DEF Said
    <3> QED BY <1>1, <1>2, <2>3, <3>1, <3>2 DEF ScreenInput!Character, ScreenInput!Told
  <2>4. CASE mods # {"ctrl"}
    <3>1. polled'.key = KeySpace /\ polled'.mods = IF mods = {"shift"} THEN {} ELSE mods
      BY <2>1, <2>4 DEF FromKey
    <3>2. Said' = SpaceChar
      BY <2>2, <3>1, ScreenEventsAssumption DEF Said
    <3> QED BY <1>1, <1>2, <2>4, <3>1, <3>2 DEF ScreenInput!Character, ScreenInput!Told
  <2> QED BY <2>3, <2>4
<1>3. CASE ch # SpaceChar
  <2>1. polled' = FromKey(ZeroKey, ch, mods) /\ ch # NoChar /\ ZeroKey # KeySpace
    BY <1>3, ScreenEventsAssumption DEF PollRune
  <2>2. /\ polled'.ch = ch /\ polled'.key = ZeroKey
        /\ polled'.mods = IF mods = {"ctrl"} \/ mods = {"shift"} THEN {} ELSE mods
    BY <2>1 DEF FromKey
  <2>3. Said' = ch
    BY <2>1, <2>2 DEF Said
  <2> QED BY <1>1, <1>3, <2>2, <2>3 DEF ScreenInput!Character, ScreenInput!Told
<1> QED BY <1>2, <1>3

\* Another key comes as itself.
LEMMA KeyStep ==
  ASSUME NEW key \in Keys, NEW mods \in ModSets, PollKey(key, mods)
  PROVE  ScreenInput!OtherKey(key, mods)
<1>1. /\ UNCHANGED <<lastMouseKey, lastMouseMod>> /\ event' = [key |-> key, mods |-> mods]
      /\ polled' = FromKey(key, NoChar, mods) /\ key # KeySpace
  BY ScreenEventsAssumption DEF PollKey
<1>2. /\ polled'.ch = NoChar /\ polled'.type = "key" /\ polled'.key = key
      /\ polled'.mods = IF mods = {"ctrl"} THEN {} ELSE mods
  BY <1>1 DEF FromKey
<1>3. Said' = key
  BY <1>1, <1>2 DEF Said
<1>4. polled'.mods = mods \ (IF mods = {"ctrl"} THEN mods ELSE {})
  BY <1>2
<1> QED BY <1>1, <1>3, <1>4 DEF ScreenInput!OtherKey, ScreenInput!Told

\* What the key of a mouse event says.
LEMMA MouseSaid ==
  ASSUME polled'.type = "mouse", polled'.ch = NoChar,
         polled'.key \in {ZeroKey} \cup Buttons \cup WheelSet \cup {MouseRelease}
  PROVE  Said' = IF polled'.key = ZeroKey THEN Nothing ELSE polled'.key
<1>1. polled'.key # KeySpace
  BY ScreenEventsAssumption
<1>2. CASE polled'.key = ZeroKey
  BY <1>1, <1>2 DEF Said
<1>3. CASE polled'.key # ZeroKey
  BY <1>1, <1>3 DEF Said
<1> QED BY <1>2, <1>3

\* A mouse event, whatever is down and turns: a press when none was down, a
\* release when nothing is left, a wheel or nothing.
LEMMA MouseStep ==
  ASSUME ModInv, NEW pressed \in ButtonSets, NEW mods \in ModSets, PollMouse(pressed, mods)
  PROVE  ScreenInput!Mouse(pressed, mods)
<1> DEFINE down == pressed \ WheelSet
           Down == IF lastMouseKey = {} THEN Nothing ELSE lastMouseMod
           starts == down # {} /\ lastMouseKey = {}
           ends == pressed = {} /\ lastMouseKey # {}
<1>1. /\ event' = [buttons |-> pressed, mods |-> mods]
      /\ polled'.type = "mouse" /\ polled'.ch = NoChar
      /\ lastMouseKey' = IF starts THEN down ELSE IF ends THEN {} ELSE lastMouseKey
      /\ lastMouseMod' = IF starts THEN mods ELSE IF ends THEN {} ELSE lastMouseMod
      /\ polled'.key =
           IF ends THEN MouseRelease
           ELSE IF starts /\ \E b \in {Primary, Secondary, Middle} : pressed = {b}
           THEN CHOOSE b \in Buttons : pressed = {b}
           ELSE WheelOf(pressed)
      /\ polled'.mods = IF ends THEN lastMouseMod
                        ELSE IF starts \/ WheelOf(pressed) # ZeroKey THEN mods ELSE {}
  BY DEF PollMouse, NoneDown
<1>2. lastMouseMod # Nothing /\ mods # Nothing /\ (Down = Nothing <=> lastMouseKey = {})
  BY ScreenEventsAssumption DEF ModInv
<1>3. ZeroKey \notin WheelSet
  BY ScreenEventsAssumption
<1> SUFFICES
      \/ Down = Nothing /\ down # {} /\ Down' = mods
         /\ Said' \in (pressed \cap WheelSet) \cup {b \in pressed : pressed = {b}} \cup {Nothing}
         /\ polled'.mods = mods
      \/ Down # Nothing /\ pressed = {} /\ Down' = Nothing
         /\ Said' = MouseRelease /\ polled'.mods = Down
      \/ (Down = Nothing => pressed \subseteq WheelSet) /\ (Down # Nothing => pressed # {})
         /\ Down' = Down
         /\ IF pressed \cap WheelSet = {} THEN Said' = Nothing /\ polled'.mods = {}
            ELSE Said' \in pressed \cap WheelSet /\ polled'.mods = mods
  <2>1. \A inputs, ms : Said' \in inputs /\ polled'.mods = ms => ScreenInput!Told(inputs, ms)
    BY DEF ScreenInput!Told
  <2> HIDE DEF down
  <2> QED BY <1>1, <2>1 DEF ScreenInput!Mouse, down
<1>4. CASE starts
  <2>1. ~ends /\ Down = Nothing /\ Down' = mods /\ polled'.mods = mods
    BY <1>1, <1>2, <1>4
  <2>2. CASE \E b \in {Primary, Secondary, Middle} : pressed = {b}
    <3>1. PICK b \in {Primary, Secondary, Middle} : pressed = {b}
      BY <2>2
    <3>2. (CHOOSE c \in Buttons : pressed = {c}) = b /\ b \in Buttons
      BY <3>1 DEF Buttons
    <3>3. polled'.key = b
      BY <1>1, <1>4, <2>1, <2>2, <3>2
    <3>4. Said' = b
      BY <1>1, <3>2, <3>3, MouseSaid, ScreenEventsAssumption
    <3> QED BY <1>4, <2>1, <3>1, <3>4
  <2>3. CASE ~\E b \in {Primary, Secondary, Middle} : pressed = {b}
    <3>1. polled'.key = WheelOf(pressed)
      BY <1>1, <2>1, <2>3
    <3>2. Said' \in (pressed \cap WheelSet) \cup {Nothing}
      BY <1>1, <3>1, MouseSaid, WheelTurns
    <3> QED BY <1>4, <2>1, <3>2
  <2> QED BY <2>2, <2>3
<1>5. CASE ends
  <2>1. Down # Nothing /\ Down = lastMouseMod /\ Down' = Nothing
    BY <1>1, <1>2, <1>5
  <2>2. polled'.key = MouseRelease /\ polled'.mods = lastMouseMod
    BY <1>1, <1>5
  <2>3. Said' = MouseRelease
    BY <1>1, <2>2, MouseSaid, ScreenEventsAssumption
  <2> QED BY <1>5, <2>1, <2>2, <2>3
<1>6. CASE ~starts /\ ~ends
  <2>1. /\ Down' = Down
        /\ (Down = Nothing => pressed \subseteq WheelSet) /\ (Down # Nothing => pressed # {})
    BY <1>1, <1>2, <1>6
  <2>2. /\ polled'.key = WheelOf(pressed)
        /\ polled'.mods = IF WheelOf(pressed) # ZeroKey THEN mods ELSE {}
    BY <1>1, <1>6
  <2>3. CASE pressed \cap WheelSet = {}
    <3>1. WheelOf(pressed) = ZeroKey
      BY <2>3, WheelTurns
    <3>2. Said' = Nothing
      BY <1>1, <2>2, <3>1, MouseSaid
    <3> QED BY <2>1, <2>2, <2>3, <3>1, <3>2
  <2>4. CASE pressed \cap WheelSet # {}
    <3>1. WheelOf(pressed) \in pressed \cap WheelSet
      BY <2>4, WheelTurns
    <3>2. Said' = WheelOf(pressed) /\ WheelOf(pressed) # ZeroKey
      BY <1>1, <1>3, <2>2, <3>1, MouseSaid
    <3> QED BY <2>1, <2>2, <2>4, <3>1, <3>2
  <2> QED BY <2>3, <2>4
<1> QED BY <1>4, <1>5, <1>6

-----------------------------------------------------------------------------
\* What pollEvent starts with is where Input starts.
LEMMA InitInput == Init => ScreenInput!Init
<1> SUFFICES ASSUME Init PROVE ScreenInput!Init
  OBVIOUS
<1>1. Said = Nothing
  BY ScreenEventsAssumption DEF Init, NoEvent, Said
<1> QED BY <1>1 DEF Init, NoEvent, ScreenInput!Init

\* Every event is an action of Input.
LEMMA StepInput == ModInv /\ [Next]_vars => [ScreenInput!Next]_(ScreenInput!vars)
<1> SUFFICES ASSUME ModInv, [Next]_vars PROVE [ScreenInput!Next]_(ScreenInput!vars)
  OBVIOUS
<1>1. CASE UNCHANGED vars
  BY <1>1 DEF vars, ScreenInput!vars, Said
<1>2. CASE PollOther
  <2>1. Said' = Nothing /\ polled'.mods = {}
    BY <1>2, ScreenEventsAssumption DEF PollOther, NoEvent, Said
  <2> QED BY <1>2, <2>1 DEF PollOther, ScreenInput!Next, ScreenInput!Other
<1>3. ASSUME NEW m \in ModSets, NEW ch \in Chars, PollRune(ch, m)
      PROVE  ScreenInput!Next
  BY <1>3, RuneStep DEF ScreenInput!Next
<1>4. ASSUME NEW m \in ModSets, NEW k \in Keys, PollKey(k, m)
      PROVE  ScreenInput!Next
  BY <1>4, KeyStep DEF ScreenInput!Next
<1>5. ASSUME NEW m \in ModSets, NEW b \in ButtonSets, PollMouse(b, m)
      PROVE  ScreenInput!Next
  BY <1>5, MouseStep, ScreenEventsAssumption DEF ScreenInput!Next
<1> QED BY <1>1, <1>2, <1>3, <1>4, <1>5 DEF Next

\* The refinement: whatever buttons and wheels go up and down together, the
\* presses and releases that pollEvent reports come in turn, a release has the
\* modifiers of its press, and a character comes as it was typed.
THEOREM InputRefined == Spec => ImplementsInput
<1>1. Spec => ScreenInput!Init /\ [][ScreenInput!Next]_(ScreenInput!vars)
  BY InitInput, StepInput, ModInvariant, PTL DEF Spec
<1> QED BY <1>1 DEF ImplementsInput, ScreenInput!Spec
=============================================================================
