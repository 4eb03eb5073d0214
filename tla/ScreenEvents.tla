---------------------------- MODULE ScreenEvents ----------------------------
(***************************************************************************)
(* pollEvent: the events of the terminal become the events of gocui.  The  *)
(* terminal says which buttons are down, not which went down or up, so two *)
(* globals remember the first button and its modifiers.  The place of a    *)
(* mouse event is left out: Screen has what becomes of it.                 *)
(***************************************************************************)
EXTENDS Integers, Sequences, FiniteSets

CONSTANTS
  Chars, SpaceChar,  \* runes
  NoChar,            \* rune 0
  Keys,              \* tcell's keys, but KeyRune
  ZeroKey,           \* key 0, which is KeyCtrlSpace and stands for no key
  KeySpace,          \* gocui's key for a space, none of tcell's
  Primary, Secondary, Middle,  \* the buttons that have names
  OtherButtons,
  Wheels,            \* the four wheels, the ones that take precedence last
  MouseRelease,
  ModSets,           \* sets of modifiers
  ButtonSets,        \* what may be down
  Nothing

Buttons == {Primary, Secondary, Middle} \cup OtherButtons
WheelSet == {Wheels[i] : i \in DOMAIN Wheels}

ASSUME ScreenEventsAssumption ==
  /\ ZeroKey \in Keys /\ KeySpace \notin Keys /\ SpaceChar \in Chars /\ NoChar \notin Chars
  \* What the mouse reports has the codes of KeyF56 to KeyF63.
  /\ {ZeroKey, KeySpace} \cap (Buttons \cup WheelSet \cup {MouseRelease}) = {}
  /\ Wheels \in Seq(WheelSet)
  /\ {} \in ModSets /\ Nothing \notin ModSets
  /\ {} \in ButtonSets /\ ButtonSets \subseteq SUBSET (Buttons \cup WheelSet)

VARIABLES
  lastMouseKey,  \* the buttons that went down first, {} for ButtonNone
  lastMouseMod,
  event,         \* history: the last event of the terminal
  polled         \* what became of it

vars == <<lastMouseKey, lastMouseMod, event, polled>>

NoEvent == [type |-> "none", key |-> ZeroKey, ch |-> NoChar, mods |-> {}]

Init == lastMouseKey = {} /\ lastMouseMod = {} /\ event = Nothing /\ polled = NoEvent

\* The other events say nothing that is looked at.
PollOther == event' = Nothing /\ polled' = NoEvent /\ UNCHANGED <<lastMouseKey, lastMouseMod>>

\* A key is a rune, the space bar, or another key.
FromKey(key, ch, mods) ==
  LET space == mods = {"ctrl"} /\ key = KeySpace
      typed == ch # NoChar \/ key = KeySpace
  IN [type |-> "key",
      key  |-> IF space THEN ZeroKey ELSE key,
      ch   |-> IF space THEN NoChar ELSE ch,
      mods |-> IF mods = {"ctrl"} \/ (mods = {"shift"} /\ typed) THEN {} ELSE mods]

\* EventKey with KeyRune.
PollRune(ch, mods) ==
  /\ event' = [ch |-> ch, mods |-> mods]
  /\ polled' = IF ch = SpaceChar THEN FromKey(KeySpace, NoChar, mods)
               ELSE FromKey(ZeroKey, ch, mods)
  /\ UNCHANGED <<lastMouseKey, lastMouseMod>>

\* EventKey with another key.
PollKey(key, mods) ==
  /\ event' = [key |-> key, mods |-> mods]
  /\ polled' = FromKey(key, NoChar, mods)
  /\ UNCHANGED <<lastMouseKey, lastMouseMod>>

\* The wheel that is looked at last.
WheelOf(pressed) ==
  LET ws == {i \in DOMAIN Wheels : Wheels[i] \in pressed}
  IN IF ws = {} THEN ZeroKey ELSE Wheels[CHOOSE i \in ws : \A j \in ws : j <= i]

\* Mutant: a wheel on its own is the release of the buttons.
NoButtons(pressed) == pressed \ WheelSet = {}

\* ButtonNone: a wheel that turns counts as a button that is down.
NoneDown(pressed) == pressed = {}

\* EventMouse.  Buttons that go down together, or with a wheel, have no name,
\* and further ones are not reported.
PollMouse(pressed, mods) ==
  LET down == pressed \ WheelSet
      starts == down # {} /\ lastMouseKey = {}
      ends == NoneDown(pressed) /\ lastMouseKey # {}
  IN /\ event' = [buttons |-> pressed, mods |-> mods]
     /\ lastMouseKey' = IF starts THEN down ELSE IF ends THEN {} ELSE lastMouseKey
     /\ lastMouseMod' = IF starts THEN mods ELSE IF ends THEN {} ELSE lastMouseMod
     /\ polled' =
          [type |-> "mouse", ch |-> NoChar,
           key  |-> IF ends THEN MouseRelease
                    ELSE IF starts /\ \E b \in {Primary, Secondary, Middle} : pressed = {b}
                    THEN CHOOSE b \in Buttons : pressed = {b}
                    ELSE WheelOf(pressed),
           mods |-> IF ends THEN lastMouseMod
                    ELSE IF starts \/ WheelOf(pressed) # ZeroKey THEN mods ELSE {}]

Next ==
  \/ PollOther
  \/ \E m \in ModSets :
       \/ \E ch \in Chars : PollRune(ch, m)
       \/ \E k \in Keys : PollKey(k, m)
       \/ \E b \in ButtonSets : PollMouse(b, m)

Spec == Init /\ [][Next]_vars

-----------------------------------------------------------------------------
\* What is said in one gocuiEvent: a rune, a space, a key, a button or nothing.
Said ==
  CASE polled.ch # NoChar -> polled.ch
    [] polled.key = KeySpace -> SpaceChar
    [] polled.ch = NoChar /\ polled.key # KeySpace /\ (polled.type = "key" \/ polled.key # ZeroKey) ->
         polled.key
    [] OTHER -> Nothing

ScreenInput == INSTANCE Input WITH
  Texts <- Chars, OtherKeys <- Keys, CtrlSpace <- ZeroKey, Space <- SpaceChar,
  Wheels <- WheelSet, Release <- MouseRelease,
  down <- IF lastMouseKey = {} THEN Nothing ELSE lastMouseMod,
  report <- [of |-> Said, mods |-> polled.mods]

\* What pollEvent reports of the keyboard and the mouse is what Input promises,
\* whatever buttons and wheels go up and down together: presses and releases
\* in turn, a release with the modifiers of its press, and characters as they
\* are typed.
ImplementsInput == ScreenInput!Spec
=============================================================================
