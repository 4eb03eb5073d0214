------------------------------- MODULE Input --------------------------------
(***************************************************************************)
(* What gocui promises of the keyboard and the mouse of a terminal.  A     *)
(* character comes as itself, whatever Shift did to make it.  Of the       *)
(* buttons only the first that goes down and the release of the last are   *)
(* reported, in turn, both with the modifiers the first went down with.    *)
(***************************************************************************)
CONSTANTS
  Texts,       \* characters
  OtherKeys,   \* the keys that are no characters
  CtrlSpace,   \* one of them
  Space,       \* one of the characters
  ModSets,     \* sets of modifiers
  Buttons, Wheels, Release,  \* what the mouse can report
  Nothing

VARIABLES
  event,   \* what the terminal reported last
  down,    \* the modifiers a button went down with, or Nothing
  report   \* what the program is told: an input and its modifiers

vars == <<event, down, report>>

Told(inputs, mods) == report' \in [of : inputs, mods : {mods}]

Init == event = Nothing /\ down = Nothing /\ report = [of |-> Nothing, mods |-> {}]

\* Nothing is reported, or something else than input.
Other == event' = Nothing /\ report' = [of |-> Nothing, mods |-> {}] /\ UNCHANGED down

\* Ctrl alone makes a key of its own and has no say after that.
Character(ch, mods) ==
  /\ event' = [ch |-> ch, mods |-> mods]
  /\ \/ ch = Space /\ mods = {"ctrl"} /\ Told({CtrlSpace}, {})
     \/ ~(ch = Space /\ mods = {"ctrl"}) /\ mods \in {{}, {"shift"}, {"ctrl"}} /\ Told({ch}, {})
     \/ mods \notin {{}, {"shift"}, {"ctrl"}} /\ Told({ch}, mods)
  /\ UNCHANGED down
OtherKey(k, mods) ==
  /\ event' = [key |-> k, mods |-> mods]
  /\ Told({k}, mods \ (IF mods = {"ctrl"} THEN mods ELSE {}))
  /\ UNCHANGED down

Mouse(pressed, mods) ==
  /\ event' = [buttons |-> pressed, mods |-> mods]
  /\ \/ down = Nothing /\ pressed \ Wheels # {} /\ down' = mods
        /\ Told((pressed \cap Wheels) \cup {b \in pressed : pressed = {b}} \cup {Nothing}, mods)
     \/ down # Nothing /\ pressed = {} /\ down' = Nothing /\ Told({Release}, down)
     \/ (down = Nothing => pressed \subseteq Wheels) /\ (down # Nothing => pressed # {})
        /\ UNCHANGED down
        /\ IF pressed \cap Wheels = {} THEN Told({Nothing}, {}) ELSE Told(pressed \cap Wheels, mods)

Next ==
  \/ Other
  \/ \E m \in ModSets :
       \/ \E ch \in Texts : Character(ch, m)
       \/ \E k \in OtherKeys : OtherKey(k, m)
       \/ \E b \in SUBSET (Buttons \cup Wheels) : Mouse(b, m)

Spec == Init /\ [][Next]_vars
=============================================================================
