------------------------------ MODULE Dispatch ------------------------------
(***************************************************************************)
(* The state of Gui that decides who gets an event: the views from bottom  *)
(* to top, the focused view, the keybindings in the order they were made   *)
(* and the blacklist; and onKey, which takes one event to a handler or to  *)
(* the editor of the focused view.  Views are pointers: a view object goes *)
(* on after DeleteView as long as it has the focus.  A modifier is part of *)
(* the key it comes with.                                                  *)
(***************************************************************************)
EXTENDS Integers, Sequences, FiniteSets, FiniteSetsExt, SequencesExt

CONSTANTS
  Names,       \* names of views
  Objects,     \* view objects
  NoView,      \* nil
  Anywhere,    \* "", the view name of a binding for all views
  Keys,        \* keys that are not runes
  ZeroKey,     \* the key a rune comes with: 0, which is KeyCtrlSpace too
  Chars,       \* runes
  NoChar,      \* rune 0
  Points,      \* the places of the screen
  Inside(_),   \* the points inside the frame of the view of that name
  MaxBindings  \* bound on the number of keybindings

ASSUME DispatchAssumption ==
  /\ ZeroKey \in Keys /\ NoChar \notin Chars
  /\ NoView \notin Objects /\ Anywhere \notin Names
  /\ \A n \in Names : Inside(n) \subseteq Points
  /\ MaxBindings \in Nat

VARIABLES
  views,        \* g.views
  view,         \* the objects in use: name, and what the application set
  currentView,  \* g.currentView
  keybindings,  \* g.keybindings
  blacklist,    \* g.blacklist, which holds no key twice
  last          \* what became of the last event, if nothing happened since

vars == <<views, view, currentView, keybindings, blacklist, last>>

\* getKey: a binding or an event is for a key or for a rune.
Presses == [key : Keys, ch : {NoChar}] \cup [key : {ZeroKey}, ch : Chars]
Bindings == [view : Names \cup {Anywhere}, press : Presses]
\* Editable, Editor (nil or not) and KeybindOnEdit, which counts in an editable
\* view only.
Typings == {"none", "nil editor", "editor", "editor and keybindings"}
Fields == [name : Names, typing : Typings]

Quiet == [what |-> "nothing"]

Init ==
  /\ views = <<>> /\ currentView = NoView
  /\ view = [v \in {} |-> {}]
  /\ keybindings = <<>> /\ blacklist = {}
  /\ last = Quiet

NameOf(v) == view[v].name
Listed == {NameOf(v) : v \in Range(views)}
\* The loops over g.views stop at the first view of the name.
IndexOf(name) == Min({i \in DOMAIN views : NameOf(views[i]) = name})
Named(name) == views[IndexOf(name)]
Without(name) == RemoveAt(views, IndexOf(name))
Editable(v) == view[v].typing # "none"
HasEditor(v) == view[v].typing # "nil editor"
KeybindOnEdit(v) == view[v].typing = "editor and keybindings"

\* The objects that the next state does not refer to are gone.
Collect == view' = Restrict(view, Range(views') \cup ({currentView'} \ {NoView}))

-----------------------------------------------------------------------------
(* Views.                                                                  *)

\* Mutant: no look at whether the name is taken.
SetViewTwice(name, typing) ==
  /\ \E v \in Objects \ DOMAIN view :
       /\ views' = Append(views, v)
       /\ view' = [u \in DOMAIN view \cup {v} |->
                      IF u = v THEN [name |-> name, typing |-> typing] ELSE view[u]]
  /\ last' = Quiet
  /\ UNCHANGED <<currentView, keybindings, blacklist>>

\* Mutant: the view enters the list before it is made.
SetViewNil(name, typing) ==
  /\ name \notin Listed
  /\ views' = Append(views, NoView)
  /\ last' = Quiet
  /\ UNCHANGED <<view, currentView, keybindings, blacklist>>

\* SetView of a new name, and what the application sets on the new view.  A
\* name that exists only has its dimensions updated.
SetView(name, typing) ==
  /\ name \notin Listed
  /\ \E v \in Objects \ DOMAIN view :
       /\ views' = Append(views, v)
       /\ view' = [u \in DOMAIN view \cup {v} |->
                      IF u = v THEN [name |-> name, typing |-> typing] ELSE view[u]]
  /\ last' = Quiet
  /\ UNCHANGED <<currentView, keybindings, blacklist>>

SetViewOnTop(name) ==
  /\ name \in Listed
  /\ views' = Append(Without(name), Named(name))
  /\ last' = Quiet
  /\ UNCHANGED <<view, currentView, keybindings, blacklist>>

SetViewOnBottom(name) ==
  /\ name \in Listed
  /\ views' = <<Named(name)>> \o Without(name)
  /\ last' = Quiet
  /\ UNCHANGED <<view, currentView, keybindings, blacklist>>

\* The focus stays on the deleted view.
DeleteView(name) ==
  /\ name \in Listed
  /\ views' = Without(name)
  /\ last' = Quiet
  /\ UNCHANGED <<currentView, keybindings, blacklist>>
  /\ Collect

SetCurrentView(name) ==
  /\ name \in Listed
  /\ currentView' = Named(name)
  /\ last' = Quiet
  /\ UNCHANGED <<views, keybindings, blacklist>>
  /\ Collect

\* SetManager, as far as this state goes; the blacklist stays.
SetManager ==
  /\ views' = <<>> /\ currentView' = NoView /\ keybindings' = <<>>
  /\ last' = Quiet
  /\ UNCHANGED blacklist
  /\ Collect

-----------------------------------------------------------------------------
(* Keybindings.                                                            *)

SetKeybinding(b) ==
  /\ b.press.key \notin blacklist
  /\ Len(keybindings) < MaxBindings
  /\ keybindings' = Append(keybindings, b)
  /\ last' = Quiet
  /\ UNCHANGED <<views, view, currentView, blacklist>>

\* The first of several equal bindings goes.
DeleteKeybinding(b) ==
  /\ b \in Range(keybindings)
  /\ keybindings' = RemoveAt(keybindings, Min({i \in DOMAIN keybindings : keybindings[i] = b}))
  /\ last' = Quiet
  /\ UNCHANGED <<views, view, currentView, blacklist>>

\* The elements of s at the places in K, one after the other.
Kept(s, K) ==
  [j \in 1 .. Cardinality(K) |-> s[CHOOSE i \in K : Cardinality({k \in K : k <= i}) = j]]

DeleteKeybindings(name) ==
  /\ keybindings' = Kept(keybindings, {i \in DOMAIN keybindings : keybindings[i].view # name})
  /\ last' = Quiet
  /\ UNCHANGED <<views, view, currentView, blacklist>>

BlacklistKeybinding(k) ==
  /\ k \notin blacklist
  /\ blacklist' = blacklist \cup {k}
  /\ last' = Quiet
  /\ UNCHANGED <<views, view, currentView, keybindings>>

WhitelistKeybinding(k) ==
  /\ k \in blacklist
  /\ blacklist' = blacklist \ {k}
  /\ last' = Quiet
  /\ UNCHANGED <<views, view, currentView, keybindings>>

-----------------------------------------------------------------------------
(* Events.                                                                 *)

\* Mutant: a rune is taken from the editor whatever KeybindOnEdit says.
MatchViewAlways(b, v) ==
  /\ v # NoView
  /\ b.view = NameOf(v)

\* matchView: a rune is not taken from an editable view.
MatchView(b, v) ==
  /\ v # NoView
  /\ ~(Editable(v) /\ b.press.ch # NoChar /\ ~KeybindOnEdit(v))
  /\ b.view = NameOf(v)

MatchGlobal(b, v) ==
  /\ b.view = Anywhere
  /\ v = NoView \/ ~Editable(v) \/ b.press.ch = NoChar

Own(press, v) ==
  {i \in DOMAIN keybindings : keybindings[i].press = press /\ MatchView(keybindings[i], v)}
Global(press, v) ==
  {i \in DOMAIN keybindings : keybindings[i].press = press /\ MatchGlobal(keybindings[i], v)}

\* Mutant: the last match wins, whatever kind it is of.
ChosenLast(press, v) ==
  IF Own(press, v) \cup Global(press, v) = {} THEN 0
  ELSE Max(Own(press, v) \cup Global(press, v))

\* The scan of execKeybindings: it returns at the first binding of the view
\* and goes on from one global binding to the next.
Chosen(press, v) ==
  IF Own(press, v) # {} THEN Min(Own(press, v))
  ELSE IF Global(press, v) # {} THEN Max(Global(press, v)) ELSE 0

\* execKeybinding: a blacklisted key matches and nothing runs.
Run(press, v) ==
  [what |-> IF keybindings[Chosen(press, v)].press.key \in blacklist
            THEN "blocked" ELSE "handler",
   press |-> press, view |-> v, binding |-> Chosen(press, v)]

\* onKey, eventKey.
Key(press) ==
  /\ last' =
       IF Chosen(press, currentView) # 0 THEN Run(press, currentView)
       ELSE [what |-> IF currentView # NoView /\ Editable(currentView) /\ HasEditor(currentView)
                      THEN "edit" ELSE "ignored",
             press |-> press, view |-> currentView, binding |-> 0]
  /\ UNCHANGED <<views, view, currentView, keybindings, blacklist>>

\* ViewByPosition.
ViewAt(p) ==
  LET hit == {i \in DOMAIN views : p \in Inside(NameOf(views[i]))}
  IN IF hit = {} THEN NoView ELSE views[Max(hit)]

\* onKey, eventMouse: the view that is hit gets its cursor set (Editor) and
\* stands in for the focused one.
Click(k, p) ==
  LET press == [key |-> k, ch |-> NoChar]
      v == ViewAt(p)
  IN /\ v # NoView
     /\ last' = IF Chosen(press, v) # 0 THEN Run(press, v)
                ELSE [what |-> "ignored", press |-> press, view |-> v, binding |-> 0]
     /\ UNCHANGED <<views, view, currentView, keybindings, blacklist>>

-----------------------------------------------------------------------------
Next ==
  \/ \E n \in Names, typing \in Typings : SetView(n, typing)
  \/ \E n \in Names :
       SetViewOnTop(n) \/ SetViewOnBottom(n) \/ DeleteView(n) \/ SetCurrentView(n)
  \/ SetManager
  \/ \E b \in Bindings : SetKeybinding(b) \/ DeleteKeybinding(b)
  \/ \E n \in Names \cup {Anywhere} : DeleteKeybindings(n)
  \/ \E k \in Keys : BlacklistKeybinding(k) \/ WhitelistKeybinding(k)
  \/ \E press \in Presses : Key(press)
  \/ \E k \in Keys, p \in Points : Click(k, p)

Spec == Init /\ [][Next]_vars

-----------------------------------------------------------------------------
(* Properties.                                                             *)

\* The types of the variables.
TypeOK ==
  /\ views \in Seq(Objects) /\ view \in [Range(views) \cup ({currentView} \ {NoView}) -> Fields]
  /\ currentView \in Objects \cup {NoView}
  /\ keybindings \in Seq(Bindings) /\ Len(keybindings) <= MaxBindings
  /\ blacklist \subseteq Keys

\* However views are made, stacked, deleted and made again, a name stands for
\* one view: every lookup by name that finds the first finds the only one.
NamesUnique ==
  /\ Cardinality(Range(views)) = Len(views)
  /\ Cardinality(Listed) = Len(views)

\* While the user types into a field that does not ask for keybindings, each
\* rune goes to its editor: no binding of that view or of all views, and no
\* blacklisted key, takes it away.
Typing(v) == v # NoView /\ Editable(v) /\ HasEditor(v) /\ ~KeybindOnEdit(v)
TypedRunesReachEditor ==
  last.what # "nothing" /\ last.press.ch # NoChar /\ Typing(last.view) => last.what = "edit"

\* A binding for all views never runs in the place of one that the view has
\* for the same key, in whatever order they were made.
ViewBindingsWin ==
  last.what = "handler" /\ keybindings[last.binding].view = Anywhere =>
    \A i \in DOMAIN keybindings :
      ~(keybindings[i].press = last.press /\ MatchView(keybindings[i], last.view))

=============================================================================
