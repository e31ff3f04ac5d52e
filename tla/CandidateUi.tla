----------------------------- MODULE CandidateUi -----------------------------
(***************************************************************************)
(* Candidate lists from the key to the screen.  Every text service decides *)
(* its keys (KeyRouter), keeps its list (CandidateList) and writes what the *)
(* list shows to a pipe of its own, without ever reading an answer.  One   *)
(* service reads all pipes, remembers whose list it was given last, and    *)
(* hands the newest to its UI thread, where other windows live too: one    *)
(* slot holds it, and a message says that something is in the slot.        *)
(*                                                                         *)
(* The composition is only here to say whether it is open and whether it   *)
(* holds results back (module Composition has the rest); sizes of lists,   *)
(* and what the host makes of a list, are chosen.  Keys of a composition   *)
(* that ends may hide the list once more, when its edits are granted.      *)
(***************************************************************************)
EXTENDS CandidateList, SequencesExt

CONSTANTS
  Clients,         \* the text services
  Uses,            \* the uses that are explored, see Use
  MaxLists,        \* bound: lists of one text service
  MaxConnections   \* bound: connections to the service

\* One use: the keys, the other calls, how many of both; the text services;
\* the sizes of lists; what the host does when a list is to be shown; whether
\* the full width may be toggled, and whether keys also go to contexts that take
\* no input.
Use == [among : SUBSET STRING, keys : SUBSET AllKeys, left : Nat, clients : SUBSET Clients,
        sizes : SUBSET (Nat \ {0}), shows : SUBSET {"shown", "declined", "failed", "unanchored"},
        toggles : BOOLEAN, closed : BOOLEAN]

ASSUME UsesAssumption == Uses \subseteq Use
ASSUME BoundsAssumption == {MaxLists, MaxConnections} \subseteq Nat

VARIABLES
  client,    \* client[c]: the text service c, see NewClient
  keyboard,  \* the modifiers held; where another key went down while Shift was,
             \* in a context that takes input
  service,   \* the service's pipe server
  ui,        \* its UI thread
  calls      \* the calls still to be made, a Use

vars == <<client, keyboard, service, ui, calls>>

NoPipe   == 0
Untested == [key |-> "", repeated |-> FALSE, action |-> ""]

\* begun: ui_element_id_ is valid; locked: candidates_opened, not closed yet.
NewClient ==
  [element |-> NewElement, begun |-> FALSE, composing |-> FALSE, locked |-> FALSE,
   mode |-> "chinese", full |-> FALSE, keys |-> NewKeyState, tested |-> Untested, pipe |-> NoPipe]

\* connections[id]: what was written and not read yet, by whom, and whether the
\* writer still has its end; active: the connection that presented last.
NewService == [up |-> TRUE, connections |-> [id \in {} |-> {}], active |-> NoPipe, next |-> 1]

Hidden == [visible |-> FALSE]
NewUi  == [pending |-> <<>>, messages |-> <<>>, window |-> Hidden]

Put(f, x, v) == [y \in DOMAIN f \union {x} |-> IF y = x THEN v ELSE f[y]]

-----------------------------------------------------------------------------
(***************************************************************************)
(* The pipe of a text service                                              *)
(***************************************************************************)
Connected(w) == w.pipe \in DOMAIN w.service.connections

\* ensure_pipe: a service that is not there is launched, which may take too long.
Connect(w, c, starts) ==
  IF (w.service.up \/ starts) /\ w.service.next <= MaxConnections
  THEN [pipe |-> w.service.next,
        service |-> [w.service EXCEPT
          !.up = TRUE, !.next = @ + 1,
          !.connections = Put(@, w.service.next, [of |-> c, commands |-> <<>>, open |-> TRUE])]]
  ELSE w

\* What cannot be written ends the connection; it is not written again.
Write(w, command) ==
  IF Connected(w)
  THEN [w EXCEPT !.service.connections[w.pipe].commands = Append(@, command)]
  ELSE [w EXCEPT !.pipe = NoPipe]

Transmit(w, c, command, starts) ==
  IF w.pipe # NoPipe THEN Write(w, command)
  ELSE IF command.do = "hide" THEN w ELSE Write(Connect(w, c, starts), command)

\* The n-th element of Transmission is what the first n commands make.
Transmission(c, sends, starts) ==
  LET after[n \in 0..Len(sends)] ==
        IF n = 0 THEN [pipe |-> client[c].pipe, service |-> service]
        ELSE Transmit(after[n - 1], c, sends[n], starts)
  IN after

Transmitted(c, sends, starts) == Transmission(c, sends, starts)[Len(sends)]

\* The text service becomes st.client and sends st.sends.
Become(c, st) ==
  \E starts \in IF service.up THEN {TRUE} ELSE BOOLEAN :
    LET w == Transmitted(c, st.sends, starts)
    IN  /\ client' = [client EXCEPT ![c] = [st.client EXCEPT !.pipe = w.pipe]]
        /\ service' = w.service

\* The text service gives its end of the pipe up, with what it wrote in it.
Closed(s, pipe) ==
  IF pipe \in DOMAIN s.connections THEN [s EXCEPT !.connections[pipe].open = FALSE] ELSE s

-----------------------------------------------------------------------------
(***************************************************************************)
(* The list of a text service                                              *)
(***************************************************************************)
Now(c) == [client |-> client[c], sends |-> <<>>]

Sending(st, commands) == [st EXCEPT !.sends = @ \o commands]

WithElement(st, e) == [st EXCEPT !.client.element = e]

\* The element is changed and what it shows is sent.
Changed(st, e) == Sending(WithElement(st, e), Refresh(e))

ShowElement(st) == Changed(st, [st.client.element EXCEPT !.shown = TRUE])

\* dismiss_ui_element
Dismiss(st) ==
  LET gone == [st.client.element EXCEPT !.shown = FALSE, !.placed = FALSE]
  IN  Sending([st EXCEPT !.client = [@ EXCEPT !.element = gone, !.begun = FALSE]], <<HideCommand>>)

\* CandidateUiController::show, and what became of it.
ShowList(st, size, outcome) ==
  LET old   == st.client.element
      new   == [NewElement EXCEPT !.list = old.list + 1, !.size = size,
                                  !.shown = old.shown, !.placed = TRUE]
      begun == outcome \in {"shown", "declined"}
  IN  CASE outcome = "unanchored" -> Dismiss(st)
        [] outcome # "unanchored" /\ old.shown -> ShowElement(Changed(st, new))
        [] outcome # "unanchored" /\ ~old.shown ->
             LET opened == [WithElement(st, new) EXCEPT !.client.begun = begun]
             IN  IF outcome = "shown" THEN ShowElement(opened) ELSE opened

\* The entry's text is chosen; the list goes.
Finalize(st) == Sending(Dismiss(st), <<HideCommand>>)
Abort(st)    == Sending(st, <<HideCommand>>)

-----------------------------------------------------------------------------
(***************************************************************************)
(* Keys                                                                    *)
(***************************************************************************)
Ended(st)     == [st EXCEPT !.client.composing = FALSE, !.client.locked = FALSE]
MayEnd(st)    == {st, Ended(st)}
Composed(st)  == [st EXCEPT !.client.composing = TRUE]

\* show_candidate_list_for_current_input; not every entry has candidates.
OpenList(st) ==
  {Dismiss(st)} \union
  (IF st.client.composing /\ st.client.element.list < MaxLists
   THEN {ShowList([st EXCEPT !.client.locked = TRUE], size, outcome) :
           size \in calls.sizes, outcome \in calls.shows}
   ELSE {})

\* perform: all that a decision but "candidates" may lead to.
Perform(st, press, action) ==
  CASE action \in {"pass", "shiftDown", "arm", "ignore", "backspaceInOrder"} -> {st}
    [] action = "toggleWidth" -> {[st EXCEPT !.client.full = IF press.repeated THEN @ ELSE ~@]}
    [] action \in {"insert", "move"} -> {Dismiss(st)}
    [] action \in {"compose", "composeEnglish", "reading"} -> {Composed(Dismiss(st))}
    [] action \in {"backspace", "enter"} -> MayEnd(Dismiss(st))
    [] action = "escape" -> {Ended(st), Ended(Dismiss(st))}
    [] action = "openCandidates" -> OpenList(st)

Press(key) == [key |-> key, held |-> keyboard.held \union ({key} \intersect Modifiers),
               repeated |-> key \in keyboard.held]

Context(s, press, open, behind, complete) ==
  [mode |-> s.mode, composing |-> s.composing, complete |-> s.composing /\ complete,
   open |-> open, takes |-> open /\ press.key \in ListKeys,
   behind |-> behind /\ press.key = "back" /\ ~s.composing,
   full |-> s.full, toggles |-> calls.toggles, prefix |-> s.keys.prefix]

\* perform_candidate_key: a key the list does not handle closes it and is
\* decided once more, without it.
PerformCandidateKey(st, press, complete) ==
  LET e       == st.client.element
      digit   == press.key \in Digits
      without == IF e.shown THEN Dismiss(st) ELSE st
  IN  IF e.shown /\ press.key \in Turning
      THEN {Sending(WithElement(st, Turn(e, press.key)), Turned(e, press.key))}
      ELSE IF e.shown /\ press.key \in {"return", "space"} THEN {Finalize(st)}
      ELSE IF e.shown /\ press.key = "escape" THEN {Dismiss(Abort(st))}
      ELSE IF e.shown /\ digit /\ Choice(e, press.key) >= 0
      THEN {Finalize(Changed(st, Select(e, Choice(e, press.key))))}
      ELSE Perform(without, press,
                   Route(press, Context(without.client, press, FALSE, FALSE, complete)))

\* Mutant: results are let in again though the list is still open.
AfterKeyAlways(st) == [st EXCEPT !.client.locked = FALSE]

\* A result held back while the list was open lands once it closes.
AfterKey(st) == [st EXCEPT !.client.locked = @ /\ st.client.element.shown]

Call(operation) ==
  /\ operation \in calls.among
  /\ calls.left > 0
  /\ calls' = [calls EXCEPT !.left = @ - 1]

\* The key goes down at c, in a context that takes input or in one that does not.
Down(c, key, takes) ==
  keyboard' = [held |-> keyboard.held \union ({key} \intersect Modifiers),
               typed |-> IF "shift" \in keyboard.held
                         THEN keyboard.typed \union (IF key # "shift" /\ takes THEN {c} ELSE {})
                         ELSE keyboard.typed \ (IF key = "shift" THEN {c} ELSE {})]

Decide(s, press, behind, complete) ==
  Route(press, Context(s, press, s.element.shown, behind, complete))

\* OnTestKeyDown: the key is decided, in a context that takes input.
TestKey(c, key, behind, complete) ==
  /\ Call("test")
  /\ key \in calls.keys
  /\ LET s      == client[c]
         keys   == ModeChanged(Observe(s.keys, Press(key)), s.mode)
         action == Decide([s EXCEPT !.keys = keys], Press(key), behind, complete)
         tested == [key |-> key, repeated |-> Press(key).repeated, action |-> action]
     IN  client' = [client EXCEPT ![c].keys = keys, ![c].tested = tested]
  /\ Down(c, key, TRUE)
  /\ UNCHANGED <<service, ui>>

\* OnKeyDown carries out what was decided for the key.
HandleKey(c, press, action, complete) ==
  LET s    == [client[c] EXCEPT !.tested = Untested, !.keys = KeyHandled(@, press, action)]
      st   == [client |-> s, sends |-> <<>>]
      outcomes == IF action = "candidates" THEN PerformCandidateKey(st, press, complete)
                  ELSE Perform(st, press, action)
  IN  \E after \in outcomes : Become(c, AfterKey(after))

\* The press that was tested is handled if it is taken, with the modifiers as
\* they are by then.
TestedKey(c) ==
  LET tested == client[c].tested
      press  == [key |-> tested.key, held |-> keyboard.held, repeated |-> tested.repeated]
  IN  /\ tested # Untested /\ Eaten(tested.action)
      /\ \E complete \in BOOLEAN : HandleKey(c, press, tested.action, complete)
      /\ UNCHANGED <<keyboard, ui, calls>>

\* A host that does not ask first; what was decided for an earlier press of the
\* key, and not carried out, is taken for it.
DirectKey(c, key, behind, complete) ==
  /\ Call("direct")
  /\ key \in calls.keys
  /\ LET s       == client[c]
         decided == Decide([s EXCEPT !.keys = ModeChanged(@, s.mode)], Press(key), behind, complete)
         known   == s.tested # Untested /\ s.tested.key = key
     IN  HandleKey(c, Press(key), IF known THEN s.tested.action ELSE decided, complete)
  /\ Down(c, key, TRUE)
  /\ UNCHANGED ui

\* context_accepts_input: an empty, disabled or read-only context.  The key is not
\* observed, nor carried out; only what was decided before is forgotten.
Declines(c) ==
  /\ calls.closed
  /\ client' = [client EXCEPT ![c].tested = Untested]
  /\ UNCHANGED <<service, ui>>

DeclineKey(c, key) ==
  /\ Call("test") \/ Call("direct")
  /\ key \in calls.keys
  /\ Declines(c)
  /\ Down(c, key, FALSE)

\* The context took the key when it was tested, and does not any more.
DeclineTested(c) ==
  /\ client[c].tested # Untested /\ Eaten(client[c].tested.action)
  /\ Declines(c)
  /\ UNCHANGED <<keyboard, calls>>

\* A modifier comes up: the release of a Shift tap switches the mode, and from
\* Chinese to English drops the unfinished reading with the list.
ReleaseKey(c, key) ==
  /\ Call("release")
  /\ key \in keyboard.held
  /\ keyboard' = [keyboard EXCEPT !.held = @ \ {key}]
  /\ LET s    == client[c]
         tap  == key = "shift" /\ s.keys.alone
         mode == IF s.mode = "chinese" THEN "english" ELSE "chinese"
         keys == [s.keys EXCEPT !.alone = @ /\ key # "shift"]
         st   == [client |-> [s EXCEPT !.keys = IF tap THEN ModeChanged(keys, mode) ELSE keys,
                                       !.mode = IF tap THEN mode ELSE @],
                  sends |-> <<>>]
     IN  \E after \in IF tap /\ s.composing /\ mode = "english" THEN MayEnd(Dismiss(st)) ELSE {st} :
           Become(c, after)
  /\ UNCHANGED ui

-----------------------------------------------------------------------------
(***************************************************************************)
(* Other calls of the host                                                 *)
(***************************************************************************)
\* The host has the element from BeginUIElement and may draw it on its own.
HostSelects(c) ==
  /\ Call("select")
  /\ client[c].begun
  /\ \E index \in 0..(client[c].element.size - 1) :
       Become(c, Changed(Now(c), Select(client[c].element, index)))
  /\ UNCHANGED <<keyboard, ui>>

HostTurns(c) ==
  /\ Call("turn")
  /\ client[c].begun
  /\ \E index \in 0..(client[c].element.size - 1) :
       Become(c, Changed(Now(c), OnPage(client[c].element, index \div PageSize)))
  /\ UNCHANGED <<keyboard, ui>>

HostFinishes(c) ==
  /\ Call("finish")
  /\ client[c].begun
  /\ Become(c, Finalize(Now(c))) \/ Become(c, Abort(Now(c)))
  /\ UNCHANGED <<keyboard, ui>>

HostShows(c) ==
  /\ Call("show")
  /\ client[c].begun
  /\ \/ Become(c, ShowElement(Now(c)))
     \/ Become(c, Abort([Now(c) EXCEPT !.client.element.shown = FALSE]))
  /\ UNCHANGED <<keyboard, ui>>

\* OnCompositionTerminated
Terminate(c) ==
  /\ Call("terminate")
  /\ client[c].composing
  /\ Become(c, Ended(Dismiss(Now(c))))
  /\ UNCHANGED <<keyboard, ui>>

\* The document grants the edit that ends an earlier composition.
GrantEdit(c) ==
  /\ Call("grant")
  /\ Become(c, Dismiss(Now(c)))
  /\ UNCHANGED <<keyboard, ui>>

\* The text service is deactivated, or its process ends.
Leave(c) ==
  /\ Call("leave")
  /\ \E sends \in {<<HideCommand>>, <<>>} :
       service' = Closed(Transmitted(c, sends, FALSE).service, client[c].pipe)
  /\ client' = [client EXCEPT ![c] = NewClient]
  /\ UNCHANGED <<keyboard, ui>>

-----------------------------------------------------------------------------
(***************************************************************************)
(* The service                                                             *)
(***************************************************************************)
\* candidate_ui_.hide(): nothing is left to present.
HideUi(u) == [u EXCEPT !.pending = <<>>, !.messages = Append(@, "hide")]

\* The list that was presented last is hidden by its owner only.
HideIfActive(id, s) ==
  IF s.active = id THEN [service |-> [s EXCEPT !.active = NoPipe], ui |-> HideUi(ui)]
  ELSE [service |-> s, ui |-> ui]

Take(st) == service' = st.service /\ ui' = st.ui

Disconnected(s, id) == [s EXCEPT !.connections = Restrict(@, DOMAIN @ \ {id})]

\* A presentation takes the place of one the UI thread has not come to yet;
\* one that is not valid ends the connection.
ServePresent(id) ==
  /\ service.connections[id].commands # <<>>
  /\ LET p == Head(service.connections[id].commands)
         s == [service EXCEPT !.connections[id].commands = Tail(@)]
     IN  /\ p.do = "present"
         /\ Take(IF ValidPresentation(p)
                 THEN [service |-> [s EXCEPT !.active = id],
                       ui |-> [ui EXCEPT !.pending = <<[of |-> service.connections[id].of, shows |-> p]>>,
                                         !.messages = Append(@, "present")]]
                 ELSE HideIfActive(id, Disconnected(s, id)))

ServeHide(id) ==
  /\ service.connections[id].commands # <<>>
  /\ Head(service.connections[id].commands) = HideCommand
  /\ Take(HideIfActive(id, [service EXCEPT !.connections[id].commands = Tail(@)]))

\* Mutant: a list outlives the connection it came by.
EndClientQuietly(id) ==
  /\ service.connections[id].commands = <<>> /\ ~service.connections[id].open
  /\ service' = Disconnected(service, id)
  /\ UNCHANGED ui

EndClient(id) ==
  /\ service.connections[id].commands = <<>> /\ ~service.connections[id].open
  /\ Take(HideIfActive(id, Disconnected(service, id)))

Serve(id) ==
  /\ id \in DOMAIN service.connections
  /\ ServePresent(id) \/ ServeHide(id) \/ EndClient(id)
  /\ UNCHANGED <<client, keyboard, calls>>

\* present_on_thread: the window takes every part of the presentation, each
\* kept within what it was given before, and is shown.
Windowed(presentation) ==
  LET p       == presentation.shows
      columns == Max({1, Min({p.columns, Columns})})
      size    == Min({p.size, Columns * PageSize})
  IN  [visible |-> TRUE, of |-> presentation.of, list |-> p.list, begin |-> p.begin, size |-> size,
       columns |-> columns, number |-> Min({p.number, columns - 1}),
       selection |-> Min({p.selection, size - 1})]

\* The slot is emptied by whichever message comes first.
PresentOnThread ==
  /\ ui.messages # <<>> /\ Head(ui.messages) = "present"
  /\ \E window \in
       IF ui.pending = <<>> THEN {ui.window}
       ELSE {Windowed(ui.pending[1])} \union (IF "throw" \in calls.among THEN {Hidden} ELSE {}) :
       ui' = [pending |-> <<>>, messages |-> Tail(ui.messages), window |-> window]

HideOnThread ==
  /\ ui.messages # <<>> /\ Head(ui.messages) = "hide"
  /\ ui' = [ui EXCEPT !.messages = Tail(@), !.window = Hidden]

UiThread ==
  /\ PresentOnThread \/ HideOnThread
  /\ UNCHANGED <<client, keyboard, service, calls>>

\* The service's process ends; every end of a pipe with it.
Crash ==
  /\ Call("crash")
  /\ service.up
  /\ service' = [NewService EXCEPT !.up = FALSE, !.next = service.next]
  /\ ui' = NewUi
  /\ UNCHANGED <<client, keyboard>>

-----------------------------------------------------------------------------
Init ==
  /\ calls \in Uses
  /\ client = [c \in Clients |-> NewClient]
  /\ keyboard = [held |-> {}, typed |-> {}]
  /\ service = NewService
  /\ ui = NewUi

Key(c, key) ==
  \E behind \in IF key = "back" THEN BOOLEAN ELSE {FALSE},
     complete \in IF key = "space" THEN BOOLEAN ELSE {FALSE} :
    TestKey(c, key, behind, complete) \/ DirectKey(c, key, behind, complete)

Host(c) ==
  HostSelects(c) \/ HostTurns(c) \/ HostFinishes(c) \/ HostShows(c)
    \/ Terminate(c) \/ GrantEdit(c) \/ Leave(c)

Next ==
  \/ \E c \in calls.clients :
       \/ \E key \in calls.keys : Key(c, key) \/ DeclineKey(c, key) \/ ReleaseKey(c, key)
       \/ TestedKey(c) \/ DeclineTested(c) \/ Host(c)
  \/ \E id \in DOMAIN service.connections : Serve(id)
  \/ UiThread \/ Crash

Spec == Init /\ [][Next]_vars

\* The service reads what was written to it, and its UI thread takes the
\* messages posted to it.  The users and the hosts need do nothing.
Fairness == WF_vars(UiThread) /\ \A id \in 1..MaxConnections : WF_vars(Serve(id))

LiveSpec == Spec /\ Fairness
=============================================================================
