------------------------- MODULE CandidateProperties -------------------------
(***************************************************************************)
(* What the candidate lists promise.                                       *)
(***************************************************************************)
EXTENDS CandidateUi

-----------------------------------------------------------------------------
(***************************************************************************)
(* The state                                                               *)
(***************************************************************************)
ElementType ==
  [list : 0..MaxLists, size : Nat, selection : Nat, page : Nat,
   expanded : BOOLEAN, shown : BOOLEAN, placed : BOOLEAN]
ClientType ==
  [element : ElementType, begun : BOOLEAN, composing : BOOLEAN, locked : BOOLEAN,
   mode : {"chinese", "english"}, full : BOOLEAN, keys : [alone : BOOLEAN, prefix : BOOLEAN],
   tested : [key : AllKeys \union {""}, repeated : BOOLEAN, action : Actions \union {""}],
   pipe : 0..MaxConnections]

Commands == UNION {Range(service.connections[id].commands) : id \in DOMAIN service.connections}

\* Every variable has the shape its C++ counterpart has; the selection is on
\* the current page, and all that is written to a pipe is what the service
\* accepts: a presentation it rejects would end the connection.
CandidatesOK ==
  /\ client \in [Clients -> ClientType]
  /\ \A c \in Clients : LET e == client[c].element IN
       e.size > 0 => /\ e.selection < e.size /\ HasPage(e, e.page)
                     /\ e.selection \div PageSize = e.page
  /\ \A command \in Commands : command = HideCommand \/ ValidPresentation(command)
  /\ service.active \in {NoPipe} \union DOMAIN service.connections
  /\ \A id \in DOMAIN service.connections : id < service.next
  /\ Len(ui.pending) <= 1 /\ Range(ui.messages) \subseteq {"present", "hide"}

-----------------------------------------------------------------------------
(***************************************************************************)
(* The screen                                                              *)
(***************************************************************************)
\* All that was written to the service has reached the screen.
Drained ==
  /\ ui.messages = <<>>
  /\ \A id \in DOMAIN service.connections :
       service.connections[id].commands = <<>> /\ service.connections[id].open

\* The candidate in the row that the window numbers with a digit, or -1: rows
\* are counted through the columns, and one column is numbered.
Numbered(digit) ==
  LET row == PageBegin(ui.window.number) + Place(digit) - 1
  IN  IF row < ui.window.size THEN ui.window.begin + row ELSE -1

\* Whenever the screen has caught up, a list on it is the open list of the text
\* service that presented last, and the keys choose what they are seen to
\* choose: a digit the candidate it numbers, Enter the highlighted one.
\* However two text services, their pipes and the UI thread interleaved, a
\* service was started again or a list was closed, no list stays behind.
ScreenIsTrue ==
  (Drained /\ ui.window.visible) =>
    /\ service.active # NoPipe
    /\ service.connections[service.active].of = ui.window.of
    /\ client[ui.window.of].pipe = service.active
    /\ LET e == client[ui.window.of].element
       IN  /\ e.shown /\ e.list = ui.window.list
           /\ ui.window.begin + ui.window.selection = e.selection
           /\ \A digit \in Digits : Numbered(digit) = Choice(e, digit)

\* Once all was read, the list the service was given last is on the screen.
OpenListIsSeen == (Drained /\ service.active # NoPipe) => ui.window.visible

\* A list that is closed, by whatever key or call, leaves the screen, unless its
\* text service has opened another one meanwhile.
ClosedListLeaves ==
  \A c \in Clients :
    ~client[c].element.shown ~>
      (client[c].element.shown \/ ~ui.window.visible \/ ui.window.of # c)

-----------------------------------------------------------------------------
(***************************************************************************)
(* Keys                                                                    *)
(***************************************************************************)
\* An open list belongs to an open composition, whose conversion results are
\* held back until it closes: keys decided before the composition ended, edits
\* granted late and the host's own calls included.  (A list that the host
\* first kept to itself and then has shown is not locked.)
ListIsLocked ==
  \A c \in Clients :
    (client[c].element.shown /\ "show" \notin calls.among) =>
      client[c].composing /\ client[c].locked

\* The mode of c changes only if no other key went down there while Shift was
\* held, in a context that takes input, or the text service ends.
SwitchesAlone(c) ==
  client'[c].mode # client[c].mode => c \notin keyboard.typed \/ client'[c] = NewClient

\* The release of Shift switches the mode of a text service only if no other key
\* went down there while Shift was held, in a context that takes input: keys that
\* were tested and never handled included, keys handled late, repeated or decided
\* for an earlier press, and whatever went down in between in a context that takes
\* none.  Of that nothing is kept, so a release switches the mode although such a
\* key went down (textService.cpp, OnTestKeyDown, OnKeyDown and OnKeyUp).
TapSwitches == [][\A c \in Clients : SwitchesAlone(c)]_vars
=============================================================================
