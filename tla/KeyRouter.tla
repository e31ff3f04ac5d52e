------------------------------ MODULE KeyRouter ------------------------------
(***************************************************************************)
(* What a key does: route decides it from the key, the modifiers held and  *)
(* what holds when it arrives.  KeyState is what lasts from key to key: the *)
(* backtick prefix, and whether Shift went down alone, so that its release *)
(* switches the input mode.                                                *)
(*                                                                         *)
(* One key stands for each class that route tells apart; what a key types  *)
(* is left out.                                                            *)
(***************************************************************************)
EXTENDS FiniteSetsExt, Naturals, Sequences

CONSTANT DigitKeys  \* the digits that number a candidate: "1", "2", ...

Modifiers   == {"shift", "ctrl", "alt"}
Printable   == DigitKeys \union {"space", "letter", "comma", "backtick", "plus"}
ReadingKeys == DigitKeys \union {"space", "letter", "comma"}
ListKeys    == DigitKeys \union {"up", "down", "left", "right", "home", "end", "prior", "next",
                                 "tab", "return", "space", "escape"}
AllKeys     == Modifiers \union Printable \union ListKeys \union {"back", "function"}

CaretKeys   == {"left", "right", "home", "end"}

\* What a key can be decided to do (KeyAction).
Actions ==
  {"pass", "shiftDown", "toggleWidth", "arm", "insert", "compose", "composeEnglish", "reading",
   "candidates", "openCandidates", "move", "backspace", "backspaceInOrder", "enter", "escape",
   "ignore"}

-----------------------------------------------------------------------------
(***************************************************************************)
(* The decision                                                            *)
(***************************************************************************)
\* A key with the modifiers held; the context it arrives in is a record of
\*   mode, composing, complete, open, takes, behind, full, toggles, prefix.
\* The prefix is the backtick's; complete: the syllable at the caret is.
CtrlPunctuation(press) ==
  /\ "ctrl" \in press.held /\ "alt" \notin press.held
  /\ press.key = "comma" \/ ("shift" \in press.held /\ press.key = "1")

BacktickPunctuation(press) ==
  "alt" \notin press.held /\ press.key \in {"comma", "backtick"}

Types(press) == press.key \in Printable /\ press.held \intersect {"ctrl", "alt"} = {}

Unmodified(press) == press.held \intersect {"ctrl", "alt"} = {}

\* The decisions in the order they are tried; the first that applies is taken.
\* A composition has keys of its own, but an open list comes before it.
Decisions(press, context) ==
  LET key      == press.key
      english  == context.mode = "english" \/ "shift" \in press.held  \* Shift: temporarily
      text     == Types(press)
      reading  == key \in ReadingKeys
      composing == context.composing
      listed   == composing /\ context.open
      editing  == key \in {"back", "return"} /\ Unmodified(press)
      tab      == key = "tab" /\ "alt" \notin press.held
      modified == key \in Modifiers \/ press.held # {}
      backtick == ~english /\ key = "backtick" /\ press.held = {}
  IN  << <<key = "shift", "shiftDown">>,
         <<context.toggles /\ key = "space" /\ press.held = {"shift"}, "toggleWidth">>,
         <<backtick /\ context.prefix, "compose">>,
         <<backtick, "arm">>,
         <<key = "back" /\ Unmodified(press) /\ ~composing /\ context.behind, "backspaceInOrder">>,
         <<CtrlPunctuation(press), "compose">>,
         <<~english /\ context.prefix /\ BacktickPunctuation(press), "compose">>,
         <<english /\ text /\ ~composing, "insert">>,
         <<english /\ text /\ context.mode = "chinese", "composeEnglish">>,
         <<english /\ text, "compose">>,
         <<english /\ ~composing, "pass">>,
         <<text /\ ~reading /\ composing, "compose">>,
         <<text /\ ~reading /\ context.full, "insert">>,
         <<context.full /\ ~composing /\ key = "space" /\ press.held = {}, "insert">>,
         <<modified /\ ~(composing /\ (editing \/ tab)), "pass">>,
         <<listed /\ context.takes, "candidates">>,
         <<listed /\ key = "back", "backspace">>,
         <<listed, "pass">>,
         <<composing /\ key = "return", "enter">>,
         <<composing /\ key = "escape", "escape">>,
         <<composing /\ key = "back", "backspace">>,
         <<composing /\ key = "down", "openCandidates">>,
         <<composing /\ key \in CaretKeys, "move">>,
         <<composing /\ key = "tab", "ignore">>,
         <<composing /\ key = "space" /\ context.complete, "compose">>,
         <<reading /\ (key # "space" \/ composing), "reading">>,
         <<TRUE, "pass">> >>

Route(press, context) ==
  LET decisions == Decisions(press, context)
  IN  decisions[Min({k \in DOMAIN decisions : decisions[k][1]})][2]

Eaten(action) == action # "pass"

-----------------------------------------------------------------------------
(***************************************************************************)
(* What lasts across keys                                                  *)
(***************************************************************************)
NewKeyState == [alone |-> FALSE, prefix |-> FALSE]

\* Mutant: seen only when it is handled.
ObserveNothing(state, press) == state

\* Seen while testing a key, which may never be handled.
Observe(state, press) ==
  [state EXCEPT !.alone = @ /\ ("shift" \notin press.held \/ press.key = "shift")]

KeyHandled(state, press, action) ==
  IF action = "shiftDown" THEN [state EXCEPT !.alone = @ \/ ~press.repeated]
  ELSE IF press.key \in Modifiers THEN Observe(state, press)
  ELSE [Observe(state, press) EXCEPT !.prefix = (action = "arm")]

\* English mode drops the prefix.
ModeChanged(state, mode) == [state EXCEPT !.prefix = @ /\ mode = "chinese"]
=============================================================================
