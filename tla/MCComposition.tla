---------------------------- MODULE MCComposition ----------------------------
(***************************************************************************)
(* Small instances of Composition for TLC: the uses each run explores.     *)
(***************************************************************************)
EXTENDS CompositionProperties

Using(among, left, entries, prompt, settings) ==
  [among |-> among, left |-> left, entries |-> entries, docs |-> Docs, prompt |-> prompt,
   immediate |-> settings]

InOneDocument(use) == [use EXCEPT !.docs = {CHOOSE d \in Docs : TRUE}]

\* With readings of up to two symbols: every key; the candidate list while
\* results arrive; a lost backend, and the end of the text service; text left
\* behind that the user has changed.
EditingUses ==
  { Using(Keys \union {"typeText", "shift", "backspace", "move", "enter", "escape"},
          4, 4, FALSE, BOOLEAN),
    Using({"extend", "syllable", "candidates", "shift", "lose"}, 6, 6, FALSE, BOOLEAN),
    Using({"extend", "syllable", "enter", "terminate", "lose", "deactivate"},
          5, 5, FALSE, BOOLEAN),
    Using({"extend", "syllable", "enter", "backspaceInOrder", "touch"}, 5, 5, FALSE, {FALSE}) }

\* With readings of up to two symbols, as long as the conversion or longer, and
\* edits granted late: text left behind and erased across two compositions; the
\* same with compositions of two entries; ended by the host; text typed outside
\* a composition; a backend lost meanwhile.
SealingUses ==
  { Using({"extend", "syllable", "enter", "backspaceInOrder"}, 9, 1, FALSE, {FALSE}),
    Using({"extend", "syllable", "enter", "backspaceInOrder"}, 7, 2, FALSE, {FALSE}),
    Using({"extend", "syllable", "enter", "terminate", "shift"}, 6, 2, FALSE, {FALSE}),
    Using({"literal", "extend", "syllable", "enter", "backspaceInOrder", "insert"},
          6, 2, FALSE, {FALSE}),
    Using({"extend", "syllable", "enter", "lose", "deactivate"}, 7, 2, FALSE, {FALSE}) }

TypingUses == EditingUses \union SealingUses

\* The same across two documents that grant their edits at once.
TwoDocumentUses ==
  { Using({"extend", "syllable", "enter", "leave", "close", "terminate"}, 7, 2, TRUE, {FALSE}),
    Using({"extend", "syllable", "enter", "leave", "backspaceInOrder"}, 9, 1, TRUE, {FALSE}) }

\* In one document, granted late: text sealed at any time, a lost backend, the
\* setting changed.
SettlingUses ==
  { Using({"extend", "syllable", "enter", "backspaceInOrder", "setting"}, 5, 5, FALSE, {FALSE}),
    Using({"extend", "syllable", "enter", "terminate", "lose"}, 5, 5, FALSE, {FALSE}) }

DocumentsUses == TwoDocumentUses \union {InOneDocument(use) : use \in SettlingUses}

LateGrantUses == { Using({"typeText", "enter", "leave"}, 4, 4, FALSE, {FALSE}) }
SettingUses   == { Using({"extend", "syllable", "enter", "setting"}, 4, 4, FALSE, {FALSE}) }
=============================================================================
