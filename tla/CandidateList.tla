---------------------------- MODULE CandidateList ----------------------------
(***************************************************************************)
(* CandidateListUIElement: the candidates of one entry in pages, the       *)
(* selection, and the keys that move it.  An expanded list shows a group   *)
(* of Columns pages side by side; the digits number the current one.       *)
(*                                                                         *)
(* A candidate is its place in its list, counted from zero; what the       *)
(* element sends to the service is Refresh(e), after every change.         *)
(***************************************************************************)
EXTENDS Sequences, FiniteSetsExt, Integers

CONSTANTS
  PageSize,  \* candidates on a page (9); a digit key selects each
  Columns    \* pages of an expanded list shown at once (4)

ASSUME SizesAssumption == PageSize \in 1..9 /\ Columns \in Nat \ {0}

DigitName == <<"1", "2", "3", "4", "5", "6", "7", "8", "9">>
Digits    == {DigitName[k] : k \in 1..PageSize}

INSTANCE KeyRouter WITH DigitKeys <- Digits

NoList == 0

\* list: which list it is; placed: it has an anchor in the document.
NewElement == [list |-> NoList, size |-> 0, selection |-> 0, page |-> 0,
               expanded |-> FALSE, shown |-> FALSE, placed |-> FALSE]

-----------------------------------------------------------------------------
(***************************************************************************)
(* Pages                                                                   *)
(***************************************************************************)
PageCount(e)     == (e.size + PageSize - 1) \div PageSize
PageBegin(page)  == page * PageSize
PageEnd(e, page) == Min({PageBegin(page + 1), e.size})

\* Mutant: a page shorter than the one left keeps its selection beyond its end.
OnPageUnclamped(e, page) ==
  [e EXCEPT !.page = page, !.selection = PageBegin(page) + (@ % PageSize)]

\* The same place on another page, or the last candidate there is.
OnPage(e, page) ==
  [e EXCEPT !.page = page, !.selection = Min({PageBegin(page) + (@ % PageSize), e.size - 1})]

HasPage(e, page) == 0 <= page /\ page < PageCount(e)
Select(e, index) == [e EXCEPT !.selection = index, !.page = index \div PageSize]

\* Up and Down go round within the page.
SelectPrevious(e) ==
  [e EXCEPT !.selection = IF @ <= PageBegin(e.page) THEN PageEnd(e, e.page) - 1 ELSE @ - 1]
SelectNext(e) ==
  [e EXCEPT !.selection = IF @ + 1 >= PageEnd(e, e.page) THEN PageBegin(e.page) ELSE @ + 1]

-----------------------------------------------------------------------------
(***************************************************************************)
(* What the service is told                                                *)
(***************************************************************************)
HideCommand == [do |-> "hide"]

\* Mutant: an expanded list always numbers its first column.
PresentFirstNumbered(e) ==
  LET start == IF e.expanded THEN (e.page \div Columns) * Columns ELSE e.page
      pages == IF e.expanded THEN Min({Columns, PageCount(e) - start}) ELSE 1
  IN  [do |-> "present", list |-> e.list, begin |-> PageBegin(start),
       size |-> PageEnd(e, start + pages - 1) - PageBegin(start),
       selection |-> e.selection - PageBegin(start), columns |-> pages, number |-> 0]

\* The pages side by side, their first candidate, the column that is numbered
\* (the current page's) and the selection counted from the first candidate.
Present(e) ==
  LET start == IF e.expanded THEN (e.page \div Columns) * Columns ELSE e.page
      pages == IF e.expanded THEN Min({Columns, PageCount(e) - start}) ELSE 1
      place == Max({0, Min({e.selection - PageBegin(e.page),
                            PageEnd(e, e.page) - PageBegin(e.page) - 1})})
  IN  [do |-> "present", list |-> e.list, begin |-> PageBegin(start),
       size |-> PageEnd(e, start + pages - 1) - PageBegin(start),
       selection |-> PageBegin(e.page - start) + place, columns |-> pages,
       number |-> e.page - start]

Refresh(e) ==
  IF e.size = 0 THEN <<HideCommand>>
  ELSE IF e.shown /\ e.placed THEN <<Present(e)>> ELSE <<>>

\* What the service takes; anything else ends the connection.
ValidPresentation(p) ==
  /\ p.size \in 1..(Columns * PageSize) /\ p.columns \in 1..Columns
  /\ p.number < p.columns /\ p.selection < p.size /\ p.size <= p.columns * PageSize

-----------------------------------------------------------------------------
(***************************************************************************)
(* Keys                                                                    *)
(***************************************************************************)
Place(digit) == CHOOSE k \in 1..PageSize : DigitName[k] = digit

\* The candidate a digit stands for, or -1.
Choice(e, digit) ==
  LET index == PageBegin(e.page) + Place(digit) - 1 IN IF index < e.size THEN index ELSE -1

\* What a key of ListKeys that only moves the selection makes of the list.
Turn(e, key) ==
  CASE key = "up"    -> SelectPrevious(e)
    [] key = "down"  -> SelectNext(e)
    [] key = "left" /\ e.expanded /\ e.page = 0  -> [e EXCEPT !.expanded = FALSE]
    [] key = "right" /\ ~e.expanded              -> [e EXCEPT !.expanded = TRUE]
    [] key \in {"left", "prior"} /\ HasPage(e, e.page - 1)    -> OnPage(e, e.page - 1)
    [] (key = "next" \/ (key = "right" /\ e.expanded)) /\ HasPage(e, e.page + 1)
                                                 -> OnPage(e, e.page + 1)
    [] key = "home"  -> Select(e, 0)
    [] key = "end"   -> Select(e, e.size - 1)
    [] key = "tab"   -> [e EXCEPT !.expanded = ~@]
    [] OTHER         -> e

Turning == {"up", "down", "left", "right", "home", "end", "prior", "next", "tab"}

\* A page that is not there is not asked for again.
Turned(e, key) ==
  IF Turn(e, key) = e /\ key \in {"left", "right", "prior", "next"}
  THEN <<>> ELSE Refresh(Turn(e, key))
=============================================================================
