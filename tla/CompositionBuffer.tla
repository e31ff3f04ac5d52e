-------------------------- MODULE CompositionBuffer --------------------------
(***************************************************************************)
(* The text being composed: CompositionBuffer and its BopomofoPos entries  *)
(* (frontend/src/core/buffer.hpp and bopomofo.hpp), as operators on a      *)
(* buffer value.                                                           *)
(*                                                                         *)
(* Characters are abstract.  A character is a tuple <<form, id, version,   *)
(* n>>: the reading symbol n, or the local, model or picked output, of     *)
(* one version of one entry; n is the conversion of a model output.  A     *)
(* "typed" character is one no composition wrote.  Two                     *)
(* texts are equal here exactly when the program would have computed both  *)
(* from the same key presses and the same conversions.                     *)
(***************************************************************************)
EXTENDS Integers, FiniteSets, Sequences, SequencesExt

CONSTANT MaxSymbols  \* symbols in one reading: initial, medial and final

ASSUME MaxSymbolsAssumption == MaxSymbols \in 1..3

(***************************************************************************)
(* What a key does to a reading.  "extend" and "replace" are a symbol that *)
(* fills an empty or a taken slot; the other three are a tone, by what the *)
(* character table says of the reading it ends: it has characters, it is   *)
(* unknown, or it is a single symbol that stands for itself.               *)
(***************************************************************************)
Keys == {"extend", "replace", "syllable", "unknown", "literal"}

Letter    == {"symbol", "toneless", "local", "model", "picked"} \X Nat \X Nat \X Nat
Character == Letter \union ({"typed"} \X Nat \X Nat \X Nat)

Entry == [id      : Nat \ {0},
          version : Nat,
          kind    : {"reading", "invalid", "syllable", "fixed"},
          symbols : Nat,      \* symbols typed, as Backspace counts them
          pending : BOOLEAN,  \* conversion_pending
          by      : Nat,      \* converted_by: 0 is the local table
          text    : Seq(Letter)]

\* caret is the number of entries before it (idx + 1 in the code).
Buffer == [entries : Seq(Entry), caret : Nat, revision : Nat, nextId : Nat \ {0}]

EmptyBuffer == [entries |-> <<>>, caret |-> 0, revision |-> 0, nextId |-> 1]

(***************************************************************************)
(* Entries                                                                 *)
(***************************************************************************)
IsCompositable(e) == e.kind \in {"syllable", "fixed"}
IsChosen(e)       == e.kind = "fixed"

Characters(form, e, count, n) ==
  [k \in 1..count |-> <<form, e.id, e.version, IF n = 0 THEN k ELSE n>>]

BlankEntry(id) ==
  [id |-> id, version |-> 0, kind |-> "reading", symbols |-> 0,
   pending |-> FALSE, by |-> 0, text |-> <<>>]

CanAccept(e, key) ==
  /\ e.kind = "reading"
  /\ CASE key = "extend"   -> e.symbols < MaxSymbols
       [] key = "replace"  -> e.symbols > 0
       [] key = "syllable" -> e.symbols > 0
       [] key = "unknown"  -> TRUE
       [] key = "literal"  -> e.symbols <= 1

\* A reading with count symbols; the text is the symbols themselves.
Reading(e, kind, count) ==
  [e EXCEPT !.kind = kind, !.symbols = count, !.pending = FALSE, !.by = 0,
            !.text = Characters("symbol", e, count, 0)]

Accept(e, key) ==
  CASE key = "extend"   -> Reading(e, "reading", e.symbols + 1)
    [] key = "replace"  -> Reading(e, "reading", e.symbols)
    [] key = "unknown"  -> Reading(e, "invalid", e.symbols + 1)
    [] key = "syllable" -> [e EXCEPT !.kind = "syllable", !.pending = TRUE,
                                     !.text = Characters("local", e, 1, 0)]
    [] key = "literal"  -> [e EXCEPT !.kind = "fixed", !.symbols = 0,
                                     !.text = Characters("symbol", e, 1, 0)]

\* A backend result for the entry: the model's candidates, or a single one,
\* which is a choice already made.
Converted(e, sequence, single) ==
  [e EXCEPT !.kind = IF single THEN "fixed" ELSE "syllable",
            !.pending = FALSE,
            !.by = sequence,
            !.text = Characters("model", e, 1, sequence)]

(***************************************************************************)
(* Editing                                                                 *)
(***************************************************************************)
IsEmpty(b) == b.entries = <<>>
OnEntry(b) == b.caret > 0
Current(b) == b.entries[b.caret]
OnInvalid(b) == OnEntry(b) /\ Current(b).kind = "invalid"
HasUncomposedReading(b) == \E i \in DOMAIN b.entries : ~IsCompositable(b.entries[i])
HasPendingConversion(b) == \E i \in DOMAIN b.entries : b.entries[i].pending
AllChosen(b) == \A i \in DOMAIN b.entries : IsChosen(b.entries[i])
ReadyToCommit(b) == ~IsEmpty(b) /\ ~HasUncomposedReading(b) /\ ~HasPendingConversion(b)
OutputIsTrusted(b) ==
  \A i \in DOMAIN b.entries : IsChosen(b.entries[i]) \/ b.entries[i].by > 0

\* An edit of the entry is a new version of it and a new revision of the buffer.
NextVersion(e) == [e EXCEPT !.version = @ + 1]
EditAtCaret(b, e) ==
  [b EXCEPT !.entries[b.caret] = e, !.revision = @ + 1]

InsertAfterCaret(b, e) ==
  [b EXCEPT !.entries = InsertAt(b.entries, b.caret + 1, e),
            !.caret = @ + 1, !.revision = @ + 1, !.nextId = @ + 1]

EraseAtCaret(b) ==
  [b EXCEPT !.entries = RemoveAt(b.entries, b.caret),
            !.caret = @ - 1, !.revision = @ + 1]

WithoutInvalid(b) == IF OnInvalid(b) THEN EraseAtCaret(b) ELSE b

\* The entry a symbol goes to: the reading at the caret, else a new one.
Accepts(b) == OnEntry(b) /\ Current(b).kind = "reading"
Target(b)  == IF Accepts(b) THEN NextVersion(Current(b)) ELSE BlankEntry(b.nextId)

CanAdd(b, key) == CanAccept(Target(WithoutInvalid(b)), key)
Add(b, key) ==
  LET c == WithoutInvalid(b)
      e == Accept(Target(c), key)
  IN  IF Accepts(c) THEN EditAtCaret(c, e) ELSE InsertAfterCaret(c, e)

AddChosenCandidate(b) ==
  LET c == WithoutInvalid(b)
  IN  InsertAfterCaret(c, Accept(BlankEntry(c.nextId), "literal"))

\* Backspace: a composed entry goes at once, a reading symbol by symbol.
RemoveLast(b) ==
  LET e == NextVersion(Current(b))
  IN  IF IsCompositable(e) \/ e.symbols <= 1
      THEN EraseAtCaret(b)
      ELSE EditAtCaret(b, Reading(e, "reading", e.symbols - 1))

CanDiscardReading(b) == OnEntry(b) /\ ~IsCompositable(Current(b))

CanMove(b, forward) == IF forward THEN b.caret < Len(b.entries) ELSE b.caret > 0
Move(b, forward, toEdge) ==
  [b EXCEPT !.caret = IF toEdge THEN IF forward THEN Len(b.entries) ELSE 0
                      ELSE IF forward THEN @ + 1 ELSE @ - 1]
StepForward(b) == IF CanMove(b, TRUE) THEN Move(b, TRUE, FALSE) ELSE b

(***************************************************************************)
(* The candidate list                                                      *)
(***************************************************************************)
CandidateTarget(b) ==
  IF b.caret < Len(b.entries) THEN b.entries[b.caret + 1] ELSE Current(b)

\* Literal text has one candidate and no list; an entry that still shows its
\* reading has no meaningful one.  (Whether the table or the model gives more
\* than one character is not modelled: every other entry may have a list.)
HasCandidateList(b, immediate) ==
  /\ ~IsEmpty(b)
  /\ LET e == CandidateTarget(b)
     IN  /\ IsCompositable(e)
         /\ e.symbols > 0
         /\ immediate \/ ~e.pending

\* The user's choice is a new version that no conversion may change.  A
\* reading of one symbol is itself a choice, and is literal text then.
CanSelect(b, id, literal) ==
  \E i \in DOMAIN b.entries :
    b.entries[i].id = id /\ IsCompositable(b.entries[i]) /\ (literal => b.entries[i].symbols = 1)
SelectCandidate(b, id, literal) ==
  [b EXCEPT !.revision = @ + 1,
            !.entries = [i \in DOMAIN @ |->
               IF @[i].id # id THEN @[i]
               ELSE LET e == NextVersion(@[i])
                    IN  [e EXCEPT !.kind = "fixed", !.pending = FALSE,
                                  !.symbols = IF literal THEN 0 ELSE @,
                                  !.text = Characters("picked", e, 1, 0)]]]

\* Choosing the reading of an entry of several symbols replaces it by that
\* many literal entries; the caret ends where one step of it passes them.
CanSelectReading(b, id) ==
  \E i \in DOMAIN b.entries : b.entries[i].id = id /\ IsCompositable(b.entries[i])
                              /\ b.entries[i].symbols >= 2
SelectReading(b, id, withTone) ==
  LET at    == CHOOSE i \in DOMAIN b.entries : b.entries[i].id = id
      count == b.entries[at].symbols + IF withTone THEN 1 ELSE 0
      literals == [k \in 1..count |->
                     Accept(BlankEntry(b.nextId + k - 1), "literal")]
  IN  [entries  |-> SubSeq(b.entries, 1, at - 1) \o literals
                      \o SubSeq(b.entries, at + 1, Len(b.entries)),
       caret    |-> IF b.caret >= at - 1 THEN b.caret + count - 1 ELSE b.caret,
       revision |-> b.revision + 1,
       nextId   |-> b.nextId + count]

(***************************************************************************)
(* Conversion                                                              *)
(***************************************************************************)
HasSnapshot(b) == ~IsEmpty(b) /\ ~HasUncomposedReading(b) /\ ~AllChosen(b)

\* What the backend says of a request's entries: it reached the first
\* predicted of them, and gave a single candidate for those in singles.
Outcomes(request) ==
  UNION {{[predicted |-> n, singles |-> S] :
            S \in SUBSET {k \in 1..n : ~IsChosen(request[k])}} : n \in 0..Len(request)}

\* Mutant: results are taken by version alone, whichever entry it is.
AnySame(e, asked, sequence) == e.version = asked.version /\ ~IsChosen(e) /\ e.by <= sequence

\* The result for a requested entry still applies to the entry e.
StillSame(e, asked, sequence) ==
  /\ e.id = asked.id
  /\ e.version = asked.version
  /\ ~IsChosen(e)
  /\ e.by <= sequence

Hits(e, sequence, request, outcome) ==
  {k \in 1..outcome.predicted : StillSame(e, request[k], sequence)}

\* Mutant: the open candidate list locks nothing.
MergeUnlocked(b, sequence, request, outcome, lock) ==
  [b EXCEPT !.entries = [i \in DOMAIN @ |->
     LET hits == Hits(@[i], sequence, request, outcome)
     IN  IF hits # {} THEN Converted(@[i], sequence, \E k \in hits : k \in outcome.singles)
         ELSE @[i]]]

\* lock is the entry of the open candidate list, 0 for none.
Merge(b, sequence, request, outcome, lock) ==
  [b EXCEPT !.entries = [i \in DOMAIN @ |->
     LET hits == Hits(@[i], sequence, request, outcome)
     IN  IF hits # {} /\ @[i].id # lock
         THEN Converted(@[i], sequence, \E k \in hits : k \in outcome.singles)
         ELSE @[i]]]

\* The entries whose result waits for the list to close (at most one).
HeldBack(b, sequence, request, outcome, lock) ==
  {[sequence |-> sequence, asked |-> request[k], single |-> k \in outcome.singles] :
     k \in {j \in 1..outcome.predicted :
              \E i \in DOMAIN b.entries :
                 b.entries[i].id = lock /\ StillSame(b.entries[i], request[j], sequence)}}

MergeHeld(b, held) ==
  Merge(b, held.sequence, <<held.asked>>,
        [predicted |-> 1, singles |-> IF held.single THEN {1} ELSE {}], 0)

\* Every reading becomes literal entries, one for each symbol shown.
FreezeReadings(b) ==
  LET frozen(e) == [k \in 1..Len(e.text) |->
                      [BlankEntry(0) EXCEPT !.kind = "fixed", !.text = <<e.text[k]>>]]
      parts == [i \in DOMAIN b.entries |->
                  IF IsCompositable(b.entries[i]) THEN <<b.entries[i]>>
                  ELSE frozen(b.entries[i])]
      flat  == FlattenSeq(parts)
      fresh(j) == Cardinality({k \in 1..j : flat[k].id = 0})
  IN  IF ~HasUncomposedReading(b) THEN b
      ELSE [entries  |-> [j \in DOMAIN flat |->
                            IF flat[j].id # 0 THEN flat[j]
                            ELSE [flat[j] EXCEPT !.id = b.nextId + fresh(j) - 1]],
            caret    |-> Len(FlattenSeq(SubSeq(parts, 1, b.caret))),
            revision |-> b.revision + 1,
            nextId   |-> b.nextId + fresh(Len(flat))]

AcceptLocalCandidates(b) ==
  [b EXCEPT !.entries = [i \in DOMAIN @ |-> [@[i] EXCEPT !.pending = FALSE]]]

(***************************************************************************)
(* Text                                                                    *)
(***************************************************************************)
TextOf(entries) == FlattenSeq([i \in DOMAIN entries |-> entries[i].text])
FinalText(b) == TextOf(b.entries)

\* Without immediate conversion an entry not converted yet shows its reading.
Displayed(e, immediate) ==
  IF ~immediate /\ e.pending /\ ~IsChosen(e)
  THEN Characters("toneless", e, e.symbols, 0)
  ELSE e.text
Shown(b, immediate) ==
  FlattenSeq([i \in DOMAIN b.entries |-> Displayed(b.entries[i], immediate)])
=============================================================================
