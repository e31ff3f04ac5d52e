------------------------ MODULE CompositionProperties ------------------------
(***************************************************************************)
(* What the composition pipeline promises.                                 *)
(***************************************************************************)
EXTENDS Composition

-----------------------------------------------------------------------------
(***************************************************************************)
(* Types                                                                   *)
(***************************************************************************)
SampleType      == [epoch : Nat \ {0}, answer : Seq(Letter)]
RequestType     == [epoch : Nat \ {0}, doc : Docs, revision : Nat, snapshot : Seq(Entry)]
OutcomeType     == [predicted : Nat, singles : SUBSET Nat]
HeldType        == [sequence : Nat \ {0}, asked : Entry, single : BOOLEAN]
CompositionType ==
  [epoch : Nat, doc : Docs \union {NoDoc}, preceding : BOOLEAN, buffer : Buffer,
   list : BOOLEAN, lock : Nat, held : SUBSET HeldType,
   sent : [revision : Nat \union {-1}, sequence : Nat], converted : Nat \union {-1}]
SegmentType ==
  [doc : Docs, buffer : Buffer, shown : Seq(Letter),
   preceding : BOOLEAN, stage : {"context", "converting", "finished"},
   awaited : Nat, erased : Nat, placed : BOOLEAN]
EditType ==
  [do : {"open", "discard", "seal", "lost", "erase", "write", "insert"}, epoch : Nat]
    \union [do : {"show"}, epoch : Nat, ended : Seq(Letter)]
    \union [do : {"apply"}, epoch : Nat, request : RequestType, sequence : Nat,
            outcome : OutcomeType]
    \union [do : {"commit"}, epoch : Nat, sample : SUBSET SampleType]

\* Every variable has the shape its C++ counterpart has, the caret is inside
\* the buffer and at most one result is held back for the candidate list.
TypeOK ==
  /\ composition \in CompositionType
  /\ composition.buffer.caret <= Len(composition.buffer.entries)
  /\ Cardinality(composition.held) <= 1
  /\ nextEpoch \in Nat \ {0}
  /\ DOMAIN tracker.pending \subseteq 1..tracker.sequence
  /\ \A s \in DOMAIN tracker.pending : tracker.pending[s] \in RequestType
  /\ DOMAIN segments \subseteq 1..(nextEpoch - 1)
  /\ \A e \in DOMAIN segments : segments[e] \in SegmentType
  /\ connected \in BOOLEAN /\ immediate \in BOOLEAN /\ calls \in Use
  /\ queue \in [Docs -> Seq(EditType)]
  /\ shown \in [epoch : Nat, doc : Docs \union {NoDoc}]
  /\ ranges \subseteq 1..(nextEpoch - 1)
  /\ text \in [Docs -> Seq([epoch : Nat, chars : Seq(Character)])]
  /\ docs \subseteq Docs
  /\ samples \subseteq SampleType
  /\ owed \in [Docs -> Seq(Nat)]

\* A segment sealed before the text in front of it was read waits for that
\* read, which is still queued in its document.
ContextStillQueued ==
  \A e \in DOMAIN segments : segments[e].stage = "context" =>
    \E k \in DOMAIN queue[segments[e].doc] : queue[segments[e].doc][k] = OpenEdit(e)

\* The state is what its C++ counterpart can be, and the parts that live in
\* different objects (the segments, the documents' queues) agree.
Bookkeeping == TypeOK /\ ContextStillQueued

-----------------------------------------------------------------------------
(***************************************************************************)
(* Conversions                                                             *)
(***************************************************************************)
\* The composition and the segments, as {epoch, entry} pairs.
Entries(c, segs) ==
  {<<c.epoch, c.buffer.entries[i]>> : i \in DOMAIN c.buffer.entries}
    \union UNION {{<<e, segs[e].buffer.entries[i]>> :
                     i \in DOMAIN segs[e].buffer.entries} : e \in DOMAIN segs}

IsModel(e) == e.text # <<>> /\ e.text[1][1] = "model"

\* A conversion only ever lands on the reading it was computed for: an entry
\* that shows the model's output was sent, in this version, by the request
\* whose output it shows (StillSame, whatever was typed, erased or sealed
\* between the request and its result).
ConversionMatchesReading ==
  \A p \in Entries(composition, segments) :
    IsModel(p[2]) => Asked(p[2].by, p[1], p[2]) \in tracker.asked

\* A late result of an older request never takes the place of a newer one's,
\* in the composition, in a segment, or across sealing (converted_by).
NewestConversionWins ==
  [][\A p \in Entries(composition, segments), q \in Entries(composition', segments') :
       (p[1] = q[1] /\ p[2].id = q[2].id /\ p[2].version = q[2].version) => p[2].by <= q[2].by]_vars

\* While its candidate list is open, an entry's text changes by no step but a
\* key: results wait (CandidateLock), a lost backend changes only the others.
LockedEntryUnchanged ==
  [][(composition.lock # 0 /\ composition'.lock = composition.lock /\ calls' = calls) =>
       \A p \in Entries(composition, <<>>), q \in Entries(composition', <<>>) :
         (p[2].id = composition.lock /\ q[2].id = p[2].id /\ p[1] = q[1]) => p[2].text = q[2].text]_vars

\* What a result may not do to an entry, newer or locked.
ResultsKeepTheirPlace == NewestConversionWins /\ LockedEntryUnchanged

\* A segment that waits for a conversion waits for one that is still to come,
\* was sent for this very composition, and is the newest one sent for it (so
\* that it is never superseded).  on_conversion, seal and backend_lost change
\* the segments and the tracker at different places.
AwaitedStillPending ==
  \A e \in DOMAIN segments : segments[e].stage = "converting" =>
    /\ Awaits(tracker, segments[e].awaited)
    /\ tracker.pending[segments[e].awaited].epoch = e
    /\ \A s \in DOMAIN tracker.pending :
         tracker.pending[s].epoch = e => s <= segments[e].awaited

-----------------------------------------------------------------------------
(***************************************************************************)
(* The documents                                                           *)
(***************************************************************************)
\* Once its document has granted what was queued, an open composition is on
\* the screen exactly as it is in the buffer: what Enter would commit.
ScreenMatches ==
  (Idle /\ Active /\ queue[composition.doc] = <<>>) =>
    /\ shown = [epoch |-> composition.epoch, doc |-> composition.doc]
    /\ CharsOf(text[composition.doc], composition.epoch) = Shown(composition.buffer, immediate)

\* Text is recorded for training only as it then stands in the document.
SampleMatchesDocument ==
  [][\A s \in samples' \ samples : \E d \in Docs : CharsOf(text'[d], s.epoch) = s.answer]_vars

IsTouched(piece) == piece.epoch # 0 /\ \E k \in DOMAIN piece.chars : piece.chars[k] = Typed

HasReading(piece) == \E k \in DOMAIN piece.chars : piece.chars[k][1] = "toneless"

Quiet == Idle /\ connected /\ Granted /\ ~Active /\ DOMAIN tracker.pending = {}

\* When nothing is queued, asked or open any more, no segment is left, no
\* range is still tracked, and no reading stands where its conversion belongs
\* (but in text the user has changed).
QuietMeansFinal ==
  Quiet =>
    /\ segments = NoSegments /\ ranges = {} /\ shown = NotShown
    /\ \A d \in Docs : \A i \in DOMAIN text[d] : HasReading(text[d][i]) => IsTouched(text[d][i])

EpochsIn(pieces) ==
  FlattenSeq([i \in DOMAIN pieces |-> [k \in DOMAIN pieces[i].chars |-> pieces[i].epoch]])

\* Every document then holds exactly what was typed into it, in the order it
\* was typed: the characters of every composition committed or sealed and
\* those typed outside one, less the last one at each Backspace.  Nothing is
\* lost, doubled or swapped on the way, however late each edit was granted,
\* and no Backspace takes a character it was not typed behind.  (Where the user
\* edits the text by other means it is no longer only what was typed.)
DocumentsHoldWhatWasTyped ==
  Quiet /\ "touch" \notin calls.among => \A d \in docs : EpochsIn(text[d]) = owed[d]

\* Sealed text the user has changed is not written over when its conversion
\* arrives: only erasing takes characters from it.
TouchedTextStays ==
  [][\A d \in Docs : \A i \in DOMAIN text[d] :
       (IsTouched(text[d][i]) /\ docs' = docs) =>
         IsPrefix(text'[d][i].chars, text[d][i].chars)]_vars

\* Text the user has changed is neither written over nor learnt from.
ChangedTextIsLeft == TouchedTextStays /\ SampleMatchesDocument

\* When the text service is deactivated, a document that grants what is
\* queued is left with finished text: nothing waits for a conversion that
\* cannot come any more.
ShutdownFinishesText ==
  (busy.call = "stop" /\ Granted) =>
    /\ segments = NoSegments
    /\ \A d \in Docs : \A i \in DOMAIN text[d] : ~HasReading(text[d][i])

\* Among several documents the same holds as long as they grant their edits at
\* once: an open composition is on the screen of its own document, and no text
\* is lost or reaches another one when a document is left or closed.
DocumentsKeepApart == calls.prompt => ScreenMatches /\ DocumentsHoldWhatWasTyped

\* What the documents are left with, by typing or by the end of the text service.
DocumentsSettle == QuietMeansFinal /\ DocumentsHoldWhatWasTyped /\ ShutdownFinishesText

-----------------------------------------------------------------------------
(***************************************************************************)
(* Progress                                                                *)
(***************************************************************************)
Sealed(epoch) == epoch \in DOMAIN segments

\* Text sealed while its conversion was under way becomes final and is
\* released, whatever order edits are granted and results arrive in.
SealedTextSettles ==
  \A epoch \in 1..MaxEpochs : Sealed(epoch) ~> ~Sealed(epoch)
=============================================================================
