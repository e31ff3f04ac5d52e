----------------------------- MODULE Composition -----------------------------
(***************************************************************************)
(* The composition pipeline of the text service, on the owning UI thread:  *)
(*                                                                         *)
(*   - CompositionController (core/composition_controller.cpp): at most    *)
(*     one open composition, its conversions and its candidate list;       *)
(*   - ConversionTracker (core/conversion.hpp): requests not answered yet; *)
(*   - SealedQueue (core/sealed_text.cpp): text left in a document before  *)
(*     its conversion was done;                                            *)
(*   - the edit queues and the one TSF composition of TextService          *)
(*     (tsf/textService.cpp), and what the documents then contain.         *)
(*                                                                         *)
(* The controller's methods are operators from one controller state to the *)
(* next (a record, see Now), named like the methods; the actions are the   *)
(* calls from outside (a key, a result, a granted edit session, the host   *)
(* ending the composition).  The thread finishes one call before the next: *)
(* busy says which call is not over yet, and only its steps are enabled.   *)
(*                                                                         *)
(* The backend is abstract: a request may be answered at any later time,   *)
(* in any order, in full or in part; it is superseded only after a newer   *)
(* request of its composition was sent; or the backend is lost.            *)
(***************************************************************************)
EXTENDS CompositionBuffer

CONSTANTS
  Docs,          \* the documents (DocumentId)
  NoDoc,         \* no document
  Uses,          \* the uses of the text service that are explored, see Use
  MaxEpochs,     \* bound: compositions
  PreviousText   \* characters in every document at the start

ASSUME DocsAssumption == NoDoc \notin Docs

\* One use: which calls the user and the host make, how many, and how many
\* entries a composition has (the two bounds); the documents; whether they grant
\* every session before the next call; the settings of immediate conversion to
\* start from.
Use == [among : SUBSET STRING, left : Nat, entries : Nat, docs : SUBSET Docs, prompt : BOOLEAN,
        immediate : SUBSET BOOLEAN]

ASSUME UsesAssumption == Uses \subseteq Use
ASSUME BoundsAssumption == {MaxEpochs, PreviousText} \subseteq Nat

VARIABLES
  composition,  \* the open composition, or NoComposition
  nextEpoch,    \* the epoch of the next one
  tracker,      \* conversions sent, see Send
  segments,     \* segments[epoch]: SealedQueue::segments_, which is in this order
  connected,    \* ConversionTracker::backend_ is set
  immediate,    \* immediate conversion is on
  queue,        \* queue[d]: edits queued for the document d
  shown,        \* itfComposition: the composition the host shows
  ranges,       \* epochs with a tracked sealed range (sealed_ranges_)
  text,         \* text[d]: what the document contains, in pieces
  docs,         \* documents that are not closed
  busy,         \* the call that is not over yet
  calls,        \* the calls still to be made, a Use
  samples,      \* what was recorded for training
  owed          \* owed[d]: the epoch of each character d must end up with

controller == <<composition, nextEpoch, tracker, segments, connected, queue, owed>>
screen     == <<shown, ranges, text>>
others     == <<immediate, docs, calls, samples>>
vars       == <<controller, screen, others, busy>>

-----------------------------------------------------------------------------
(***************************************************************************)
(* Data                                                                    *)
(***************************************************************************)
\* The function f with f[x] = v added.
Put(f, x, v) == [y \in DOMAIN f \union {x} |-> IF y = x THEN v ELSE f[y]]

NotSent == [revision |-> -1, sequence |-> 0]

NewComposition(epoch, d) ==
  [epoch |-> epoch, doc |-> d, preceding |-> FALSE, buffer |-> EmptyBuffer,
   list |-> FALSE,        \* the candidate list is on screen
   lock |-> 0,            \* the entry locked for it
   held |-> {},           \* the result held back for that entry
   sent |-> NotSent,      \* the newest conversion sent
   converted |-> -1]      \* the revision whose conversion is shown

NoComposition == NewComposition(0, NoDoc)

Active      == composition.epoch # 0
Owns(d)     == Active /\ composition.doc = d
Live(epoch) == Active /\ composition.epoch = epoch

\* A segment waits for its context, then for the conversion awaited.
SegmentOf(c) ==
  [doc |-> c.doc, buffer |-> c.buffer, shown |-> Shown(c.buffer, immediate),
   preceding |-> c.preceding, stage |-> "context", awaited |-> 0,
   erased |-> 0, placed |-> FALSE]
NoSegments == <<>>

Finished(s)     == s.stage = "finished"
Length(s)       == Len(s.buffer.entries)
ErasesBefore(s) == IF s.erased > Length(s) THEN s.erased - Length(s) ELSE 0
Kept(s)         == IF s.erased < Length(s) THEN Length(s) - s.erased ELSE 0
SealedText(s)   == TextOf(SubSeq(s.buffer.entries, 1, Kept(s)))

SegmentsOf(d) == {e \in DOMAIN segments : segments[e].doc = d}

\* What may be learnt from text: nothing unless all of it is trusted.
Sample(epoch, b) ==
  IF OutputIsTrusted(b) THEN {[epoch |-> epoch, answer |-> FinalText(b)]} ELSE {}

NotShown == [epoch |-> 0, doc |-> NoDoc]

Busy(call, d, epoch) == [call |-> call, doc |-> d, epoch |-> epoch]
NotBusy == Busy("none", NoDoc, 0)
Idle    == busy = NotBusy

(***************************************************************************)
(* Conversions: what was sent and not answered.  asked remembers every     *)
(* entry ever sent; the program keeps no such record.                      *)
(***************************************************************************)
NoRequests == [sequence |-> 0, pending |-> <<>>, asked |-> {}]

Awaits(tr, sequence) == sequence \in DOMAIN tr.pending

RequestOf(epoch, d, b) ==
  [epoch |-> epoch, doc |-> d, revision |-> b.revision, snapshot |-> b.entries]

Asked(sequence, epoch, e) == <<sequence, epoch, e.id, e.version>>

Send(tr, request) ==
  LET sequence == tr.sequence + 1
  IN  [sequence |-> sequence,
       pending  |-> Put(tr.pending, sequence, request),
       asked    |-> tr.asked \union
                      {Asked(sequence, request.epoch, request.snapshot[i]) :
                         i \in DOMAIN request.snapshot}]

SentLater(tr, sequence, epoch) == \E a \in tr.asked : a[1] > sequence /\ a[2] = epoch

Take(tr, sequence) ==
  [tr EXCEPT !.pending = Restrict(@, DOMAIN tr.pending \ {sequence})]

Forget(tr) == [tr EXCEPT !.pending = <<>>]

(***************************************************************************)
(* Edits: queued for a document, run in order whenever it grants a session *)
(***************************************************************************)
OpenEdit(epoch)    == [do |-> "open", epoch |-> epoch]
ShowEdit(c)        == [do |-> "show", epoch |-> c.epoch, ended |-> Shown(c.buffer, immediate)]
ApplyEdit(request, sequence, outcome) ==
  [do |-> "apply", epoch |-> request.epoch, request |-> request,
   sequence |-> sequence, outcome |-> outcome]
CommitEdit(c)      == [do |-> "commit", epoch |-> c.epoch, sample |-> Sample(c.epoch, c.buffer)]
DiscardEdit(epoch) == [do |-> "discard", epoch |-> epoch]
SealEdit(epoch)    == [do |-> "seal", epoch |-> epoch]
LostEdit(epoch)    == [do |-> "lost", epoch |-> epoch]
EraseEdit          == [do |-> "erase", epoch |-> 0]
WriteEdit          == [do |-> "write", epoch |-> 0]
InsertEdit         == [do |-> "insert", epoch |-> 0]

-----------------------------------------------------------------------------
(***************************************************************************)
(* The controller's methods                                                *)
(***************************************************************************)
Now == [composition |-> composition, nextEpoch |-> nextEpoch, tracker |-> tracker,
        segments |-> segments, connected |-> connected, queue |-> queue,
        owed |-> owed]

Become(st) ==
  /\ composition' = st.composition
  /\ nextEpoch' = st.nextEpoch
  /\ tracker' = st.tracker
  /\ segments' = st.segments
  /\ connected' = st.connected
  /\ queue' = st.queue
  /\ owed' = st.owed

Run(st, d, edit)      == [st EXCEPT !.queue[d] = Append(@, edit)]
WithBuffer(st, b)     == [st EXCEPT !.composition.buffer = b]
WithoutList(st)       == [st EXCEPT !.composition.list = FALSE]
WithoutComposition(st) == [st EXCEPT !.composition = NoComposition]

Open(st, d) ==
  IF st.composition.epoch # 0 THEN st
  ELSE Run([st EXCEPT !.composition = NewComposition(st.nextEpoch, d), !.nextEpoch = @ + 1],
           d, OpenEdit(st.nextEpoch))

\* The whole composition is sent once the text before it has been read,
\* unless exactly this content was sent already.
Requests(st) ==
  LET c == st.composition
  IN  st.connected /\ c.preceding /\ HasSnapshot(c.buffer) /\ c.sent.revision # c.buffer.revision

Request(st) ==
  LET c == st.composition
  IN  IF ~Requests(st) THEN st
      ELSE [st EXCEPT !.tracker = Send(@, RequestOf(c.epoch, c.doc, c.buffer)),
                      !.composition.sent = [revision |-> c.buffer.revision,
                                            sequence |-> st.tracker.sequence + 1]]

ShowAgain(st) == Run(st, st.composition.doc, ShowEdit(st.composition))

Discard(st) ==
  Run(WithoutComposition(st), st.composition.doc, DiscardEdit(st.composition.epoch))

Update(st) ==
  IF IsEmpty(st.composition.buffer) THEN Discard(st) ELSE Request(ShowAgain(st))

DiscardReading(st) ==
  IF CanDiscardReading(st.composition.buffer)
  THEN Update(WithBuffer(st, EraseAtCaret(st.composition.buffer)))
  ELSE st

\* Leaves the composition's characters in its document.
Leave(st) ==
  [WithoutComposition(st) EXCEPT
     !.owed[st.composition.doc] =
        @ \o [i \in DOMAIN st.composition.buffer.entries |-> st.composition.epoch]]

Settled(c) ==
  /\ ReadyToCommit(c.buffer)
  /\ AllChosen(c.buffer) \/ c.converted = c.buffer.revision

Commit(st) == Run(Leave(st), st.composition.doc, CommitEdit(st.composition))

FinishedLocally(s) ==
  [s EXCEPT !.buffer = AcceptLocalCandidates(@), !.stage = "finished"]

ConvertSegment(st, epoch) ==
  LET s == st.segments[epoch]
  IN  IF st.connected /\ HasSnapshot(s.buffer)
      THEN [st EXCEPT !.tracker = Send(@, RequestOf(epoch, s.doc, s.buffer)),
                      !.segments[epoch].stage = "converting",
                      !.segments[epoch].awaited = st.tracker.sequence + 1]
      ELSE [st EXCEPT !.segments[epoch] = FinishedLocally(@)]

WriteIfFinished(st, epoch) ==
  IF Finished(st.segments[epoch]) THEN Run(st, st.segments[epoch].doc, WriteEdit) ELSE st

\* Mutant: the conversion of this content may have been answered already.
InFlightUnchecked(st, frozen) ==
  ~HasUncomposedReading(st.composition.buffer) /\ st.composition.sent.revision = frozen.revision

\* A conversion in flight for exactly this content finishes the segment.
InFlight(st, frozen) ==
  LET c == st.composition
  IN  /\ ~HasUncomposedReading(c.buffer)
      /\ c.sent.revision = frozen.revision
      /\ Awaits(st.tracker, c.sent.sequence)

NewSegment(c, inFlight) ==
  IF inFlight THEN [SegmentOf(c) EXCEPT !.stage = "converting", !.awaited = c.sent.sequence]
  ELSE SegmentOf(c)

\* Mutant: a segment whose context is known is not converted.
AddSegmentUnconverted(st, c, inFlight) ==
  [st EXCEPT !.segments = Put(@, c.epoch, NewSegment(c, inFlight))]

AddSegment(st, c, inFlight) ==
  LET added == [st EXCEPT !.segments = Put(@, c.epoch, NewSegment(c, inFlight))]
  IN  IF ~inFlight /\ c.preceding
      THEN WriteIfFinished(ConvertSegment(added, c.epoch), c.epoch)
      ELSE added

Seal(st) ==
  IF st.composition.epoch = 0 THEN st
  ELSE LET frozen == FreezeReadings(st.composition.buffer)
           c      == [st.composition EXCEPT !.buffer = frozen]
           left   == Leave(WithBuffer(st, frozen))
       IN  IF Settled(c)
           THEN Commit(WithBuffer(st, frozen))
           ELSE Run(AddSegment(left, c, InFlight(st, frozen)), c.doc, SealEdit(c.epoch))

AllFinished(segs) == [e \in DOMAIN segs |-> FinishedLocally(segs[e])]

FinishLocally(st) ==
  [st EXCEPT !.segments = AllFinished(@),
             !.queue = [d \in Docs |->
                IF \E e \in DOMAIN st.segments : st.segments[e].doc = d
                THEN Append(@[d], WriteEdit) ELSE @[d]]]

\* Mutant: only an open composition goes on once its context is known.
ContextReadyIfOpen(st, epoch) ==
  IF st.composition.epoch = epoch
  THEN Request([st EXCEPT !.composition.preceding = TRUE]) ELSE st

ContextReady(st, epoch) ==
  IF st.composition.epoch = epoch
  THEN Request([st EXCEPT !.composition.preceding = TRUE])
  ELSE IF epoch \notin DOMAIN st.segments THEN st
  ELSE LET known == [st EXCEPT !.segments[epoch].preceding = TRUE]
       IN  IF st.segments[epoch].stage # "context" THEN known
           ELSE WriteIfFinished(ConvertSegment(known, epoch), epoch)

\* Mutant: only a result newer than the awaited one finishes a segment.
MergedLater(s, sequence, request, outcome) ==
  [s EXCEPT !.buffer = Merge(@, sequence, request.snapshot, outcome, 0),
            !.stage = IF @ = "converting" /\ sequence > s.awaited THEN "finished" ELSE @]

\* Older results only refine a segment; the awaited one makes it final.
Merged(s, sequence, request, outcome) ==
  [s EXCEPT !.buffer = Merge(@, sequence, request.snapshot, outcome, 0),
            !.stage = IF @ = "converting" /\ sequence >= s.awaited THEN "finished" ELSE @]

MergeSealed(st, sequence, request, outcome) ==
  IF request.epoch \notin DOMAIN st.segments THEN st
  ELSE WriteIfFinished(
         [st EXCEPT !.segments[request.epoch] = Merged(@, sequence, request, outcome)],
         request.epoch)

\* Nothing can convert the syllables still waiting.
BackendLost(st) ==
  LET lost == FinishLocally([st EXCEPT !.tracker = Forget(@)])
      c    == st.composition
  IN  IF c.epoch = 0 THEN lost
      ELSE Run([lost EXCEPT !.composition.sent = NotSent], c.doc, LostEdit(c.epoch))

-----------------------------------------------------------------------------
(***************************************************************************)
(* What the documents contain: pieces of text, each the text of one        *)
(* composition (epoch 0 for any other), the caret behind the last one.     *)
(***************************************************************************)
Piece(epoch, chars) == [epoch |-> epoch, chars |-> chars]
Typed == <<"typed", 0, 0, 0>>

PiecesOf(pieces, epoch) == {i \in DOMAIN pieces : pieces[i].epoch = epoch}
PieceOf(pieces, epoch)  == CHOOSE i \in PiecesOf(pieces, epoch) : TRUE
CharsOf(pieces, epoch) ==
  IF PiecesOf(pieces, epoch) = {} THEN <<>> ELSE pieces[PieceOf(pieces, epoch)].chars

Rewritten(pieces, epoch, chars) ==
  [i \in DOMAIN pieces |-> IF pieces[i].epoch = epoch THEN Piece(epoch, chars) ELSE pieces[i]]

\* Takes count characters away from the end of the first n pieces.
Erased(pieces, n, count) ==
  LET upTo(i) == Len(FlattenSeq([k \in 1..i |-> pieces[k].chars]))
      left    == IF upTo(n) > count THEN upTo(n) - count ELSE 0
      keep(i) == IF upTo(i) <= left THEN Len(pieces[i].chars)
                 ELSE IF upTo(i - 1) >= left THEN 0 ELSE left - upTo(i - 1)
  IN  [i \in DOMAIN pieces |->
         IF i > n THEN pieces[i]
         ELSE [pieces[i] EXCEPT !.chars = SubSeq(@, 1, keep(i))]]

CaretAfter(d, epoch) ==
  /\ epoch \in ranges
  /\ \A i \in DOMAIN text[d] : i > PieceOf(text[d], epoch) => text[d][i].chars = <<>>

\* Writes a composition's text, starting the TSF composition if none is shown.
\* One the host is ending cannot be started again.
Render(d, epoch, chars) ==
  IF shown.epoch = epoch
  THEN text' = [text EXCEPT ![d] = Rewritten(@, epoch, chars)] /\ UNCHANGED shown
  ELSE IF shown.epoch = 0 /\ busy.call # "terminate"
  THEN /\ text' = [text EXCEPT ![d] = Append(@, Piece(epoch, chars))]
       /\ shown' = [epoch |-> epoch, doc |-> d]
  ELSE UNCHANGED <<text, shown>>

\* Drops the composition the host shows if it is this one.
Drop(epoch) == shown' = IF shown.epoch = epoch THEN NotShown ELSE shown

-----------------------------------------------------------------------------
(***************************************************************************)
(* Edit sessions: an edit is taken from its queue and run.  A session runs *)
(* the queue to its end; the host ending a composition runs it only until  *)
(* that composition is no longer shown.                                    *)
(***************************************************************************)
CanRun(d) ==
  /\ queue[d] # <<>>
  /\ \/ busy \in {NotBusy, Busy("session", d, 0)}
     \/ busy.call = "terminate" /\ busy.doc = d /\ busy.epoch = shown.epoch
     \/ busy.call = "stop"

Taken(d, kind) == CanRun(d) /\ Head(queue[d]).do = kind
Popped(d)      == [Now EXCEPT !.queue[d] = Tail(@)]

\* The controller goes on from st; the session ends with its queue.
Proceed(d, st) ==
  /\ Become(st)
  /\ busy' = IF busy.call \in {"terminate", "stop"} THEN busy
             ELSE IF st.queue[d] = <<>> THEN NotBusy
             ELSE Busy("session", d, 0)

\* The text before a new composition is read.  With a composition shown in
\* another document the read fails, and the edit is given up.
RunOpen(d) ==
  /\ Taken(d, "open")
  /\ Proceed(d, IF shown.epoch # 0 /\ shown.doc # d THEN Popped(d)
                ELSE ContextReady(Popped(d), Head(queue[d]).epoch))
  /\ UNCHANGED <<screen, others>>

\* Mutant: a render shows the state as of when it was queued.
RunShowAsQueued(d) ==
  /\ Taken(d, "show")
  /\ Render(d, Head(queue[d]).epoch, Head(queue[d]).ended)
  /\ Proceed(d, Popped(d))
  /\ UNCHANGED <<ranges, others>>

\* A render shows the state as of now; an ended composition as it ended.
RunShow(d) ==
  /\ Taken(d, "show")
  /\ LET e == Head(queue[d])
     IN  Render(d, e.epoch, IF Live(e.epoch) THEN Shown(composition.buffer, immediate) ELSE e.ended)
  /\ Proceed(d, Popped(d))
  /\ UNCHANGED <<ranges, others>>

\* A result is merged into what is still exactly what was sent.
RunApply(d) ==
  /\ Taken(d, "apply")
  /\ LET e    == Head(queue[d])
         c    == composition
         b    == Merge(c.buffer, e.sequence, e.request.snapshot, e.outcome, c.lock)
         held == HeldBack(c.buffer, e.sequence, e.request.snapshot, e.outcome, c.lock)
     IN  IF Live(e.epoch)
         THEN /\ Proceed(d, [Popped(d) EXCEPT !.composition =
                   [c EXCEPT !.buffer = b,
                             !.held = IF held = {} \/ (\E h \in @ : h.sequence > e.sequence)
                                      THEN @ ELSE held,
                             !.converted = IF e.request.revision = b.revision THEN b.revision ELSE @]])
              /\ IF b = c.buffer THEN UNCHANGED <<text, shown>>
                 ELSE Render(d, e.epoch, Shown(b, immediate))
         ELSE /\ Proceed(d, MergeSealed(Popped(d), e.sequence, e.request, e.outcome))
              /\ UNCHANGED <<text, shown>>
  /\ UNCHANGED <<ranges, others>>

RunCommit(d) ==
  /\ Taken(d, "commit")
  /\ Drop(Head(queue[d]).epoch)
  /\ samples' = samples \union Head(queue[d]).sample
  /\ Proceed(d, WithoutList(Popped(d)))
  /\ UNCHANGED <<ranges, text, immediate, docs, calls>>

RunDiscard(d) ==
  /\ Taken(d, "discard")
  /\ LET epoch == Head(queue[d]).epoch
     IN  /\ Drop(epoch)
         /\ text' = IF shown.epoch = epoch THEN [text EXCEPT ![d] = Rewritten(@, epoch, <<>>)] ELSE text
  /\ Proceed(d, WithoutList(Popped(d)))
  /\ UNCHANGED <<ranges, others>>

\* Ends the composition where it is and keeps track of its text.
RunSeal(d) ==
  /\ Taken(d, "seal")
  /\ LET epoch == Head(queue[d]).epoch
         st    == WithoutList(Popped(d))
     IN  /\ Drop(epoch)
         /\ ranges' = IF shown.epoch = epoch THEN ranges \union {epoch} ELSE ranges
         /\ Proceed(d, IF epoch \notin DOMAIN segments THEN st
                       ELSE WriteIfFinished([st EXCEPT !.segments[epoch].placed = TRUE], epoch))
  /\ UNCHANGED <<text, others>>

RunLost(d) ==
  /\ Taken(d, "lost")
  /\ LET epoch == Head(queue[d]).epoch
         b     == AcceptLocalCandidates(composition.buffer)
     IN  IF Live(epoch)
         THEN /\ Proceed(d, [Popped(d) EXCEPT !.composition.converted = b.revision,
                                              !.composition.buffer = b])
              /\ IF b = composition.buffer THEN UNCHANGED <<text, shown>>
                 ELSE Render(d, epoch, Shown(b, immediate))
         ELSE Proceed(d, Popped(d)) /\ UNCHANGED <<text, shown>>
  /\ UNCHANGED <<ranges, others>>

\* Backspace behind everything typed so far: in the newest sealed text if the
\* caret is right after it, else in the document.
Erasable(d) ==
  {e \in SegmentsOf(d) :
     /\ segments[e].placed
     /\ \A k \in SegmentsOf(d) : k > e => ~segments[k].placed
     /\ CaretAfter(d, e)}

EraseLast(s) ==
  [s EXCEPT !.erased = @ + 1, !.stage = IF s.erased + 1 >= Length(s) THEN "finished" ELSE @]

RunErase(d) ==
  /\ Taken(d, "erase")
  /\ IF Erasable(d) = {}
     THEN /\ text' = [text EXCEPT ![d] = Erased(@, Len(@), 1)]
          /\ Proceed(d, Popped(d))
     ELSE /\ \E e \in Erasable(d) :
               Proceed(d, WriteIfFinished([Popped(d) EXCEPT !.segments[e] = EraseLast(@)], e))
          /\ UNCHANGED text
  /\ UNCHANGED <<shown, ranges, others>>

\* Text typed outside a composition.
RunInsert(d) ==
  /\ Taken(d, "insert")
  /\ text' = [text EXCEPT ![d] = Append(@, Piece(0, <<Typed>>))]
  /\ Proceed(d, Popped(d))
  /\ UNCHANGED <<shown, ranges, others>>

\* One that erases into the text before it waits for the segments before it.
Ready(s) == s.placed /\ Finished(s)

Writable(d) ==
  {e \in SegmentsOf(d) :
     /\ Ready(segments[e])
     /\ ErasesBefore(segments[e]) > 0 => \A k \in SegmentsOf(d) : k < e => Ready(segments[k])}

\* Mutant: the text is replaced whatever it has become.
UntouchedUnchecked(d, epoch) == epoch \in ranges

Untouched(d, epoch) == epoch \in ranges /\ CharsOf(text[d], epoch) = segments[epoch].shown

SealedSample(epoch, s) == IF s.erased > 0 THEN {} ELSE Sample(epoch, s.buffer)

Written(pieces, epoch, s) ==
  Erased(Rewritten(pieces, epoch, SealedText(s)), PieceOf(pieces, epoch) - 1, ErasesBefore(s))

\* The first segment that can be written: its text is replaced only if the
\* user has not changed it meanwhile.  The edit is over when none is left.
RunWrite(d) ==
  /\ Taken(d, "write")
  /\ IF Writable(d) = {}
     THEN Proceed(d, Popped(d)) /\ UNCHANGED <<text, ranges, samples>>
     ELSE \E e \in Writable(d) :
            /\ \A k \in Writable(d) : e <= k
            /\ Proceed(d, [Now EXCEPT !.segments = Restrict(@, DOMAIN segments \ {e})])
            /\ ranges' = ranges \ {e}
            /\ IF Untouched(d, e)
               THEN /\ text' = [text EXCEPT ![d] = Written(@, e, segments[e])]
                    /\ samples' = samples \union SealedSample(e, segments[e])
               ELSE UNCHANGED <<text, samples>>
  /\ UNCHANGED <<shown, immediate, docs, calls>>

RunEdit(d) ==
  \/ RunOpen(d) \/ RunShow(d) \/ RunApply(d) \/ RunCommit(d) \/ RunDiscard(d) \/ RunSeal(d)
  \/ RunLost(d) \/ RunErase(d) \/ RunInsert(d) \/ RunWrite(d)

-----------------------------------------------------------------------------
(***************************************************************************)
(* Keys in the document d, while no other document has a composition open. *)
(* After a key that closed the list, the result held back for it lands.    *)
(***************************************************************************)
Granted == \A d \in Docs : queue[d] = <<>>

Call(operation) ==
  /\ operation \in calls.among
  /\ Idle /\ connected
  /\ calls.prompt => Granted
  /\ calls.left > 0
  /\ calls' = [calls EXCEPT !.left = @ - 1]

Key(d, operation) ==
  /\ Call(operation)
  /\ d \in docs
  /\ Active => Owns(d)
  /\ UNCHANGED <<screen, immediate, docs, samples>>

Handled(d, st) ==
  /\ Become(st)
  /\ busy' = IF st.composition.lock # 0 /\ ~st.composition.list
             THEN Busy("afterKey", d, 0) ELSE NotBusy

CanOpen == Active \/ nextEpoch <= MaxEpochs

Composed(d, st, buffer) ==
  /\ Len(buffer.entries) <= calls.entries
  /\ Handled(d, Update(WithBuffer(st, buffer)))

TypeReading(d, key) ==
  /\ Key(d, key)
  /\ CanOpen
  /\ LET st == Open(WithoutList(Now), d)
     IN  /\ CanAdd(st.composition.buffer, key)
         /\ Composed(d, st, Add(st.composition.buffer, key))

TypeText(d) ==
  /\ Key(d, "typeText")
  /\ CanOpen
  /\ LET st == Open(WithoutList(Now), d)
     IN  Composed(d, st, AddChosenCandidate(st.composition.buffer))

\* Shift and a letter: the unfinished reading goes, the letter is composed.
ComposeEnglish(d) ==
  /\ Key(d, "typeText")
  /\ Owns(d) /\ CanDiscardReading(composition.buffer)
  /\ nextEpoch <= MaxEpochs
  /\ LET st == Open(DiscardReading(WithoutList(Now)), d)
     IN  Composed(d, st, AddChosenCandidate(st.composition.buffer))

\* A Shift tap from Chinese to English; its release is no OnKeyDown.
Shift(d) ==
  /\ Key(d, "shift")
  /\ Owns(d) /\ CanDiscardReading(composition.buffer)
  /\ Become(DiscardReading(WithoutList(Now)))
  /\ UNCHANGED busy

Backspace(d) ==
  /\ Key(d, "backspace")
  /\ Owns(d) /\ OnEntry(composition.buffer)
  /\ Handled(d, Update(WithBuffer(WithoutList(Now), RemoveLast(composition.buffer))))

MoveCaret(d, forward, toEdge) ==
  /\ Key(d, "move")
  /\ Owns(d) /\ ~composition.list /\ CanMove(composition.buffer, forward)
  /\ Handled(d, ShowAgain(WithBuffer(Now, Move(composition.buffer, forward, toEdge))))

Enter(d) ==
  /\ Key(d, "enter")
  /\ Owns(d) /\ ~composition.list /\ ~HasUncomposedReading(composition.buffer)
  /\ Handled(d, IF Settled(composition) THEN Commit(Now) ELSE Seal(Request(Now)))

Escape(d) ==
  /\ Key(d, "escape")
  /\ Owns(d) /\ ~composition.list
  /\ Handled(d, Discard(Now))

\* Backspace outside a composition, behind sealed text or queued edits.  Not
\* explored where it would find nothing left to erase.
BackspaceInOrder(d) ==
  /\ Key(d, "backspaceInOrder")
  /\ ~Owns(d)
  /\ SegmentsOf(d) # {} \/ queue[d] # <<>>
  /\ owed[d] # <<>>
  /\ Handled(d, Run([Now EXCEPT !.owed[d] = Front(@)], d, EraseEdit))

\* English text outside a composition.
InsertText(d) ==
  /\ Key(d, "insert")
  /\ ~Owns(d)
  /\ Handled(d, Run([Now EXCEPT !.owed[d] = Append(@, 0)], d, InsertEdit))

OpenCandidates(d) ==
  /\ Key(d, "candidates")
  /\ Owns(d) /\ ~composition.list
  /\ HasCandidateList(composition.buffer, immediate)
  /\ shown.epoch # 0
  /\ Handled(d, [Now EXCEPT !.composition.list = TRUE,
                            !.composition.lock = CandidateTarget(composition.buffer).id])

\* The choice is fixed; the rest is converted again around it.
Finalized(b) == Update(WithBuffer(WithoutList(Now), StepForward(b)))

Choose(d) ==
  /\ Key(d, "candidates")
  /\ Owns(d) /\ composition.list
  /\ \E literal \in BOOLEAN :
        /\ CanSelect(composition.buffer, composition.lock, literal)
        /\ Handled(d, Finalized(SelectCandidate(composition.buffer, composition.lock, literal)))

ChooseReading(d) ==
  /\ Key(d, "candidates")
  /\ Owns(d) /\ composition.list
  /\ CanSelectReading(composition.buffer, composition.lock)
  /\ \E withTone \in BOOLEAN :
        Handled(d, Finalized(SelectReading(composition.buffer, composition.lock, withTone)))

CloseCandidates(d) ==
  /\ Key(d, "candidates")
  /\ Owns(d) /\ composition.list
  /\ Handled(d, WithoutList(Now))

AfterKey ==
  /\ busy.call = "afterKey"
  /\ LET c  == composition
         b  == IF c.held = {} THEN c.buffer ELSE MergeHeld(c.buffer, CHOOSE h \in c.held : TRUE)
         st == [Now EXCEPT !.composition = [c EXCEPT !.lock = 0, !.held = {}, !.buffer = b]]
     IN  Become(IF b = c.buffer THEN st ELSE ShowAgain(st))
  /\ busy' = NotBusy
  /\ UNCHANGED <<screen, others>>

-----------------------------------------------------------------------------
(***************************************************************************)
(* Other calls                                                             *)
(***************************************************************************)
\* A key in the document d while another one has a composition open.
LeaveOtherDocument(d) ==
  /\ Call("leave")
  /\ d \in docs /\ Active /\ ~Owns(d)
  /\ Become(Seal(WithoutList(Now)))
  /\ UNCHANGED <<screen, immediate, docs, samples, busy>>

\* refresh_input_settings: the buffer follows the setting, the screen does not.
ChangeSetting ==
  /\ Call("setting")
  /\ immediate' = ~immediate
  /\ UNCHANGED <<controller, screen, docs, samples, busy>>

\* The user changes text already sealed, past the text service: here its
\* first character is replaced.
UserEdits(d, epoch) ==
  /\ Call("touch")
  /\ epoch \in ranges /\ CharsOf(text[d], epoch) # <<>>
  /\ text' = [text EXCEPT ![d] = Rewritten(@, epoch, <<Typed>> \o Tail(CharsOf(@, epoch)))]
  /\ UNCHANGED <<controller, shown, ranges, immediate, docs, samples, busy>>

\* OnCompositionTerminated: the host ends the composition it shows.
Terminate ==
  /\ Call("terminate")
  /\ shown.epoch # 0
  /\ Become(LET st == WithoutList(Now)
            IN  IF Owns(shown.doc) THEN Seal(DiscardReading(st)) ELSE st)
  /\ busy' = Busy("terminate", shown.doc, shown.epoch)
  /\ UNCHANGED <<screen, immediate, docs, samples>>

EndTermination ==
  /\ busy.call = "terminate"
  /\ ~CanRun(busy.doc)
  /\ shown' = NotShown
  /\ busy' = NotBusy
  /\ UNCHANGED <<controller, ranges, text, others>>

\* Mutant: the host's composition outlives its document.
CloseDocumentKeepsShown(d) ==
  /\ Call("close")
  /\ d \in docs
  /\ docs' = docs \ {d}
  /\ Become([IF Owns(d) THEN WithoutComposition(Now) ELSE Now EXCEPT
               !.segments = Restrict(@, DOMAIN segments \ SegmentsOf(d)),
               !.queue[d] = <<>>, !.owed[d] = <<>>])
  /\ ranges' = {epoch \in ranges : PiecesOf(text[d], epoch) = {}}
  /\ text' = [text EXCEPT ![d] = <<>>]
  /\ UNCHANGED <<shown, immediate, samples, busy>>

\* OnPopContext: the document is going away together with any text in it.
CloseDocument(d) ==
  /\ Call("close")
  /\ d \in docs
  /\ docs' = docs \ {d}
  /\ Become([IF Owns(d) THEN WithoutComposition(Now) ELSE Now EXCEPT
               !.segments = Restrict(@, DOMAIN segments \ SegmentsOf(d)),
               !.queue[d] = <<>>, !.owed[d] = <<>>])
  /\ shown' = IF Owns(d) THEN NotShown ELSE shown
  /\ ranges' = {epoch \in ranges : PiecesOf(text[d], epoch) = {}}
  /\ text' = [text EXCEPT ![d] = <<>>]
  /\ UNCHANGED <<immediate, samples, busy>>

\* deactivate: everything unfinished is finished with the local table; a
\* document may still grant what is queued, before the queues are dropped.
Deactivate ==
  /\ Call("deactivate")
  /\ Become(FinishLocally(Seal(WithoutList(
              [Now EXCEPT !.connected = FALSE, !.tracker = Forget(@)]))))
  /\ busy' = Busy("stop", NoDoc, 0)
  /\ UNCHANGED <<screen, immediate, docs, samples>>

Stop ==
  /\ busy.call = "stop"
  /\ Become([WithoutComposition(Now) EXCEPT !.queue = [d \in Docs |-> <<>>]])
  /\ shown' = NotShown
  /\ busy' = Busy("stopped", NoDoc, 0)
  /\ UNCHANGED <<ranges, text, others>>

-----------------------------------------------------------------------------
(***************************************************************************)
(* The backend                                                             *)
(***************************************************************************)
\* Merged in order with the edits queued before it.
Answer(sequence) ==
  /\ Idle
  /\ Awaits(tracker, sequence)
  /\ LET request == tracker.pending[sequence]
         st      == [Now EXCEPT !.tracker = Take(@, sequence)]
     IN  \E outcome \in Outcomes(request.snapshot) :
           Become(IF Live(request.epoch)
                  THEN Run(st, request.doc, ApplyEdit(request, sequence, outcome))
                  ELSE MergeSealed(st, sequence, request, outcome))
  /\ UNCHANGED <<screen, others, busy>>

\* A newer request of the composition replaced it unsent.  The worker tells so
\* after it queued the newer one, which may be answered by then.
Supersede(sequence) ==
  /\ Idle
  /\ Awaits(tracker, sequence)
  /\ SentLater(tracker, sequence, tracker.pending[sequence].epoch)
  /\ Become([Now EXCEPT !.tracker = Take(@, sequence)])
  /\ UNCHANGED <<screen, others, busy>>

Lose(sequence) ==
  /\ "lose" \in calls.among
  /\ Idle
  /\ Awaits(tracker, sequence)
  /\ Become(BackendLost([Now EXCEPT !.tracker = Take(@, sequence)]))
  /\ UNCHANGED <<screen, others, busy>>

-----------------------------------------------------------------------------
Init ==
  /\ composition = NoComposition
  /\ nextEpoch = 1
  /\ tracker = NoRequests
  /\ segments = NoSegments
  /\ connected = TRUE
  /\ calls \in Uses
  /\ immediate \in calls.immediate
  /\ queue = [d \in Docs |-> <<>>]
  /\ shown = NotShown
  /\ ranges = {}
  /\ text = [d \in Docs |-> <<Piece(0, [k \in 1..PreviousText |-> <<"typed", 0, 0, k>>])>>]
  /\ docs = calls.docs
  /\ busy = NotBusy
  /\ samples = {}
  /\ owed = [d \in Docs |-> [k \in 1..PreviousText |-> 0]]

Typing(d) ==
  \/ \E key \in Keys : TypeReading(d, key)
  \/ TypeText(d) \/ ComposeEnglish(d) \/ Shift(d) \/ Backspace(d)
  \/ \E forward, toEdge \in BOOLEAN : MoveCaret(d, forward, toEdge)
  \/ Enter(d) \/ Escape(d) \/ BackspaceInOrder(d) \/ InsertText(d)

Choosing(d) ==
  OpenCandidates(d) \/ Choose(d) \/ ChooseReading(d) \/ CloseCandidates(d)

Host(d) ==
  \/ LeaveOtherDocument(d) \/ CloseDocument(d)
  \/ \E epoch \in ranges : UserEdits(d, epoch)

Backend(sequence) == Answer(sequence) \/ Supersede(sequence) \/ Lose(sequence)

Next ==
  \/ \E d \in Docs : RunEdit(d) \/ Typing(d) \/ Choosing(d) \/ Host(d)
  \/ AfterKey \/ ChangeSetting \/ Terminate \/ EndTermination \/ Deactivate \/ Stop
  \/ \E sequence \in DOMAIN tracker.pending : Backend(sequence)

Spec == Init /\ [][Next]_vars

\* The documents grant their sessions, the thread finishes what it began, and
\* the backend answers every request.  The user and the host need do nothing.
Fairness ==
  /\ \A d \in Docs : WF_vars(RunEdit(d))
  /\ WF_vars(AfterKey) /\ WF_vars(EndTermination) /\ WF_vars(Stop)
  /\ WF_vars(\E sequence \in DOMAIN tracker.pending : Backend(sequence))

LiveSpec == Spec /\ Fairness
=============================================================================
