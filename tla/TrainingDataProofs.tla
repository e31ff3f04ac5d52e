------------------------- MODULE TrainingDataProofs -------------------------
(***************************************************************************)
(* What the user takes back, erases or switches off is never written; what *)
(* is stored can be opened, nothing is trained twice along a line of runs, *)
(* and the count shown is right: for any number of connections and         *)
(* commits, any window and any length of the queue, whatever training, the *)
(* settings window and a crash do meanwhile.                               *)
(*                                                                         *)
(* A commit to be forgotten may still wait in the queue, in the worker's   *)
(* hands or among the staged.  Then what removes it stands in the queue as *)
(* well, behind it and before any commit that would confirm it (Doomed):   *)
(* as the queue is not empty, the worker writes nothing of its own accord. *)
(* A commit accepted before everything was erased keeps the generation it  *)
(* was accepted in, which is never the current one again (Fresh).          *)
(*                                                                         *)
(* The rest stands on what is stored (Kept), on the password the worker    *)
(* has read, good for one generation (Secret), and on who is publishing    *)
(* the count: as long as no two are, whoever has changed what is counted   *)
(* brings the number that makes up for it (Right).                         *)
(***************************************************************************)
EXTENDS TrainingDataProperties, WellFoundedInduction, FiniteSetTheorems,
  SequenceTheorems, TLAPS

Operation ==
  [kind : {"none", "commit", "discard", "clear"}, commit : Commits \union {<<>>},
   generation : Nat, inTime : BOOLEAN]

Work ==
  [at : {"none", "start", "wait", "run", "drain", "write", "stage", "persist", "publish",
         "ended", "failed"},
   operation : Operation, hand : Entries \union {NoCommit}, due : Nat, last : BOOLEAN]

Queue == 1..Len(queue)
Stages == 1..Len(staged)

\* The places where an operation of a kind stands.
IsCommit(o) == o.kind = "commit"
Operating == IsCommit(worker.operation)
Persisting == worker.at = "persist"

Typed ==
  /\ queue \in Seq(Operation)
  /\ \A i \in Queue : /\ queue[i].kind # "none"
                      /\ IsCommit(queue[i]) => queue[i].commit \in Commits
  /\ staged \in Seq(Entries)
  /\ worker \in Work
  /\ generation \in Nat
  /\ used \in [Sessions -> Nat] /\ latest \in [Sessions -> Nat] /\ age \in [Commits -> Nat]
  /\ stored \subseteq Commits
  /\ withdrawn \subseteq Commits /\ erased \subseteq Commits /\ forgotten \subseteq Commits

\* What the worker has in hand, by the place where it is.
Shape ==
  LET op == worker.operation IN
  /\ op.kind = "none" => op = NoOperation
  /\ worker.at = "run" => op.kind # "none"
  /\ worker.at = "stage" => op.kind = "commit"
  /\ worker.at \in {"persist", "publish"} => op.kind \in {"none", "commit"}
  /\ worker.at \notin {"run", "stage", "persist", "publish"} => op.kind = "none"
  /\ op.kind = "commit" => op.commit \in Commits
  /\ op.kind # "none" => worker.due = 0 /\ ~worker.last
  /\ worker.at \in {"write", "persist", "publish"} => worker.due <= Len(staged)
  /\ Persisting => worker.hand \in Entries
  /\ worker.last => stopping

Off ==
  /\ ~up => /\ queue = <<>> /\ staged = <<>> /\ worker = Resting("none") /\ settings = Idle
            /\ latest = [s \in Sessions |-> 0]
  /\ settings.at = "erase" => ~recording

\* If c and d are of one session, c is the earlier.
Before(c, d) == c[1] = d[1] => c[2] < d[2]

Order ==
  /\ \A i, j \in Queue : i < j /\ IsCommit(queue[i]) /\ IsCommit(queue[j]) =>
       Before(queue[i].commit, queue[j].commit)
  /\ \A j \in Queue : IsCommit(queue[j]) =>
       /\ \A k \in Stages : Before(staged[k].commit, queue[j].commit)
       /\ Operating => Before(worker.operation.commit, queue[j].commit)
       /\ Persisting => Before(worker.hand.commit, queue[j].commit)
  /\ Operating =>
       /\ \A k \in Stages : Before(staged[k].commit, worker.operation.commit)
       /\ Persisting => Before(worker.hand.commit, worker.operation.commit)
  /\ \A k, l \in Stages : k # l => staged[k].commit # staged[l].commit
  /\ Persisting => \A k \in Stages : staged[k].commit # worker.hand.commit

\* An entry is waiting to be written.
Is(o, e) == IsCommit(o) /\ o.commit = e.commit /\ o.generation = e.generation
Waits(e) ==
  \/ \E i \in Queue : Is(queue[i], e)
  \/ Is(worker.operation, e)
  \/ \E k \in Stages : staged[k] = e
  \/ Persisting /\ worker.hand = e

Fresh ==
  \A e \in Entries : Waits(e) =>
    /\ e.commit \notin stored
    /\ e.commit[2] <= used[e.commit[1]]
    /\ e.generation <= generation
    /\ e.commit \in erased \/ settings.at = "erase" => e.generation < generation

Past == \A c \in stored \union withdrawn \union erased \union forgotten : c[2] <= used[c[1]]

\* The last commit of a connection cannot have been confirmed: while it is
\* young, the worker does not write it unless it ends.
Young ==
  /\ \A s \in Sessions : latest[s] # 0 => latest[s] = used[s] /\ latest[s] \in Numbers
  /\ \A c \in Commits : up /\ ~stopping /\ latest[c[1]] = c[2] /\ age[c] < Window =>
       c \notin stored /\ ~(Persisting /\ worker.hand.commit = c)
  /\ worker.at \in {"write", "persist", "publish"} /\ ~Operating /\ ~worker.last =>
       /\ \A k \in 1..worker.due : age[staged[k].commit] >= Window
       /\ Persisting => age[worker.hand.commit] >= Window

Removes(o, c) == o.kind = "clear" \/ (o.kind = "discard" /\ o.commit = c /\ o.inTime)

\* Behind the place i in the queue c is removed, and nothing confirms it before.
Removed(i, c) ==
  \E j \in Queue :
    /\ i < j /\ Removes(queue[j], c)
    /\ \A k \in Queue : i < k /\ k < j /\ IsCommit(queue[k]) => queue[k].commit[1] # c[1]

Doom(c) ==
  /\ c \notin stored
  /\ ~(Persisting /\ worker.hand.commit = c)
  /\ \A i \in Queue : IsCommit(queue[i]) /\ queue[i].commit = c => Removed(i, c)
  /\ Operating /\ worker.operation.commit = c => Removed(0, c)
  /\ (\E k \in Stages : staged[k].commit = c) =>
       /\ worker.at \notin {"drain", "write"}
       /\ worker.at \in {"persist", "publish"} => Operating
       /\ \/ worker.at = "run" /\ Removes(worker.operation, c)
          \/ /\ Removed(0, c)
             /\ ~(worker.at = "run" /\ Operating /\ worker.operation.commit[1] = c[1])

Doomed == \A c \in withdrawn \union forgotten : Doom(c)

IInv ==
  /\ Typed /\ Shape /\ Off /\ Order /\ Fresh /\ Past /\ Young /\ Doomed
  /\ erased \intersect stored = {}

LEMMA InvHolds ==
  ASSUME IInv PROVE ForgottenStaysOut
  BY DEF IInv, Doomed, Doom, ForgottenStaysOut, TakenBackStaysOut, ErasedStaysErased,
         SwitchedOffForgets

-----------------------------------------------------------------------------
(***************************************************************************)
(* Sequences                                                               *)
(***************************************************************************)
LEMMA MinIn ==
  ASSUME NEW S \in SUBSET Nat, S # {}
  PROVE  Min(S) \in S /\ \A n \in S : Min(S) <= n
<1> DEFINE Smaller == OpToRel(<, Nat)
<1>1. \A n, m \in Nat : n < m => <<n, m>> \in Smaller
  BY Zenon DEF OpToRel
<1>2. IsWellFoundedOn(Smaller, Nat)
  BY NatLessThanWellFounded
<1> HIDE DEF Smaller
<1>3. PICK x \in S : \A y \in S : ~(<<y, x>> \in Smaller)
  BY <1>2, WFMin
<1>4. ASSUME NEW y \in S PROVE x <= y
  <2>1. x \in Nat /\ y \in Nat
    OBVIOUS
  <2>2. ~(y < x)
    BY <1>1, <1>3, <2>1, Zenon
  <2> QED BY <2>1, <2>2
<1> QED BY <1>4 DEF Min

\* A list without its i-th element.
LEMMA Removing ==
  ASSUME NEW T, NEW s \in Seq(T), NEW i \in 1..Len(s)
  PROVE  /\ RemoveAt(s, i) \in Seq(T)
         /\ Len(RemoveAt(s, i)) = Len(s) - 1
         /\ \A k \in 1..Len(s) - 1 :
              RemoveAt(s, i)[k] = IF k < i THEN s[k] ELSE s[k + 1]
<1> DEFINE a == SubSeq(s, 1, i - 1)  b == SubSeq(s, i + 1, Len(s))
<1>1. /\ a \in Seq(T) /\ Len(a) = i - 1 /\ \A k \in 1..i - 1 : a[k] = s[k]
      /\ b \in Seq(T) /\ Len(b) = Len(s) - i /\ \A k \in 1..Len(s) - i : b[k] = s[k + i]
  BY SubSeqProperties
<1> HIDE DEF a, b
<1>2. /\ a \o b \in Seq(T) /\ Len(a \o b) = Len(a) + Len(b)
      /\ \A k \in 1..Len(a) + Len(b) :
           (a \o b)[k] = IF k <= Len(a) THEN a[k] ELSE b[k - Len(a)]
  BY <1>1, ConcatProperties
<1>3. \A k \in 1..Len(s) - 1 : (a \o b)[k] = IF k < i THEN s[k] ELSE s[k + 1]
  BY <1>1, <1>2
<1>4. Len(a \o b) = Len(s) - 1
  BY <1>1, <1>2
<1>5. RemoveAt(s, i) = a \o b
  BY DEF RemoveAt, a, b
<1> QED BY <1>2, <1>3, <1>4, <1>5

LEMMA SameCommit ==
  ASSUME NEW c \in Commits, NEW d \in Commits, c[1] = d[1], c[2] = d[2]
  PROVE  c = d
  BY DEF Commits

LEMMA CommitParts ==
  ASSUME NEW c \in Commits
  PROVE  c[1] \in Sessions /\ c[2] \in Numbers /\ c[2] \in Nat /\ c[2] > 0
<1>1. PICK s \in Sessions, n \in Numbers : c = <<s, n>>
  BY DEF Commits
<1> QED BY <1>1, NumbersAssumption

-----------------------------------------------------------------------------
LEMMA InitInv == Init => IInv
<1> SUFFICES ASSUME Init PROVE IInv
  OBVIOUS
<1>1. PICK use \in Uses : table = use.database.table /\ used = use.database.used
  BY DEF Init
<1>2. used \in [Sessions -> Nat] /\ \A c \in stored : c \in Commits /\ c[2] <= used[c[1]]
  BY <1>1, UsesAssumption DEF stored, Found
<1>3. /\ queue = <<>> /\ staged = <<>> /\ worker = Resting("none") /\ settings = Idle
      /\ generation = 0 /\ ~up /\ latest = [s \in Sessions |-> 0]
      /\ withdrawn = {} /\ erased = {} /\ forgotten = {}
  BY DEF Init
<1>4. age \in [Commits -> Nat]
  BY WindowAssumption DEF Init
<1>5. Resting("none") \in Work /\ Resting("none").operation = NoOperation
      /\ Resting("none").at = "none" /\ ~Resting("none").last /\ NoOperation.kind = "none"
  BY DEF Resting, Work, NoOperation, NoCommit, Operation
<1>6. Typed
  BY <1>2, <1>3, <1>4, <1>5 DEF Typed, Queue
<1>7. Shape /\ Off /\ ~Persisting /\ ~Operating /\ Queue = {} /\ Stages = {}
  BY <1>3, <1>5 DEF Shape, Off, Idle, Persisting, Operating, IsCommit, Queue, Stages
<1>8. Order /\ Fresh /\ Past /\ Young /\ Doomed
  BY <1>2, <1>3, <1>5, <1>7
  DEF Order, Fresh, Waits, Is, IsCommit, Operating, Past, Young, Doomed, Doom
<1> QED BY <1>3, <1>6, <1>7, <1>8 DEF IInv

-----------------------------------------------------------------------------
(***************************************************************************)
(* Steps that leave the worker and its queue alone                         *)
(***************************************************************************)
\* Rows may go, time passes, calls return.
Quiet ==
  /\ UNCHANGED <<queue, staged, worker, generation, up, used, latest, ghosts>>
  /\ stored' \subseteq stored
  /\ age' \in [Commits -> Nat] /\ \A c \in Commits : age'[c] >= age[c]
  /\ stopping => stopping'
  /\ settings'.at = "erase" => settings.at = "erase" /\ ~recording'
  /\ ~up => settings' = settings

LEMMA QuietInv ==
  ASSUME IInv, Quiet PROVE IInv'
<1> USE DEF Quiet, ghosts
<1>1. Typed'
  BY DEF IInv, Typed, Queue
<1>2. Shape' /\ Off'
  BY DEF IInv, Shape, Off, Persisting
<1>3. Order'
  BY DEF IInv, Order, Queue, Stages, Persisting, Operating
<1>4. Fresh'
  BY DEF IInv, Fresh, Waits, Queue, Stages, Persisting
<1>5. Past'
  BY DEF IInv, Past
<1>6. Young'
  <2>1. ASSUME NEW c \in Commits, age'[c] < Window PROVE age[c] < Window
    BY <2>1, WindowAssumption DEF IInv, Typed
  <2>2. ASSUME NEW c \in Commits, age[c] >= Window PROVE age'[c] >= Window
    BY <2>2, WindowAssumption DEF IInv, Typed
  <2>3. worker.at \in {"write", "persist", "publish"} =>
          \A k \in 1..worker.due : staged[k].commit \in Commits
    <3> SUFFICES ASSUME worker.at \in {"write", "persist", "publish"}, NEW k \in 1..worker.due
                 PROVE  staged[k].commit \in Commits
      OBVIOUS
    <3>1. worker.due \in Nat /\ worker.due <= Len(staged)
      BY DEF IInv, Typed, Work, Shape
    <3>2. k \in 1..Len(staged)
      BY <3>1
    <3>3. staged[k] \in Entries
      BY <3>2 DEF IInv, Typed
    <3> QED BY <3>3 DEF Entries
  <2>4. Persisting => worker.hand.commit \in Commits
    BY DEF IInv, Shape, Entries
  <2> QED BY <2>1, <2>2, <2>3, <2>4 DEF IInv, Young, Persisting, Operating
<1>7. Doomed'
  BY DEF IInv, Doomed, Doom, Queue, Stages, Persisting, Operating, Removed
<1> QED BY <1>1, <1>2, <1>3, <1>4, <1>5, <1>6, <1>7 DEF IInv

\* The process is gone, or begins: nothing waits to be written.
LEMMA RestingState ==
  ASSUME NEW at
  PROVE  /\ Resting(at).at = at /\ Resting(at).operation = NoOperation
         /\ Resting(at).hand = NoCommit /\ Resting(at).due = 0 /\ ~Resting(at).last
         /\ NoOperation.kind = "none" /\ NoOperation \in Operation
  BY DEF Resting, NoOperation, Operation

LEMMA EmptyInv ==
  ASSUME IInv, queue' = <<>>, staged' = <<>>, NEW at \in {"none", "start"}, worker' = Resting(at),
         generation' = 0 \/ generation' = generation, UNCHANGED <<used, ghosts>>,
         stored' \subseteq stored, settings' = Idle, up' <=> at = "start",
         latest' = [s \in Sessions |-> 0], age' \in [Commits -> Nat]
  PROVE  IInv'
<1> USE RestingState DEF ghosts
<1>1. Resting(at) \in Work
  BY DEF Resting, Work, NoOperation, NoCommit, Operation
<1>2. Typed'
  BY <1>1 DEF IInv, Typed, Queue
<1>3. Shape' /\ Off' /\ ~Persisting' /\ ~Operating' /\ Queue' = {} /\ Stages' = {}
  BY DEF Shape, Off, Idle, Persisting, Operating, IsCommit, Queue, Stages
<1>4. Order' /\ Fresh' /\ Past'
  BY <1>3 DEF Order, Fresh, Waits, Is, IsCommit, Operating, IInv, Past
<1>5. Young'
  BY CommitParts DEF Young
<1>6. Doomed'
  BY <1>3 DEF IInv, Doomed, Doom
<1> QED BY <1>2, <1>3, <1>4, <1>5, <1>6 DEF IInv

LEMMA GoneInv ==
  ASSUME IInv, Gone PROVE IInv'
BY WindowAssumption, EmptyInv DEF Gone, database, stored

LEMMA StartInv ==
  ASSUME IInv, Start PROVE IInv'
BY EmptyInv DEF Start, IInv, Typed, Off, clients, Readable, stored

\* What the settings window, training and the counting of commits change beside
\* the worker.
LEMMA OthersInv ==
  ASSUME IInv,
         \/ Stop \/ Tick \/ TrainingStep \/ CountStep \/ EraseFails \/ PublishErased \/ Configure
         \/ \E on \in BOOLEAN : Switch(on)
         \/ \E c \in stored : DeletePending(c)
         \/ \E selected \in SUBSET stored : ExcludeUnselected(selected, stored)
  PROVE  IInv'
<1> USE DEF thread, memory, counts, database, clients, Quiet, stored, Idle
<1>0. age \in [Commits -> Nat] /\ \A c \in Commits : age[c] >= age[c]
  BY DEF IInv, Typed
<1>1. CASE Stop
  BY <1>0, <1>1, QuietInv DEF Stop, IInv, Off
<1>2. CASE Tick
  BY <1>0, <1>2, QuietInv DEF Tick, IInv, Off
<1>3. CASE TrainingStep
  <2> USE DEF TrainingUnchanged, IInv, Off
  <2>1. ASSUME NEW base, Identify(base) PROVE Quiet
    BY <1>0, <2>1 DEF Identify
  <2>2. ASSUME NEW parent, NEW base, NEW chosen, ReadRecords(parent, base, chosen) PROVE Quiet
    BY <1>0, <2>2 DEF ReadRecords
  <2>3. ASSUME Complete PROVE Quiet
    BY <1>0, <2>3 DEF Complete
  <2> QED BY <1>3, <2>1, <2>2, <2>3, QuietInv DEF TrainingStep
<1>4. CASE CountStep
  BY <1>0, <1>4, QuietInv DEF CountStep, CountNow, PublishCount, TrainingUnchanged, IInv, Off
<1>5. CASE EraseFails \/ PublishErased
  BY <1>0, <1>5, QuietInv DEF EraseFails, PublishErased, CallUnchanged, IInv, Off
<1>6. CASE Configure
  BY <1>0, <1>6, QuietInv DEF Configure, CallUnchanged, Call, IInv, Off
<1>7. ASSUME NEW on \in BOOLEAN, Switch(on) PROVE IInv'
  BY <1>0, <1>7, QuietInv DEF Switch, CallUnchanged, Call, IInv, Off
<1>8. ASSUME NEW c \in stored, DeletePending(c) PROVE IInv'
  BY <1>0, <1>8, QuietInv DEF DeletePending, TrainingUnchanged, IInv, Off
<1>9. ASSUME NEW selected, ExcludeUnselected(selected, stored) PROVE IInv'
  BY <1>0, <1>9, QuietInv DEF ExcludeUnselected, TrainingUnchanged, IInv, Off
<1> QED BY <1>1, <1>2, <1>3, <1>4, <1>5, <1>6, <1>7, <1>8, <1>9

-----------------------------------------------------------------------------
(***************************************************************************)
(* The commands of a client                                                *)
(***************************************************************************)
\* What one more operation at the end of the queue leaves as it was.
LEMMA Appended ==
  ASSUME Typed, NEW o \in Operation, queue' = Append(queue, o)
  PROVE  /\ queue' \in Seq(Operation) /\ Queue' = Queue \union {Len(queue) + 1}
         /\ Len(queue) + 1 \notin Queue /\ queue'[Len(queue) + 1] = o
         /\ \A i \in Queue : queue'[i] = queue[i] /\ i <= Len(queue) /\ i \in Nat
  BY DEF Typed, Queue

LEMMA StillRemoved ==
  ASSUME Typed, NEW o \in Operation, queue' = Append(queue, o), NEW i \in Nat, NEW c \in Commits,
         Removed(i, c)
  PROVE  Removed(i, c)'
<1>1. PICK j \in Queue : /\ i < j /\ Removes(queue[j], c)
                          /\ \A k \in Queue : i < k /\ k < j /\ IsCommit(queue[k]) =>
                               queue[k].commit[1] # c[1]
  BY DEF Removed
<1>2. j \in Queue' /\ Removes(queue'[j], c) /\ j <= Len(queue)
  BY <1>1, Appended
<1>3. ASSUME NEW k \in Queue', i < k, k < j, IsCommit(queue'[k])
      PROVE  queue'[k].commit[1] # c[1]
  <2>1. k \in Queue
    BY <1>2, <1>3, Appended DEF Queue, Typed
  <2> QED BY <1>1, <1>3, <2>1, Appended
<1> QED BY <1>1, <1>2, <1>3 DEF Removed

\* What is known of a commit that waits.
Known(c) == c \in Commits /\ c \notin stored /\ c[2] <= used[c[1]]

LEMMA WaitingKnown ==
  ASSUME IInv
  PROVE  /\ \A i \in Queue : IsCommit(queue[i]) => Known(queue[i].commit)
         /\ Operating => Known(worker.operation.commit)
         /\ \A k \in Stages : Known(staged[k].commit)
         /\ Persisting => Known(worker.hand.commit)
<1>1. ASSUME NEW e \in Entries, Waits(e) PROVE Known(e.commit)
  BY <1>1 DEF IInv, Fresh, Known, Entries
<1>2. ASSUME NEW i \in Queue, IsCommit(queue[i]) PROVE Known(queue[i].commit)
  <2> DEFINE e == [commit |-> queue[i].commit, generation |-> queue[i].generation]
  <2>1. queue[i] \in Operation /\ queue[i].commit \in Commits
    BY ElementOfSeq, <1>2 DEF IInv, Typed, Queue
  <2>2. e \in Entries /\ Waits(e)
    BY <1>2, <2>1 DEF Entries, Operation, Waits, Is
  <2> HIDE DEF e
  <2>3. Known(e.commit)
    BY <1>1, <2>2
  <2> QED BY <2>3 DEF e
<1>3. ASSUME Operating PROVE Known(worker.operation.commit)
  <2> DEFINE e == [commit |-> worker.operation.commit, generation |-> worker.operation.generation]
  <2>1. worker.operation \in Operation /\ worker.operation.commit \in Commits
    BY <1>3 DEF IInv, Typed, Work, Shape, Operating, IsCommit
  <2>2. e \in Entries /\ Waits(e)
    BY <1>3, <2>1 DEF Entries, Operation, Waits, Is, Operating
  <2> HIDE DEF e
  <2>3. Known(e.commit)
    BY <1>1, <2>2
  <2> QED BY <2>3 DEF e
<1>4. ASSUME NEW k \in Stages PROVE Known(staged[k].commit)
  BY <1>1 DEF IInv, Typed, Stages, Waits
<1>5. ASSUME Persisting PROVE Known(worker.hand.commit)
  BY <1>5, <1>1 DEF IInv, Shape, Waits
<1> QED BY <1>2, <1>3, <1>4, <1>5

LEMMA RecordInv ==
  ASSUME IInv, NEW s \in Sessions, RecordCommit(s) PROVE IInv'
<1>0. PICK n \in Nat : n = used[s] + 1
  BY DEF IInv, Typed
<1> DEFINE c == <<s, n>>
<1>1. /\ c \in Commits /\ c[1] = s /\ c[2] = n /\ n # 0
      /\ used' = [used EXCEPT ![s] = n] /\ latest' = [latest EXCEPT ![s] = n] /\ Enqueue(c)
      /\ UNCHANGED <<staged, worker, table, stored, recording, generation, up, stopping, settings,
                      age, ghosts>>
      /\ used[s] \in Nat
  BY <1>0, NumbersAssumption DEF RecordCommit, Commits, database, thread, stored, IInv, Typed
<1> HIDE DEF c
<1>2. used' \in [Sessions -> Nat] /\ latest' \in [Sessions -> Nat]
      /\ \A t \in Sessions : used[t] <= used'[t]
  BY <1>0, <1>1 DEF IInv, Typed
<1>3. ASSUME NEW d \in Commits, d[2] <= used[d[1]]
      PROVE  d # c /\ Before(d, c) /\ d[2] <= used'[d[1]]
  BY <1>0, <1>1, <1>2, <1>3, CommitParts DEF Before, IInv, Typed
<1>4. Past'
  BY <1>1, <1>3 DEF IInv, Past, Typed, ghosts
<1>5. Young'
  <2>1. c \notin stored /\ (Persisting => worker.hand.commit # c)
    BY <1>3, WaitingKnown DEF Known, IInv, Past, Typed
  <2>2. \A t \in Sessions : latest'[t] # 0 => latest'[t] = used'[t] /\ latest'[t] \in Numbers
    BY <1>1, CommitParts DEF IInv, Young, Typed
  <2>3. ASSUME NEW d \in Commits, up, ~stopping, latest'[d[1]] = d[2], age[d] < Window
        PROVE  d \notin stored /\ ~(Persisting /\ worker.hand.commit = d)
    BY <1>1, <2>3, SameCommit, <2>1, CommitParts DEF IInv, Typed, Young
  <2> QED BY <1>1, <2>2, <2>3 DEF IInv, Young, Persisting, Operating
<1>6. CASE UNCHANGED queue
  <2>1. Typed' /\ Shape' /\ Order' /\ Doomed'
    BY <1>1, <1>2, <1>6 DEF IInv, Typed, Shape, Order, Doomed, Doom, Queue, Stages, Persisting,
       Operating, Removed, ghosts
  <2>2. Off'
    BY <1>1, <1>6 DEF IInv, Off, RecordCommit, Call
  <2>3. Fresh'
    BY <1>1, <1>6, <1>3 DEF Waits, Queue, Stages, Persisting, IInv, Fresh, Entries, ghosts
  <2> QED BY <1>1, <1>4, <1>5, <2>1, <2>2, <2>3 DEF IInv, ghosts
<1>7. CASE queue' = Append(queue, Commit(c)) /\ recording
  <2> DEFINE o == Commit(c)  last == Len(queue) + 1
  <2>1. o \in Operation /\ o.kind = "commit" /\ o.commit = c /\ o.generation = generation
    BY <1>1 DEF Commit, Operation, IInv, Typed
  <2> HIDE DEF o
  <2>2. /\ queue' \in Seq(Operation) /\ Queue' = Queue \union {last}
        /\ last \notin Queue /\ queue'[last] = o
        /\ \A i \in Queue : queue'[i] = queue[i] /\ i < last /\ i \in Nat
    BY <1>7, <2>1, Appended DEF o, IInv, Typed, Queue
  <2>3. last \in Nat
    BY DEF IInv, Typed
  <2> HIDE DEF last
  <2>4. Typed'
    BY <1>1, <1>2, <2>1, <2>2 DEF IInv, Typed, IsCommit, ghosts
  <2>5. Shape' /\ Off'
    BY <1>1 DEF IInv, Shape, Off, Persisting, RecordCommit, Call
  <2>6. Order'
    <3>1. ASSUME NEW i \in Queue', NEW j \in Queue', i < j, IsCommit(queue'[i]), IsCommit(queue'[j])
          PROVE  Before(queue'[i].commit, queue'[j].commit)
      BY <2>2, <2>3, <3>1, <1>3, <2>1, WaitingKnown DEF IInv, Order, Known
    <3>2. ASSUME NEW j \in Queue', IsCommit(queue'[j])
          PROVE  /\ \A k \in Stages : Before(staged[k].commit, queue'[j].commit)
                 /\ Operating => Before(worker.operation.commit, queue'[j].commit)
                 /\ Persisting => Before(worker.hand.commit, queue'[j].commit)
      BY <2>2, <3>2, <1>3, <2>1, WaitingKnown DEF IInv, Order, Known
    <3> QED BY <1>1, <3>1, <3>2 DEF IInv, Order, Stages, Operating, Persisting
  <2>7. Fresh'
    <3> SUFFICES ASSUME NEW e \in Entries, Waits(e)'
                 PROVE  /\ e.commit \notin stored
                        /\ e.commit[2] <= used'[e.commit[1]]
                        /\ e.generation <= generation
                        /\ e.commit \in erased \/ settings.at = "erase" => e.generation < generation
      BY <1>1 DEF Fresh, ghosts
    <3>1. Waits(e) \/ Is(o, e)
      BY <1>1, <2>2 DEF Waits, Stages, Persisting
    <3>2. CASE Waits(e)
      BY <1>3, <3>2 DEF IInv, Fresh, Entries
    <3>3. CASE Is(o, e)
      BY <2>1, <3>3, <1>3, <1>7, <1>1, <1>2 DEF Is, IInv, Past, Typed, Off
    <3> QED BY <3>1, <3>2, <3>3
  <2>8. Doomed'
    <3> SUFFICES ASSUME NEW d \in withdrawn \union forgotten PROVE Doom(d)'
      BY <1>1 DEF Doomed, ghosts
    <3>1. d \in Commits /\ d # c /\ Doom(d)
      BY <1>3 DEF IInv, Past, Typed, Doomed
    <3>2. ASSUME NEW i \in Nat, Removed(i, d) PROVE Removed(i, d)'
      BY <1>7, <2>1, <3>1, <3>2, StillRemoved DEF IInv, o
    <3>3. ASSUME NEW i \in Queue', IsCommit(queue'[i]), queue'[i].commit = d PROVE Removed(i, d)'
      BY <2>1, <2>2, <3>1, <3>3, <3>2 DEF Doom
    <3> QED BY <1>1, <3>1, <3>2, <3>3 DEF Doom, Stages, Persisting, Operating
  <2> QED BY <1>1, <1>4, <1>5, <2>4, <2>5, <2>6, <2>7, <2>8 DEF IInv, ghosts
<1> QED BY <1>1, <1>6, <1>7 DEF Enqueue, Accepts

\* Nothing of the session stands behind its last commit.
LEMMA DiscardInv ==
  ASSUME IInv, NEW s \in Sessions, DiscardLastCommit(s) PROVE IInv'
<1>0. PICK n \in Nat : n = latest[s]
  BY DEF IInv, Typed
<1> DEFINE c == <<s, n>>
<1>1. /\ UNCHANGED <<table, stored, staged, worker, recording, generation, up, stopping, settings,
                      used, latest, age, erased, forgotten>>
      /\ n # 0 /\ c[1] = s /\ c[2] = n /\ n = used[s]
      /\ up
      /\ c \in Commits
  BY <1>0 DEF DiscardLastCommit, Call, database, thread, stored, IInv, Young, Commits
<1>2. CASE UNCHANGED <<queue, withdrawn>>
  BY <1>1, <1>2, QuietInv DEF Quiet, ghosts, IInv, Typed, Off
<1>3. CASE Accepts /\ queue' = Append(queue, Discard(c))
           /\ withdrawn' = IF age[c] < Window /\ ~Draining THEN withdrawn \union {c} ELSE withdrawn
  <2> DEFINE o == Discard(c)  last == Len(queue) + 1
  <2>1. o \in Operation /\ o.kind = "discard" /\ o.commit = c /\ o.inTime = (age[c] <= Window)
    BY <1>1, <1>3 DEF Discard, Operation
  <2> HIDE DEF o
  <2>2. /\ queue' \in Seq(Operation) /\ Queue' = Queue \union {last}
        /\ last \notin Queue /\ queue'[last] = o
        /\ \A i \in Queue : queue'[i] = queue[i] /\ i < last /\ i \in Nat
    BY <1>3, <2>1, Appended DEF o, IInv, Typed, Queue
  <2>3. last \in Nat
    BY DEF IInv, Typed
  <2> HIDE DEF last, c
  <2>4. ~IsCommit(o)
    BY <2>1 DEF IsCommit
  <2>5. Typed'
    BY <1>1, <1>3, <2>1, <2>2, <2>4 DEF IInv, Typed
  <2>6. Shape' /\ Off' /\ Young'
    BY <1>1 DEF IInv, Shape, Off, Young, Persisting, Operating
  <2>7. Order'
    BY <1>1, <2>2, <2>4 DEF IInv, Order, Stages, Operating, Persisting
  <2>8. Fresh'
    BY <1>1, <2>2, <2>4 DEF Waits, Is, Stages, Persisting, IInv, Fresh
  <2>9. Past'
    BY <1>1, <1>3 DEF IInv, Past, c
  <2>10. ASSUME NEW d \in withdrawn \union forgotten PROVE Doom(d)'
    <3>1. d \in Commits /\ Doom(d)
      BY DEF IInv, Typed, Doomed
    <3>2. ASSUME NEW i \in Nat, Removed(i, d) PROVE Removed(i, d)'
      BY <1>3, <2>1, <3>1, <3>2, StillRemoved DEF IInv, o
    <3>3. ASSUME NEW i \in Queue', IsCommit(queue'[i]), queue'[i].commit = d PROVE Removed(i, d)'
      BY <2>2, <2>4, <3>3, <3>1, <3>2 DEF Doom
    <3> QED BY <1>1, <3>1, <3>2, <3>3 DEF Doom, Stages, Persisting, Operating
  <2>11. ASSUME age[c] < Window, ~Draining PROVE Doom(c)'
    <3>1. Removes(o, c)
      <4>1. age[c] \in Nat
        BY <1>1 DEF IInv, Typed, c
      <4>2. age[c] <= Window
        BY <4>1, <2>11, WindowAssumption
      <4> QED BY <2>1, <4>2 DEF Removes
    <3>2. ASSUME NEW d \in Commits, Before(c, d), Known(d) PROVE d[1] # s
      BY <1>1, <3>2, CommitParts DEF Before, Known, c
    <3>3. ASSUME NEW i \in Nat, i < last,
                 \A k \in Queue : i < k /\ IsCommit(queue[k]) => queue[k].commit[1] # s
          PROVE  Removed(i, c)'
      BY <1>1, <2>2, <2>3, <2>4, <3>1, <3>3 DEF Removed, c
    <3>4. c \notin stored /\ ~(Persisting /\ worker.hand.commit = c)
      BY <1>0, <1>1, <1>3, <2>11 DEF IInv, Young, Accepts, c
    <3>5. ASSUME NEW i \in Queue', IsCommit(queue'[i]), queue'[i].commit = c PROVE Removed(i, c)'
      BY <2>2, <2>4, <3>5, <3>2, WaitingKnown, <3>3 DEF IInv, Order, Known
    <3>6. ASSUME Operating, worker.operation.commit = c PROVE Removed(0, c)'
      <4>1. ASSUME NEW k \in Queue, IsCommit(queue[k]) PROVE queue[k].commit[1] # s
        BY <3>2, <3>6, <4>1, WaitingKnown DEF IInv, Order, Known
      <4>2. 0 < last
        BY <2>3 DEF last, IInv, Typed
      <4> QED BY <3>3, <4>1, <4>2
    <3>7. ASSUME NEW k \in Stages, staged[k].commit = c
          PROVE  /\ worker.at \notin {"drain", "write"}
                 /\ worker.at \in {"persist", "publish"} => Operating
                 /\ Removed(0, c)'
                 /\ ~(worker.at = "run" /\ Operating /\ worker.operation.commit[1] = c[1])
      <4>1. ASSUME NEW i \in Queue, IsCommit(queue[i]) PROVE queue[i].commit[1] # s
        BY <3>2, <3>7, <4>1, WaitingKnown DEF IInv, Order, Known
      <4>2. 0 < last
        BY <2>3 DEF last, IInv, Typed
      <4>3. Removed(0, c)'
        BY <3>3, <4>1, <4>2
      <4>4. ~(Operating /\ worker.operation.commit[1] = s)
        BY <3>2, <3>7, WaitingKnown DEF IInv, Order, Known
      <4>5. worker.at \notin {"drain", "write"}
            /\ (worker.at \in {"persist", "publish"} => Operating)
        BY <2>11 DEF Draining, IInv, Shape, Operating, IsCommit
      <4> QED BY <1>1, <4>3, <4>4, <4>5 DEF c
    <3> QED BY <1>1, <3>4, <3>5, <3>6, <3>7 DEF Doom, Stages, Persisting, Operating
  <2>12. Doomed'
    BY <1>1, <1>3, <2>10, <2>11 DEF Doomed
  <2> QED BY <1>1, <2>5, <2>6, <2>7, <2>8, <2>9, <2>12 DEF IInv
<1> QED BY <1>0, <1>2, <1>3 DEF DiscardLastCommit

-----------------------------------------------------------------------------
(***************************************************************************)
(* The settings window empties the queue, and erases everything            *)
(***************************************************************************)
\* All that is left to do is to drop what is staged; the commits of F need not
\* be written any more.
LEMMA ClearedInv ==
  ASSUME IInv, queue' = <<Clear>>, up', NEW F, forgotten' = forgotten \union F,
         UNCHANGED <<staged, worker, stored, used, latest, age, up, stopping, withdrawn, erased>>,
         \/ settings'.at # "erase" /\ generation' = generation
         \/ ~recording' /\ generation' = generation + 1,
         \A c \in F :
           /\ Known(c) /\ ~(Persisting /\ worker.hand.commit = c)
           /\ (\E k \in Stages : staged[k].commit = c) =>
                /\ worker.at \notin {"drain", "write", "persist", "publish"}
                /\ ~(worker.at = "run" /\ Operating)
  PROVE  IInv'
<1>1. /\ Clear \in Operation /\ Clear.kind = "clear"
  BY DEF Clear, NoOperation, Operation
<1>2. /\ queue' \in Seq(Operation) /\ Queue' = {1} /\ queue'[1].kind = "clear"
      /\ \A i \in Queue' : ~IsCommit(queue'[i])
  BY <1>1 DEF Queue, IsCommit
<1> HIDE DEF Clear
<1>3. generation' \in Nat /\ generation <= generation'
      /\ (settings'.at = "erase" => generation < generation')
  BY DEF IInv, Typed
<1>4. Typed'
  BY <1>2, <1>3 DEF IInv, Typed, Known
<1>5. Shape' /\ Young'
  BY DEF IInv, Shape, Young, Persisting, Operating
<1>6. Off'
  BY DEF Off
<1>7. Order'
  BY <1>2 DEF IInv, Order, Stages, Persisting, Operating
<1>8. Fresh'
  <2>1. \A e \in Entries : Waits(e)' => Waits(e)
    BY <1>2 DEF Waits, Is, Stages, Persisting
  <2>2. ASSUME NEW e \in Entries, Waits(e)
        PROVE  /\ e.generation <= generation'
               /\ e.commit \in erased \/ settings'.at = "erase" => e.generation < generation'
    BY <2>2, <1>3 DEF IInv, Fresh, Typed, Entries
  <2> QED BY <2>1, <2>2 DEF IInv, Fresh
<1>9. Past'
  BY DEF IInv, Past, Known
<1>10. Doomed'
  BY <1>2 DEF Removed, Removes, IInv, Doomed, Doom, Stages, Persisting, Operating, Known
<1> QED BY <1>4, <1>5, <1>6, <1>7, <1>8, <1>9, <1>10 DEF IInv

LEMMA ClearQueueInv ==
  ASSUME IInv, ClearQueue PROVE IInv'
<1> DEFINE F == Queued \union InHand \union (IF Writing THEN {} ELSE Held)
<1>1. /\ queue' = <<Clear>> /\ forgotten' = forgotten \union F /\ settings' = Idle
      /\ UNCHANGED <<staged, worker, stored, used, latest, age, up, stopping, withdrawn, erased,
                      generation>>
      /\ settings'.at # "erase"
  BY DEF ClearQueue, thread, database, stored, CallUnchanged, Idle
<1>2. up
  BY DEF ClearQueue, IInv, Off, Idle
<1>3. ASSUME NEW c \in F
      PROVE  /\ Known(c) /\ ~(Persisting /\ worker.hand.commit = c)
             /\ (\E k \in Stages : staged[k].commit = c) =>
                  /\ worker.at \notin {"drain", "write", "persist", "publish"}
                  /\ ~(worker.at = "run" /\ Operating)
  <2> USE DEF Before, Known
  <2>1. CASE c \in Queued
    <3>1. PICK i \in Queue : IsCommit(queue[i]) /\ queue[i].commit = c
      BY <2>1 DEF Queued, Queue, IsCommit, IInv, Typed
    <3>2. Known(c)
      BY <3>1, WaitingKnown
    <3>3. ASSUME NEW d \in Commits, Before(d, c) PROVE d # c
      BY <3>2, <3>3, CommitParts
    <3> QED BY <3>1, <3>2, <3>3, WaitingKnown DEF IInv, Order
  <2>2. CASE c \in InHand
    BY <2>2, WaitingKnown, CommitParts DEF InHand, Operating, IsCommit, IInv, Order
  <2>3. CASE c \in Held /\ ~Writing
    <3>0. DOMAIN staged = Stages
      BY DEF Stages, IInv, Typed
    <3>1. PICK k \in Stages : staged[k].commit = c
      BY <2>3, <3>0, Zenon DEF Held
    <3>2. Known(c) /\ ~(Persisting /\ worker.hand.commit = c)
      BY <3>1, WaitingKnown DEF IInv, Order
    <3>3. /\ worker.at \notin {"drain", "write", "persist", "publish"}
          /\ ~(worker.at = "run" /\ Operating)
      BY <2>3 DEF Writing, Draining, IInv, Shape, Operating, IsCommit
    <3> QED BY <3>2, <3>3
  <2> QED BY <2>1, <2>2, <2>3
<1> HIDE DEF F
<1> QED BY <1>1, <1>2, <1>3, ClearedInv

LEMMA ResetInv ==
  ASSUME IInv, Reset PROVE IInv'
<1>0. PICK F : F = {}
  OBVIOUS
<1>1. /\ queue' = <<Clear>> /\ forgotten' = forgotten \union F
      /\ UNCHANGED <<staged, worker, stored, used, latest, age, up, stopping, withdrawn, erased>>
      /\ ~recording' /\ generation' = generation + 1 /\ up' /\ F = {}
  BY <1>0 DEF Reset, Call, thread, database, stored, CallUnchanged, ghosts
<1>2. ASSUME NEW c \in F PROVE FALSE
  BY <1>0, <1>2
<1> QED BY <1>1, <1>2, ClearedInv

LEMMA EraseInv ==
  ASSUME IInv, Erase PROVE IInv'
<1>1. /\ UNCHANGED <<queue, staged, worker, generation, up, used, latest, age, stopping, withdrawn,
                      forgotten>>
      /\ stored' = {} /\ settings'.at = "publish" /\ settings.at = "erase" /\ up
      /\ erased' = erased \union {c \in Commits : c[2] <= used[c[1]]}
  BY DEF Erase, thread, stored, CallUnchanged, IInv, Off, Idle
<1>2. Typed' /\ Shape' /\ Off' /\ Order' /\ Past'
  BY <1>1 DEF IInv, Typed, Shape, Off, Order, Past, Queue, Stages, Persisting, Operating
<1>3. Fresh'
  BY <1>1 DEF Waits, Queue, Stages, Persisting, IInv, Fresh
<1>4. Young'
  BY <1>1 DEF IInv, Young, Persisting, Operating
<1>5. Doomed'
  BY <1>1 DEF IInv, Doomed, Doom, Queue, Stages, Persisting, Operating, Removed
<1> QED BY <1>1, <1>2, <1>3, <1>4, <1>5 DEF IInv

-----------------------------------------------------------------------------
(***************************************************************************)
(* The worker thread                                                       *)
(***************************************************************************)
\* What a step of the worker leaves to the others.
Alone == UNCHANGED <<generation, up, used, latest, age, stopping, settings, recording, ghosts>>

LEMMA AloneHolds ==
  ASSUME UNCHANGED WorkerUnchanged PROVE Alone
  BY DEF WorkerUnchanged, Alone, clients

LEMMA EarlierDiffers ==
  ASSUME NEW c \in Commits, NEW d \in Commits, Before(c, d) PROVE c # d
  BY CommitParts DEF Before

\* The worker is done with what it had in hand, and stages nothing.
LEMMA RestsInv ==
  ASSUME IInv, Alone, up, UNCHANGED <<queue, stored>>,
         NEW at \in {"wait", "failed", "ended"}, worker' = Resting(at),
         staged' \in Seq(Entries),
         \A k \in Stages' : \E l \in Stages : staged'[k] = staged[l],
         \A k, l \in Stages' : k # l => staged'[k].commit # staged'[l].commit,
         \A c \in withdrawn \union forgotten : \A k \in Stages' :
           staged'[k].commit = c => Removed(0, c)
  PROVE  IInv'
<1> USE RestingState DEF Alone, ghosts
<1>1. Resting(at) \in Work
  BY DEF Resting, Work, NoOperation, NoCommit, Operation
<1>2. Typed'
  BY <1>1 DEF IInv, Typed, Queue
<1>3. /\ ~Persisting' /\ ~Operating' /\ worker'.operation.kind = "none"
      /\ Queue' = Queue
  BY DEF Persisting, Operating, IsCommit, Queue
<1>4. Shape' /\ Off'
  BY <1>3 DEF Shape, IInv, Off
<1>5. Order'
  BY <1>3 DEF IInv, Order
<1>6. Fresh'
  BY <1>3 DEF Waits, Is, IsCommit, IInv, Fresh
<1>7. Past' /\ Young'
  BY <1>3 DEF IInv, Past, Young
<1>8. Doomed'
  BY <1>3 DEF Removed, IInv, Doomed, Doom
<1> QED BY <1>2, <1>4, <1>5, <1>6, <1>7, <1>8 DEF IInv

LEMMA WorkerStartInv ==
  ASSUME IInv, WorkerStart PROVE IInv'
<1>1. /\ Alone /\ UNCHANGED <<queue, stored, staged>> /\ worker.at = "start" /\ up
  BY AloneHolds, RestingState DEF WorkerStart, database, stored, IInv, Off
<1>2. PICK at \in {"wait", "failed"} : worker' = Resting(at)
  BY DEF WorkerStart, Forward
<1>3. \A c \in withdrawn \union forgotten : \A k \in Stages :
        staged[k].commit = c => Removed(0, c)
  BY <1>1 DEF IInv, Doomed, Doom
<1> QED BY <1>1, <1>2, <1>3, RestsInv DEF IInv, Typed, Order, Stages

LEMMA RunClearInv ==
  ASSUME IInv, RunClear PROVE IInv'
BY AloneHolds, RestingState, RestsInv DEF RunClear, database, stored, IInv, Off, Stages,
   Forward

LEMMA RunDiscardInv ==
  ASSUME IInv, RunDiscard PROVE IInv'
<1> DEFINE op == worker.operation
           matches == {k \in 1..Len(staged) : TakesBack(op, staged[k])}
<1>1. /\ Alone /\ UNCHANGED <<queue, stored>> /\ worker.at = "run" /\ up
      /\ op.kind = "discard" /\ ~Operating
      /\ worker' = Resting("wait")
  BY AloneHolds, RestingState
  DEF RunDiscard, database, stored, IInv, Off, Forward, Operating, IsCommit
<1>2. staged' = IF matches = {} THEN staged ELSE RemoveAt(staged, Min(matches))
  <2>1. staged' = IF \E k \in 1..Len(staged) : TakesBack(op, staged[k])
                  THEN RemoveAt(staged, IF matches # {} THEN Min(matches) ELSE 0) ELSE staged
    BY Zenon DEF RunDiscard, RemoveFirstMatch, SelectInSeq
  <2> QED BY <2>1
<1>3. staged \in Seq(Entries) /\ Len(staged) \in Nat
  BY DEF IInv, Typed
<1>4. ASSUME NEW c \in withdrawn \union forgotten, NEW k \in Stages, staged[k].commit = c
      PROVE  Removed(0, c) \/ k \in matches
  BY <1>1, <1>4 DEF IInv, Doomed, Doom, Removes, TakesBack, Stages
<1>5. CASE matches = {}
  BY <1>2, <1>5, <1>4, <1>1, <1>3, RestsInv DEF Stages, IInv, Order
<1>6. CASE matches # {}
  <2>1. PICK m \in matches : m = Min(matches)
    <3>1. matches \in SUBSET Nat
      OBVIOUS
    <3> HIDE DEF matches
    <3> QED BY <1>6, <3>1, MinIn, Zenon
  <2>2. /\ m \in Stages /\ TakesBack(op, staged[m])
        /\ staged' \in Seq(Entries) /\ Len(staged') = Len(staged) - 1
        /\ \A k \in 1..Len(staged) - 1 :
             staged'[k] = IF k < m THEN staged[k] ELSE staged[k + 1]
    BY <1>2, <1>3, <1>6, <2>1, Removing DEF Stages
  <2> HIDE DEF matches, op
  <2>3. \A k \in Stages' : \E l \in Stages :
          l = (IF k < m THEN k ELSE k + 1) /\ staged'[k] = staged[l] /\ l # m
    BY <1>3, <2>2 DEF Stages
  <2>4. \A k, l \in Stages' : k # l => staged'[k].commit # staged'[l].commit
    BY <1>3, <2>2, <2>3 DEF IInv, Order, Stages
  <2>5. ASSUME NEW c \in withdrawn \union forgotten, NEW k \in Stages', staged'[k].commit = c
        PROVE  Removed(0, c)
    <3>1. PICK l \in Stages : staged'[k] = staged[l] /\ l # m
      BY <2>3
    <3>2. staged[l].commit # staged[m].commit
      BY <2>2, <3>1 DEF IInv, Order
    <3>3. l \notin matches
      BY <2>2, <3>2 DEF TakesBack, matches
    <3> QED BY <1>4, <2>5, <3>1, <3>3
  <2> QED BY <1>1, <2>2, <2>3, <2>4, <2>5, RestsInv
<1> QED BY <1>5, <1>6

\* Nothing to be forgotten is staged where nothing is queued that removes it.
LEMMA NothingDoomed ==
  ASSUME IInv, worker.at = "wait", queue = <<>>, NEW c \in withdrawn \union forgotten,
         NEW k \in Stages
  PROVE  staged[k].commit # c
BY DEF Removed, Queue, IInv, Doomed, Doom

\* The worker turns to what is due, with nothing in hand.
LEMMA TurnsInv ==
  ASSUME IInv, Alone, up, UNCHANGED <<queue, stored, staged>>, worker' \in Work,
         worker'.at \in {"drain", "write"}, worker'.operation = NoOperation,
         \A c \in withdrawn \union forgotten : \A k \in Stages : staged[k].commit # c,
         worker'.at = "write" => worker'.due <= Len(staged),
         worker'.last => stopping,
         worker'.at = "write" /\ ~worker'.last =>
           \A k \in 1..worker'.due : age[staged[k].commit] >= Window
  PROVE  IInv'
<1> USE RestingState DEF Alone, ghosts
<1>1. Typed'
  BY DEF IInv, Typed, Queue
<1>2. ~Persisting' /\ ~Operating' /\ Queue' = Queue /\ Stages' = Stages
  BY DEF Persisting, Operating, IsCommit, Queue, Stages
<1>3. Shape' /\ Off'
  BY <1>2 DEF Shape, IInv, Off
<1>4. Order'
  BY <1>2 DEF IInv, Order
<1>5. Fresh'
  BY <1>2 DEF Waits, Is, IsCommit, IInv, Fresh
<1>6. Past' /\ Young'
  BY <1>2 DEF IInv, Past, Young
<1>7. Doomed'
  BY <1>2 DEF Removed, IInv, Doomed, Doom
<1> QED BY <1>1, <1>3, <1>4, <1>5, <1>6, <1>7 DEF IInv

LEMMA FinishInv ==
  ASSUME IInv, Finish PROVE IInv'
<1>1. /\ Alone /\ UNCHANGED <<queue, stored, staged>> /\ worker.at = "wait" /\ up /\ queue = <<>>
      /\ stopping
  BY AloneHolds, RestingState DEF Finish, database, stored, IInv, Off
<1>2. Len(staged) \in Nat
  BY DEF IInv, Typed
<1>4. worker' = [at |-> "write", operation |-> NoOperation, hand |-> NoCommit, due |-> Len(staged),
                 last |-> TRUE]
  BY DEF Finish, Resting
<1>5. worker' \in Work
  BY <1>2, <1>4, RestingState DEF Work
<1>3. \A c \in withdrawn \union forgotten : \A k \in Stages : staged[k].commit # c
  BY <1>1, NothingDoomed
<1> QED BY <1>1, <1>2, <1>3, <1>4, <1>5, TurnsInv

LEMMA WakeInv ==
  ASSUME IInv, Wake PROVE IInv'
<1>1. /\ Alone /\ UNCHANGED <<queue, stored, staged>> /\ worker.at = "wait" /\ up /\ queue = <<>>
  BY AloneHolds, RestingState DEF Wake, database, stored, IInv, Off
<1>2. /\ worker'.at = "drain" /\ worker'.operation = NoOperation /\ ~worker'.last
      /\ worker' \in Work
  BY DEF Wake, Forward, Resting, Work, NoOperation, NoCommit, Operation
<1>3. \A c \in withdrawn \union forgotten : \A k \in Stages : staged[k].commit # c
  BY <1>1, NothingDoomed
<1> QED BY <1>1, <1>2, <1>3, TurnsInv

\* What is due is the beginning of what is staged.
LEMMA DuePrefix ==
  ASSUME NEW n \in Nat, NEW S \in SUBSET (1..n), \A k \in S : 1..k \subseteq S
  PROVE  Cardinality(S) \in 0..n /\ 1..Cardinality(S) \subseteq S
<1>1. /\ IsFiniteSet(1..n) /\ Cardinality(1..n) = n
  BY FS_Interval
<1>2. /\ IsFiniteSet(S) /\ Cardinality(S) \in Nat /\ Cardinality(S) <= n
  BY <1>1, FS_Subset, FS_CardinalityType
<1>3. ASSUME NEW k \in 1..Cardinality(S), k \notin S PROVE FALSE
  <2>1. \A l \in S : l < k
    <3> SUFFICES ASSUME NEW l \in S, ~(l < k) PROVE FALSE
      OBVIOUS
    <3>1. k \in 1..l
      BY <1>2
    <3> QED BY <1>3, <3>1
  <2>2. S \subseteq 1..(k - 1)
    BY <1>2, <2>1
  <2>3. PICK m \in Nat : m = k - 1 /\ m < Cardinality(S)
    BY <1>2
  <2>4. IsFiniteSet(1..m) /\ Cardinality(1..m) = m
    BY FS_Interval
  <2>5. Cardinality(S) <= m
    BY <2>2, <2>3, <2>4, FS_Subset
  <2> QED BY <1>2, <2>3, <2>5
<1> QED BY <1>2, <1>3

LEMMA ReadClockInv ==
  ASSUME IInv, ReadClock PROVE IInv'
<1>1. /\ Alone /\ UNCHANGED <<queue, stored, staged>> /\ worker.at = "drain" /\ up
  BY AloneHolds, RestingState DEF ReadClock, database, stored, IInv, Off
<1>2. PICK S : S = {n \in 1..Len(staged) : \A i \in 1..n : Due(i)}
  OBVIOUS
<1>3. Len(staged) \in Nat /\ S \in SUBSET (1..Len(staged)) /\ \A k \in S : 1..k \subseteq S
  BY <1>2 DEF IInv, Typed
<1>4. Cardinality(S) \in 0..Len(staged) /\ 1..Cardinality(S) \subseteq S
  BY <1>3, DuePrefix
<1>5. PICK d \in Nat : d = Cardinality(S) /\ d <= Len(staged) /\ 1..d \subseteq S
  BY <1>3, <1>4
<1>6. \A k \in 1..d : age[staged[k].commit] >= Window
  <2> SUFFICES ASSUME NEW k \in 1..d PROVE Due(k)
    BY DEF Due
  <2>1. k \in S /\ k \in 1..k
    BY <1>5
  <2> QED BY <1>2, <2>1
<1>8. worker' = [at |-> "write", operation |-> NoOperation, hand |-> NoCommit, due |-> d,
                 last |-> FALSE]
  BY <1>2, <1>5 DEF ReadClock, Resting
<1>9. worker' \in Work
  BY <1>8, RestingState DEF Work
<1>7. \A c \in withdrawn \union forgotten : \A k \in Stages : staged[k].commit # c
  BY <1>1 DEF IInv, Doomed, Doom
<1> QED BY <1>1, <1>3, <1>5, <1>6, <1>7, <1>8, <1>9, TurnsInv

\* The first operation of the queue goes to the worker.
LEMMA TakeOperationInv ==
  ASSUME IInv, TakeOperation PROVE IInv'
<1>0. PICK o \in Operation : /\ o = Head(queue) /\ o = queue[1] /\ o.kind # "none"
                             /\ IsCommit(o) => o.commit \in Commits
  <2>1. queue \in Seq(Operation) /\ queue # <<>>
    BY DEF TakeOperation, IInv, Typed
  <2>2. Head(queue) = queue[1] /\ 1 \in Queue /\ queue[1] \in Operation
    BY <2>1 DEF Queue
  <2> QED BY <2>2 DEF IInv, Typed
<1>1. /\ Alone /\ UNCHANGED <<stored, staged>> /\ worker.at = "wait" /\ up
      /\ ~Persisting /\ ~Operating
  BY AloneHolds, RestingState
  DEF TakeOperation, database, stored, IInv, Off, Shape, Persisting, Operating, IsCommit
<1>2. /\ worker' \in Work /\ worker'.at = "run" /\ worker'.operation = o
      /\ worker'.due = 0 /\ ~worker'.last
  BY <1>0 DEF TakeOperation, Resting, Work, NoCommit
<1>3. /\ queue' \in Seq(Operation) /\ Len(queue) \in Nat \ {0} /\ Queue' = 1..(Len(queue) - 1)
      /\ \A i \in Queue' : queue'[i] = queue[i + 1] /\ i + 1 \in Queue /\ i \in Nat
  BY DEF TakeOperation, IInv, Typed, Queue
<1>4. \A j \in Queue : j \in Nat /\ (j = 1 \/ (j - 1 \in Queue' /\ queue'[j - 1] = queue[j]))
  BY <1>3 DEF Queue
<1>5. ~Persisting' /\ (Operating' <=> IsCommit(o)) /\ Stages' = Stages /\ 1 \in Queue
  BY <1>1, <1>2, <1>3 DEF Persisting, Operating, Stages, Queue
<1>6. Typed'
  BY <1>0, <1>1, <1>2, <1>3 DEF IInv, Typed, Alone, ghosts
<1>7. Shape' /\ Off'
  BY <1>0, <1>1, <1>2, <1>5 DEF Shape, IInv, Off, Alone, IsCommit
<1>8. Order'
  <2>1. ASSUME NEW i \in Queue', NEW j \in Queue', i < j, IsCommit(queue'[i]), IsCommit(queue'[j])
        PROVE  Before(queue'[i].commit, queue'[j].commit)
    BY <1>3, <2>1 DEF IInv, Order
  <2>2. ASSUME NEW j \in Queue', IsCommit(queue'[j]), IsCommit(o)
        PROVE  Before(o.commit, queue'[j].commit)
    BY <1>3, <1>0, <1>5, <2>2 DEF IInv, Order
  <2>3. ASSUME NEW j \in Queue', IsCommit(queue'[j]), NEW k \in Stages
        PROVE  Before(staged[k].commit, queue'[j].commit)
    BY <1>3, <2>3 DEF IInv, Order
  <2>4. ASSUME IsCommit(o), NEW k \in Stages
        PROVE  Before(staged[k].commit, o.commit)
    BY <1>0, <1>5, <2>4 DEF IInv, Order
  <2> QED BY <1>1, <1>2, <1>5, <2>1, <2>2, <2>3, <2>4 DEF IInv, Order
<1>9. Fresh'
  BY <1>3, <1>0, <1>5, <1>1, <1>2 DEF Waits, IInv, Fresh, Alone, ghosts
<1>10. Past' /\ Young'
  BY <1>1, <1>2, <1>5 DEF IInv, Past, Young, Alone, ghosts
<1>11. ASSUME NEW c \in withdrawn \union forgotten PROVE Doom(c)'
  <2>1. Doom(c)
    BY DEF IInv, Doomed
  <2>2. ASSUME NEW i \in Nat, NEW j \in Queue, i < j - 1, Removes(queue[j], c),
               \A k \in Queue : i + 1 < k /\ k < j /\ IsCommit(queue[k]) =>
                 queue[k].commit[1] # c[1]
        PROVE  Removed(i, c)'
    <3>1. j - 1 \in Queue' /\ queue'[j - 1] = queue[j]
      BY <1>4, <2>2
    <3>2. ASSUME NEW k \in Queue', i < k, k < j - 1, IsCommit(queue'[k])
          PROVE  queue'[k].commit[1] # c[1]
      BY <1>3, <1>4, <3>2, <2>2
    <3> QED BY <2>2, <3>1, <3>2 DEF Removed
  <2>3. ASSUME NEW i \in Nat, Removed(i + 1, c) PROVE Removed(i, c)'
    <3>1. PICK j \in Queue : /\ i + 1 < j /\ Removes(queue[j], c)
                             /\ \A k \in Queue : i + 1 < k /\ k < j /\ IsCommit(queue[k]) =>
                                  queue[k].commit[1] # c[1]
      BY <2>3 DEF Removed
    <3>2. i < j - 1
      BY <1>4, <3>1
    <3> QED BY <2>2, <3>1, <3>2
  <2>4. ASSUME NEW i \in Queue', IsCommit(queue'[i]), queue'[i].commit = c PROVE Removed(i, c)'
    BY <1>3, <2>1, <2>3, <2>4 DEF Doom
  <2>5. ASSUME IsCommit(o), o.commit = c PROVE Removed(0, c)'
    BY <1>0, <1>5, <2>1, <2>5, <2>3 DEF Doom
  <2>6. ASSUME NEW k \in Stages, staged[k].commit = c
        PROVE  \/ Removes(o, c)
               \/ Removed(0, c)' /\ ~(IsCommit(o) /\ o.commit[1] = c[1])
    <3>1. Removed(0, c)
      BY <1>1, <2>1, <2>6 DEF Doom
    <3>2. PICK j \in Queue : /\ 0 < j /\ Removes(queue[j], c)
                             /\ \A l \in Queue : 0 < l /\ l < j /\ IsCommit(queue[l]) =>
                                  queue[l].commit[1] # c[1]
      BY <3>1 DEF Removed
    <3>3. CASE j = 1
      BY <1>0, <3>2, <3>3
    <3>4. CASE j # 1
      BY <1>4, <3>2, <3>4, <2>2, <1>0, <1>5
    <3> QED BY <3>3, <3>4
  <2> QED BY <1>1, <1>2, <1>5, <2>1, <2>4, <2>5, <2>6 DEF Doom
<1>12. Doomed'
  BY <1>1, <1>11 DEF Doomed, Alone, ghosts
<1> QED BY <1>1, <1>6, <1>7, <1>8, <1>9, <1>10, <1>12 DEF IInv, Alone, ghosts

\* The next commit that is due goes to the worker's hand.
LEMMA WriteInv ==
  ASSUME IInv, Write PROVE IInv'
<1>1. /\ Alone /\ UNCHANGED <<queue, stored>> /\ worker.at = "write" /\ up
      /\ ~Operating /\ ~Persisting /\ worker.operation = NoOperation
      /\ worker.due \in Nat /\ worker.due <= Len(staged)
      /\ staged \in Seq(Entries) /\ Len(staged) \in Nat
  BY AloneHolds, RestingState
  DEF Write, database, stored, IInv, Off, Shape, Operating, Persisting, IsCommit, Typed, Work
<1>2. \A c \in withdrawn \union forgotten : \A k \in Stages : staged[k].commit # c
  BY <1>1 DEF IInv, Doomed, Doom
<1>3. CASE worker.due = 0
  <2>1. PICK at \in {"wait", "ended"} : worker' = Resting(at)
    BY <1>3 DEF Write, Forward
  <2>2. UNCHANGED staged
    BY <1>3 DEF Write
  <2> QED BY <1>1, <1>2, <2>1, <2>2, RestsInv DEF IInv, Order, Stages
<1>4. CASE worker.due # 0
  <2>1. PICK e \in Entries : e = staged[1] /\ e = Head(staged) /\ 1 \in Stages
    BY <1>1, <1>4 DEF Stages
  <2>2. PICK d \in Nat : d = worker.due - 1 /\ d + 1 <= Len(staged)
    BY <1>1, <1>4
  <2>3. /\ worker' = [worker EXCEPT !.at = "persist", !.hand = e, !.due = d]
        /\ staged' = Tail(staged)
    BY <1>4, <2>1, <2>2 DEF Write
  <2>4. /\ worker' \in Work /\ worker'.at = "persist" /\ worker'.hand = e /\ worker'.due = d
        /\ worker'.operation = worker.operation /\ worker'.last = worker.last
    BY <2>3 DEF IInv, Typed, Work
  <2>5. /\ staged' \in Seq(Entries) /\ Stages' = 1..(Len(staged) - 1)
        /\ Len(staged') = Len(staged) - 1
        /\ \A k \in Stages' : staged'[k] = staged[k + 1] /\ k + 1 \in Stages /\ k + 1 # 1
    BY <1>1, <1>4, <2>3 DEF Stages
  <2>6. Persisting' /\ ~Operating' /\ Queue' = Queue
    BY <1>1, <2>4 DEF Persisting, Operating, Queue
  <2>7. Typed'
    BY <1>1, <2>4, <2>5, <2>6 DEF IInv, Typed, Alone, ghosts
  <2>8. Shape' /\ Off'
    BY <1>1, <2>1, <2>2, <2>4, <2>5, <2>6, RestingState
    DEF Shape, IInv, Off, Alone, IsCommit, Operating
  <2>9. Order'
    <3>1. \A k, l \in Stages' : k # l => staged'[k].commit # staged'[l].commit
      <4> SUFFICES ASSUME NEW k \in Stages', NEW l \in Stages', k # l
                   PROVE  staged'[k].commit # staged'[l].commit
        OBVIOUS
      <4>1. k \in Int /\ l \in Int
        BY <2>5
      <4>2. k + 1 # l + 1
        BY <4>1
      <4>3. k + 1 \in Stages /\ l + 1 \in Stages
        BY <2>5
      <4> QED BY <2>5, <4>2, <4>3 DEF IInv, Order
    <3>2. \A k \in Stages' : staged'[k].commit # e.commit
      BY <2>1, <2>5 DEF IInv, Order
    <3>3. \A j \in Queue : IsCommit(queue[j]) =>
            /\ \A k \in Stages' : Before(staged'[k].commit, queue[j].commit)
            /\ Before(e.commit, queue[j].commit)
      BY <2>1, <2>5 DEF IInv, Order
    <3> QED BY <1>1, <2>4, <2>6, <3>1, <3>2, <3>3 DEF IInv, Order
  <2>10. Fresh'
    <3>1. ASSUME NEW f \in Entries, Waits(f)' PROVE Waits(f)
      BY <1>1, <2>1, <2>4, <2>5, <2>6, <3>1 DEF Waits, Is, Operating
    <3> QED BY <1>1, <3>1 DEF IInv, Fresh, Alone, ghosts
  <2>11. Past'
    BY <1>1 DEF IInv, Past, Alone, ghosts
  <2>12. ~worker.last => \A k \in 1..worker.due : age[staged[k].commit] >= Window
    BY <1>1 DEF IInv, Young
  <2>13. Young'
    <3>1. ~worker.last => age[e.commit] >= Window
      BY <1>1, <1>4, <2>1, <2>12
    <3>2. ASSUME ~worker.last, NEW k \in 1..d PROVE age[staged'[k].commit] >= Window
      <4>1. k \in Stages' /\ k + 1 \in 1..worker.due
        BY <1>1, <2>2, <2>5
      <4>2. staged'[k] = staged[k + 1]
        BY <2>5, <4>1
      <4> QED BY <2>12, <3>2, <4>1, <4>2
    <3>3. ASSUME NEW c \in Commits, up, ~stopping, age[c] < Window PROVE c # e.commit
      BY <3>3, WindowAssumption, <3>1 DEF IInv, Shape, Typed
    <3> QED BY <1>1, <2>4, <2>6, <3>1, <3>2, <3>3 DEF IInv, Young, Alone
  <2>14. Doomed'
    <3>1. \A i, c : Removed(i, c)' <=> Removed(i, c)
      BY <1>1, <2>6 DEF Removed
    <3>2. ASSUME NEW c \in withdrawn \union forgotten PROVE Doom(c)'
      BY <1>2, <2>1, <2>5, <1>1, <2>4, <2>6, <3>1 DEF IInv, Doomed, Doom
    <3> QED BY <1>1, <3>2 DEF Doomed, Alone, ghosts
  <2> QED BY <1>1, <2>7, <2>8, <2>9, <2>10, <2>11, <2>13, <2>14 DEF IInv, Alone, ghosts
<1> QED BY <1>3, <1>4

\* The commit before it in its session is written first.
LEMMA RunCommitInv ==
  ASSUME IInv, RunCommit PROVE IInv'
<1>1. /\ Alone /\ UNCHANGED <<queue, stored>> /\ worker.at = "run" /\ up
      /\ Operating /\ ~Persisting /\ worker.due = 0 /\ ~worker.last
      /\ staged \in Seq(Entries) /\ Len(staged) \in Nat /\ worker \in Work
      /\ worker.operation.kind = "commit"
  BY AloneHolds, RestingState
  DEF RunCommit, database, stored, IInv, Off, Shape, Operating, Persisting, IsCommit, Typed
<1> DEFINE op == worker.operation
           matches == {k \in 1..Len(staged) : staged[k].commit[1] = op.commit[1]}
<1>2. Earlier = IF matches # {} THEN Min(matches) ELSE 0
  BY Zenon DEF Earlier, SelectInSeq
<1>3. ASSUME NEW c \in withdrawn \union forgotten, NEW k \in Stages, staged[k].commit = c
      PROVE  Removed(0, c) /\ op.commit[1] # c[1]
  BY <1>1, <1>3 DEF IInv, Doomed, Doom, Removes
<1>4. Operating' /\ worker'.operation = worker.operation /\ worker' \in Work
      /\ worker'.due = 0 /\ ~worker'.last /\ worker'.at \in {"stage", "persist"}
      /\ Queue' = Queue
  <2>1. worker' \in Work /\ worker'.operation = worker.operation /\ worker'.due = worker.due
        /\ worker'.last = worker.last /\ worker'.at \in {"stage", "persist"}
    <3>1. CASE Earlier = 0
      BY <1>1, <3>1 DEF RunCommit, Work
    <3>2. CASE Earlier # 0
      <4>1. matches \in SUBSET Nat /\ matches # {}
        BY <1>2, <3>2
      <4>2. Earlier \in matches
        <5> HIDE DEF matches
        <5> QED BY <1>2, <4>1, MinIn, Zenon
      <4>3. staged[Earlier] \in Entries
        BY <1>1, <4>2
      <4> QED BY <1>1, <3>2, <4>3 DEF RunCommit, Work
    <3> QED BY <3>1, <3>2
  <2> QED BY <1>1, <2>1 DEF Operating, Queue
<1>5. Past'
  BY <1>1 DEF IInv, Past, Alone, ghosts
<1>6. \A i, c : Removed(i, c)' <=> Removed(i, c)
  BY <1>1, <1>4 DEF Removed
<1>7. CASE matches = {}
  <2>1. /\ UNCHANGED staged /\ worker'.at = "stage" /\ ~Persisting' /\ Stages' = Stages
    BY <1>1, <1>2, <1>7 DEF RunCommit, Work, Persisting, Stages
  <2>2. Typed' /\ Shape' /\ Off'
    BY <1>1, <1>4, <2>1, RestingState DEF IInv, Typed, Shape, Off, Alone, ghosts
  <2>3. Order'
    BY <1>1, <1>4, <2>1 DEF IInv, Order
  <2>4. Fresh'
    BY <1>1, <1>4, <2>1 DEF Waits, IInv, Fresh, Alone, ghosts
  <2>5. Young'
    BY <1>1, <1>4, <2>1 DEF IInv, Young, Alone
  <2>6. Doomed'
    BY <1>1, <1>3, <1>4, <1>6, <2>1 DEF IInv, Doomed, Doom, Alone, ghosts
  <2> QED BY <1>1, <1>5, <2>2, <2>3, <2>4, <2>5, <2>6 DEF IInv, Alone, ghosts
<1>8. CASE matches # {}
  <2>1. PICK m \in matches : m = Earlier
    <3>1. matches \in SUBSET Nat
      OBVIOUS
    <3> HIDE DEF matches
    <3> QED BY <1>2, <1>8, <3>1, MinIn, Zenon
  <2>2. PICK e \in Entries : e = staged[m]
    BY <1>1
  <2>3. /\ m \in Stages /\ m # 0 /\ e.commit[1] = op.commit[1]
        /\ worker' = [worker EXCEPT !.at = "persist", !.hand = e]
        /\ staged' = RemoveAt(staged, m)
    BY <1>1, <2>1, <2>2 DEF RunCommit, Stages
  <2>4. /\ staged' \in Seq(Entries) /\ Len(staged') = Len(staged) - 1
        /\ \A k \in 1..Len(staged) - 1 :
             staged'[k] = IF k < m THEN staged[k] ELSE staged[k + 1]
    BY <1>1, <2>3, Removing DEF Stages
  <2> HIDE DEF matches
  <2>5. \A k \in Stages' : \E l \in Stages :
          l = (IF k < m THEN k ELSE k + 1) /\ staged'[k] = staged[l] /\ l # m
    BY <1>1, <2>3, <2>4 DEF Stages
  <2>6. /\ worker'.at = "persist" /\ worker'.hand = e /\ Persisting'
    BY <1>1, <2>3 DEF Work, Persisting
  <2>7. Typed'
    BY <1>1, <1>4, <2>4 DEF IInv, Typed, Alone, ghosts
  <2>8. Shape' /\ Off'
    BY <1>1, <1>4, <2>4, <2>6 DEF IInv, Shape, Off, Alone
  <2>9. Order'
    <3>1. \A k, l \in Stages' : k # l => staged'[k].commit # staged'[l].commit
      BY <1>1, <2>3, <2>4, <2>5 DEF IInv, Order, Stages
    <3>2. \A k \in Stages' : staged'[k].commit # e.commit
      BY <2>2, <2>3, <2>5 DEF IInv, Order
    <3>3. \A j \in Queue : IsCommit(queue[j]) =>
            /\ \A k \in Stages' : Before(staged'[k].commit, queue[j].commit)
            /\ Before(e.commit, queue[j].commit)
      BY <2>2, <2>3, <2>5 DEF IInv, Order
    <3>4. /\ \A k \in Stages' : Before(staged'[k].commit, op.commit)
          /\ Before(e.commit, op.commit)
      BY <1>1, <2>2, <2>3, <2>5 DEF IInv, Order
    <3> QED BY <1>1, <1>4, <2>6, <3>1, <3>2, <3>3, <3>4 DEF IInv, Order
  <2>10. Fresh'
    BY <1>1, <1>4, <2>2, <2>3, <2>5, <2>6 DEF Waits, IInv, Fresh, Alone, ghosts
  <2>11. Young'
    <3>1. ASSUME NEW c \in Commits, latest[c[1]] = c[2] PROVE c # e.commit
      BY <1>1, <2>2, <2>3, WaitingKnown, <3>1, CommitParts DEF IInv, Order, Young, Before,
         Known
    <3> QED BY <1>1, <1>4, <2>6, <3>1 DEF IInv, Young, Alone
  <2>12. Doomed'
    <3>1. ASSUME NEW c \in withdrawn \union forgotten PROVE Doom(c)'
      BY <1>3, <2>2, <2>3, <2>5, <1>1, <1>4, <1>6, <2>6 DEF IInv, Doomed, Doom
    <3> QED BY <1>1, <3>1 DEF Doomed, Alone, ghosts
  <2> QED BY <1>1, <1>5, <2>7, <2>8, <2>9, <2>10, <2>11, <2>12 DEF IInv, Alone, ghosts
<1> QED BY <1>7, <1>8

\* A commit joins those that are staged, or is dropped.
LEMMA StageInv ==
  ASSUME IInv, Stage PROVE IInv'
<1>1. /\ Alone /\ UNCHANGED <<queue, stored>> /\ worker.at = "stage" /\ up
      /\ Operating /\ ~Persisting /\ worker.operation \in Operation
      /\ worker.operation.commit \in Commits
      /\ worker' = Resting("wait") /\ Queue' = Queue
      /\ staged \in Seq(Entries) /\ Len(staged) \in Nat
  BY AloneHolds, RestingState
  DEF Stage, database, stored, IInv, Off, Shape, Operating, Persisting, IsCommit, Typed, Work,
      Forward, Queue
<1>2. \A c \in withdrawn \union forgotten : \A k \in Stages :
        staged[k].commit = c => Removed(0, c)
  BY <1>1 DEF IInv, Doomed, Doom
<1>3. CASE staged' = staged
  BY <1>1, <1>2, <1>3, RestsInv DEF IInv, Order, Stages
<1> DEFINE op == worker.operation
<1>4. PICK e \in Entries : e = [commit |-> op.commit, generation |-> op.generation]
  BY <1>1 DEF Entries, Operation
<1>5. CASE staged' = Append(staged, e)
  <2>1. PICK n \in Nat : n = Len(staged) + 1
    BY <1>1
  <2>2. /\ staged' \in Seq(Entries) /\ Stages' = Stages \union {n} /\ n \notin Stages
        /\ staged'[n] = e /\ \A k \in Stages : staged'[k] = staged[k]
    BY <1>1, <1>5, <2>1 DEF Stages
  <2>3. worker' \in Work /\ worker'.operation = NoOperation /\ worker'.at = "wait" /\ ~worker'.last
        /\ NoOperation.kind = "none"
    BY <1>1, RestingState DEF Resting, Work, NoCommit
  <2>4. ~Persisting' /\ ~Operating'
    BY <2>3 DEF Persisting, Operating, IsCommit
  <2>5. Typed'
    BY <1>1, <2>2, <2>3 DEF IInv, Typed, Alone, ghosts
  <2>6. Shape' /\ Off'
    BY <1>1, <2>3, <2>4 DEF IInv, Shape, Off, Alone
  <2>7. Order'
    <3>1. ASSUME NEW k \in Stages PROVE staged[k].commit # e.commit
      <4>1. /\ Before(staged[k].commit, e.commit)
            /\ e.commit \in Commits /\ staged[k].commit \in Commits
        <5>1. staged[k] \in Entries /\ e.commit = op.commit
          BY <1>1, <1>4 DEF Stages
        <5> QED BY <1>1, <5>1 DEF IInv, Order, Entries
      <4> QED BY <4>1, EarlierDiffers
    <3>2. \A k, l \in Stages' : k # l => staged'[k].commit # staged'[l].commit
      BY <2>2, <3>1 DEF IInv, Order
    <3>3. \A j \in Queue : IsCommit(queue[j]) =>
            \A k \in Stages' : Before(staged'[k].commit, queue[j].commit)
      BY <1>1, <1>4, <2>2 DEF IInv, Order
    <3> QED BY <1>1, <2>4, <3>2, <3>3 DEF IInv, Order
  <2>8. Fresh'
    <3>1. ASSUME NEW f \in Entries, Waits(f)' PROVE Waits(f)
      BY <1>1, <1>4, <2>2, <2>3, <2>4, <3>1 DEF Waits, Is, Operating, IsCommit
    <3> QED BY <1>1, <3>1 DEF IInv, Fresh, Alone, ghosts
  <2>9. Past' /\ Young'
    BY <1>1, <2>3, <2>4 DEF IInv, Past, Young, Alone, ghosts
  <2>10. Doomed'
    <3>1. \A i, c : Removed(i, c)' <=> Removed(i, c)
      BY <1>1 DEF Removed
    <3>2. ASSUME NEW c \in withdrawn \union forgotten PROVE Doom(c)'
      BY <1>1, <1>4, <1>2, <2>2, <2>3, <2>4, <3>1 DEF IInv, Doomed, Doom
    <3> QED BY <1>1, <3>2 DEF Doomed, Alone, ghosts
  <2> QED BY <1>1, <2>5, <2>6, <2>7, <2>8, <2>9, <2>10 DEF IInv, Alone, ghosts
<1> QED BY <1>3, <1>4, <1>5 DEF Stage

\* The worker has written what it had in hand, or need not write it.
LEMMA ResumedInv ==
  ASSUME IInv, Alone, UNCHANGED <<queue, stored, staged>>, worker.at \in {"persist", "publish"},
         worker' = Resumed
  PROVE  IInv'
<1>1. /\ worker \in Work /\ up /\ worker.operation.kind \in {"none", "commit"}
      /\ (worker.operation = NoOperation <=> ~Operating)
  BY RestingState DEF IInv, Typed, Off, Shape, Operating, IsCommit
<1>2. /\ worker' \in Work /\ worker'.operation = worker.operation /\ worker'.due = worker.due
      /\ worker'.last = worker.last
      /\ worker'.at = IF Operating THEN "stage" ELSE "write"
  BY <1>1 DEF Resumed, Work
<1>3. ~Persisting' /\ (Operating' <=> Operating) /\ Queue' = Queue /\ Stages' = Stages
  BY <1>2 DEF Persisting, Operating, Queue, Stages
<1>4. Typed' /\ Shape' /\ Off'
  BY <1>1, <1>2, <1>3 DEF IInv, Typed, Shape, Off, Alone, ghosts, Operating, IsCommit
<1>5. Order'
  BY <1>2, <1>3 DEF IInv, Order
<1>6. Fresh'
  BY <1>2, <1>3 DEF Waits, IInv, Fresh, Alone, ghosts
<1>7. Past' /\ Young'
  BY <1>2, <1>3 DEF IInv, Past, Young, Alone, ghosts
<1>8. Doomed'
  BY <1>3, <1>2 DEF Removed, IInv, Doomed, Doom, Alone, ghosts
<1> QED BY <1>4, <1>5, <1>6, <1>7, <1>8 DEF IInv, Alone, ghosts

LEMMA PersistInv ==
  ASSUME IInv, Persist PROVE IInv'
<1>1. /\ Alone /\ UNCHANGED <<queue, staged>> /\ worker.at = "persist" /\ up /\ Persisting
      /\ worker \in Work /\ worker.hand \in Entries
  BY AloneHolds, RestingState DEF Persist, IInv, Off, Shape, Persisting, Typed
<1>2. CASE worker' = Resumed /\ UNCHANGED table
  BY <1>1, <1>2, ResumedInv DEF stored
<1> DEFINE c == worker.hand.commit
<1>3. CASE /\ stored' = stored \union {c} /\ worker' = [worker EXCEPT !.at = "publish"]
           /\ Writable(worker.hand)
  <2>1. /\ worker' \in Work /\ worker'.operation = worker.operation /\ worker'.due = worker.due
        /\ worker'.last = worker.last /\ worker'.at = "publish"
    BY <1>1, <1>3 DEF Work
  <2>2. ~Persisting' /\ (Operating' <=> Operating) /\ Queue' = Queue /\ Stages' = Stages
    BY <1>1, <2>1 DEF Persisting, Operating, Queue, Stages
  <2>3. c \in Commits /\ c[2] <= used[c[1]] /\ c \notin erased /\ settings.at # "erase"
    BY <1>1, <1>3 DEF Waits, Writable, IInv, Typed, Fresh, Entries
  <2>4. Typed' /\ Shape' /\ Off'
    BY <1>1, <1>3, <2>1, <2>2, <2>3 DEF IInv, Typed, Shape, Off, Alone, ghosts
  <2>5. Order'
    BY <1>1, <2>1, <2>2 DEF IInv, Order
  <2>6. ASSUME NEW e \in Entries, Waits(e)' PROVE Waits(e) /\ e.commit # c
    <3>1. CASE \E i \in Queue : Is(queue[i], e)
      <4>1. PICK i \in Queue : IsCommit(queue[i]) /\ queue[i].commit = e.commit
        BY <3>1 DEF Is
      <4>2. Before(c, e.commit) /\ e.commit \in Commits
        BY <1>1, <4>1 DEF IInv, Order, Entries
      <4> QED BY <2>3, <3>1, <4>2, EarlierDiffers DEF Waits
    <3>2. CASE Is(worker.operation, e)
      BY <1>1, <3>2, <2>3, EarlierDiffers DEF IInv, Order, Entries, Is, Operating, Waits
    <3>3. CASE \E k \in Stages : staged[k] = e
      BY <1>1, <3>3 DEF IInv, Order, Waits
    <3> QED BY <1>1, <2>1, <2>2, <2>6, <3>1, <3>2, <3>3 DEF Waits
  <2>7. Fresh'
    BY <1>1, <1>3, <2>6 DEF IInv, Fresh, Alone, ghosts
  <2>8. Past'
    BY <1>1, <1>3, <2>3 DEF IInv, Past, Alone, ghosts
  <2>9. Young'
    BY <1>1, <1>3, <2>1, <2>2 DEF IInv, Young, Alone
  <2>10. Doomed'
    BY <1>1, <2>2, <1>3, <2>1 DEF Removed, IInv, Doomed, Doom, Alone, ghosts
  <2>11. (erased \intersect stored = {})'
    BY <1>1, <1>3, <2>3 DEF IInv, Alone, ghosts
  <2> QED BY <2>4, <2>5, <2>7, <2>8, <2>9, <2>10, <2>11 DEF IInv
<1> QED BY <1>2, <1>3 DEF Persist, stored

LEMMA PublishWrittenInv ==
  ASSUME IInv, PublishWritten PROVE IInv'
BY AloneHolds, ResumedInv DEF PublishWritten, database, stored

-----------------------------------------------------------------------------
(***************************************************************************)
(* Every step                                                              *)
(***************************************************************************)
LEMMA NextInv ==
  ASSUME IInv, [Next]_vars PROVE IInv'
<1>1. CASE UNCHANGED vars
  <2>1. Quiet
    BY <1>1 DEF vars, Quiet, database, memory, thread, clients, stored, IInv, Typed, Off
  <2> QED BY <2>1, QuietInv
<1>2. CASE Start
  BY <1>2, StartInv
<1>3. CASE Kill \/ Joined
  BY <1>3, GoneInv DEF Kill, Joined
<1>4. CASE Stop \/ Tick \/ TrainingStep \/ CountStep
  BY <1>4, OthersInv
<1>5. CASE ClientStep
  BY <1>5, RecordInv, DiscardInv DEF ClientStep
<1>6. CASE WorkerStep
  BY <1>6, WorkerStartInv, TakeOperationInv, FinishInv, WakeInv, ReadClockInv, WriteInv,
     RunClearInv, RunDiscardInv, RunCommitInv, StageInv, PersistInv, PublishWrittenInv
  DEF WorkerStep
<1>7. CASE SettingsCall
  BY <1>7, ResetInv, OthersInv DEF SettingsCall
<1>8. CASE SettingsStep
  BY <1>8, ClearQueueInv, EraseInv, OthersInv DEF SettingsStep
<1> QED BY <1>1, <1>2, <1>3, <1>4, <1>5, <1>6, <1>7, <1>8 DEF Next, Watched, Steps

\* Whatever is recorded, staged, trained or counted meanwhile, and wherever the
\* process ends: a commit taken back in time, accepted before everything was
\* erased, or waiting when the recording was switched off is never stored.
THEOREM AlwaysForgotten == Spec => []ForgottenStaysOut
<1>1. IInv /\ [Next]_vars => IInv'
  BY NextInv
<1> QED BY InitInv, InvHolds, <1>1, PTL DEF Spec

-----------------------------------------------------------------------------
(***************************************************************************)
(* What stands above a run                                                 *)
(***************************************************************************)
\* A history of n runs, each on top of an earlier one or of the base model.
History(h, n) ==
  /\ n \in Nat /\ DOMAIN h = 1..n
  /\ \A l \in 1..n : h[l].parent \in 0..(l - 1)

LEMMA LineIsLeast ==
  ASSUME NEW h, NEW n, History(h, n), NEW r \in 0..n
  PROVE  /\ LineIn(h, r) \subseteq 1..n
         /\ Closed(LineIn(h, r), h)
         /\ r \in LineIn(h, r) \union {0}
         /\ \A S \in SUBSET (1..n) : Closed(S, h) /\ r \in S \union {0} => LineIn(h, r) \subseteq S
<1> USE DEF History
<1>1. ASSUME NEW l \in LineIn(h, r) PROVE h[l].parent \in LineIn(h, r) \union {0}
  <2>1. l \in 1..n /\ h[l].parent \in 0..(l - 1)
    BY DEF LineIn
  <2> DEFINE p == h[l].parent
  <2>2. p = 0 \/ p \in 1..n
    BY <2>1
  <2>3. ASSUME NEW S \in SUBSET (1..n), Closed(S, h), r \in S \union {0}, p # 0 PROVE p \in S
    BY <2>3 DEF LineIn, Closed
  <2> HIDE DEF p
  <2> QED BY <2>2, <2>3 DEF LineIn, p
<1>2. LineIn(h, r) \subseteq 1..n
  BY DEF LineIn
<1>3. r \in LineIn(h, r) \union {0}
  BY DEF LineIn
<1>4. \A S \in SUBSET (1..n) : Closed(S, h) /\ r \in S \union {0} => LineIn(h, r) \subseteq S
  BY DEF LineIn
<1> QED BY <1>1, <1>2, <1>3, <1>4 DEF Closed

\* A longer history with the same parents has no longer lines.
LEMMA LineKept ==
  ASSUME NEW h, NEW n, History(h, n), NEW k, NEW m, History(k, m), n <= m,
         \A l \in 1..n : k[l].parent = h[l].parent, NEW r \in 0..n
  PROVE  LineIn(k, r) \subseteq LineIn(h, r)
<1>1. LineIn(h, r) \subseteq 1..n /\ Closed(LineIn(h, r), h) /\ r \in LineIn(h, r) \union {0}
  BY LineIsLeast
<1>2. PICK L : L = LineIn(h, r)
  OBVIOUS
<1>3. L \in SUBSET (1..m) /\ r \in 0..m /\ L \subseteq 1..n
  BY <1>1, <1>2 DEF History
<1>4. Closed(L, k)
  BY <1>1, <1>2, <1>3 DEF Closed
<1>5. r \in L \union {0}
  BY <1>1, <1>2
<1>6. LineIn(k, r) \subseteq L
  BY <1>3, <1>4, <1>5, LineIsLeast
<1> QED BY <1>2, <1>6

\* Commits may go from the runs.
LEMMA OnceKept ==
  ASSUME NEW h, NEW n, History(h, n), OnceIn(h), NEW k, DOMAIN k = 1..n,
         \A l \in 1..n : k[l].parent = h[l].parent /\ k[l].commits \subseteq h[l].commits
  PROVE  History(k, n) /\ OnceIn(k)
<1>1. History(k, n)
  BY DEF History
<1>2. ASSUME NEW r \in 1..n, NEW a \in LineIn(k, r), NEW b \in LineIn(k, r), a # b
      PROVE  k[a].commits \intersect k[b].commits = {}
  <2>1. r \in 0..n /\ n <= n /\ n \in Nat
    BY DEF History
  <2>2. a \in LineIn(h, r) /\ b \in LineIn(h, r)
    BY <1>1, <2>1, LineKept
  <2>3. a \in 1..n /\ b \in 1..n
    BY <2>1, <2>2, LineIsLeast
  <2>4. h[a].commits \intersect h[b].commits = {}
    BY <1>2, <2>2 DEF OnceIn, History
  <2> QED BY <2>3, <2>4
<1> QED BY <1>1, <1>2 DEF OnceIn

\* One more run, on commits that none of its line has.
LEMMA OnceLonger ==
  ASSUME NEW h, NEW n, History(h, n), OnceIn(h), NEW k, NEW m, m = n + 1, DOMAIN k = 1..m,
         \A l \in 1..n : k[l] = h[l], k[m].parent \in 0..n,
         \A l \in LineIn(h, k[m].parent) : h[l].commits \intersect k[m].commits = {}
  PROVE  History(k, m) /\ OnceIn(k)
<1>0. n \in Nat /\ m \in Nat /\ n <= m /\ m \in 1..m /\ m \notin 1..n /\ 1..m = 1..n \union {m}
      /\ n = m - 1
  BY DEF History
<1>1. History(k, m)
  BY <1>0 DEF History
<1> DEFINE p == k[m].parent  L == LineIn(h, p) \union {m}
<1>2. /\ LineIn(h, p) \subseteq 1..n /\ Closed(LineIn(h, p), h) /\ p \in LineIn(h, p) \union {0}
  BY LineIsLeast
<1> HIDE DEF p
<1>3. LineIn(k, m) \subseteq L
  <2>1. Closed(L, k) /\ L \in SUBSET (1..m)
    BY <1>0, <1>2 DEF Closed, p
  <2> QED BY <1>0, <1>1, <2>1, LineIsLeast
<1>4. ASSUME NEW r \in 1..m, NEW a \in LineIn(k, r), NEW b \in LineIn(k, r), a # b
      PROVE  k[a].commits \intersect k[b].commits = {}
  <2>1. CASE r = m
    <3>1. a \in L /\ b \in L
      BY <1>3, <2>1
    <3>2. ASSUME NEW l \in LineIn(h, p) PROVE k[l] = h[l] /\ h[l].commits \intersect k[m].commits = {}
      BY <1>2 DEF p
    <3>3. CASE a = m \/ b = m
      BY <1>4, <3>1, <3>2, <3>3
    <3>4. CASE a # m /\ b # m
      <4>1. a \in LineIn(h, p) /\ b \in LineIn(h, p)
        BY <3>1, <3>4
      <4>2. p \in 1..n
        <5>1. CASE p = 0
          <6>1. Closed({}, h) /\ {} \in SUBSET (1..n) /\ p \in 0..n
            BY <5>1, <1>0 DEF Closed
          <6>2. LineIn(h, p) \subseteq {}
            BY <5>1, <6>1, LineIsLeast
          <6> QED BY <4>1, <6>2
        <5> QED BY <1>2, <5>1
      <4>3. h[a].commits \intersect h[b].commits = {}
        BY <1>4, <4>1, <4>2 DEF OnceIn, History
      <4> QED BY <3>2, <4>1, <4>3
    <3> QED BY <3>3, <3>4
  <2>2. CASE r \in 1..n
    <3>1. a \in LineIn(h, r) /\ b \in LineIn(h, r)
      BY <1>0, <2>2, <1>1, LineKept
    <3>2. a \in 1..n /\ b \in 1..n
      BY <1>0, <2>2, LineIsLeast, <3>1
    <3>3. h[a].commits \intersect h[b].commits = {}
      BY <1>4, <2>2, <3>1 DEF OnceIn, History
    <3> QED BY <3>2, <3>3
  <2> QED BY <1>0, <2>1, <2>2
<1> QED BY <1>1, <1>4 DEF OnceIn

-----------------------------------------------------------------------------
(***************************************************************************)
(* What is stored                                                          *)
(***************************************************************************)
\* The database.
Kept ==
  /\ IsFiniteSet(stored) /\ key \in Nat
  /\ protection \in {"none", "off", "on"}
  /\ \A c \in stored : table[c] = IF protection = "none" THEN 0 ELSE key
  /\ excluded \subseteq stored /\ unknown \subseteq stored
  /\ trained \subseteq stored /\ (up => trained = {})
  /\ runs \in Seq(Run)
  /\ \A r \in DOMAIN runs : runs[r].parent < r /\ runs[r].commits \subseteq stored
  /\ TrainedOnce
  /\ training.at = "training" =>
       /\ up /\ training.parent \in 0..Len(runs) /\ training.base \in Bases
       /\ training.records \subseteq Commits /\ training.total \in Nat

LEMMA RunsAreHistory ==
  ASSUME NEW h \in Seq(Run), \A r \in DOMAIN h : h[r].parent < r
  PROVE  History(h, Len(h))
<1>1. Len(h) \in Nat /\ DOMAIN h = 1..Len(h) /\ \A l \in 1..Len(h) : h[l] \in Run
  OBVIOUS
<1>2. ASSUME NEW l \in 1..Len(h) PROVE h[l].parent \in 0..(l - 1)
  BY <1>1 DEF Run
<1> QED BY <1>1, <1>2 DEF History

\* Rows go, and from the runs what refers to them.
LEMMA WithoutKept ==
  ASSUME Kept, NEW C, runs' = RunsWithout(C)
  PROVE  /\ runs' \in Seq(Run) /\ Len(runs') = Len(runs) /\ DOMAIN runs' = DOMAIN runs
         /\ \A r \in DOMAIN runs :
              runs'[r].parent = runs[r].parent /\ runs'[r].commits = runs[r].commits \ C
         /\ TrainedOnce'
<1>1. PICK h \in Seq(Run) : h = runs
  BY DEF Kept
<1>2. PICK k : k = runs'
  OBVIOUS
<1>3. PICK n \in Nat : n = Len(h)
  OBVIOUS
<1>4. DOMAIN h = 1..n /\ \A l \in 1..n : h[l] \in Run /\ h[l].parent < l
  BY <1>1, <1>3 DEF Kept
<1>5. k = [r \in 1..n |-> [h[r] EXCEPT !.commits = @ \ C]]
  BY <1>1, <1>2, <1>4 DEF RunsWithout
<1>6. ASSUME NEW l \in 1..n
      PROVE  k[l] \in Run /\ k[l].parent = h[l].parent /\ k[l].commits = h[l].commits \ C
  BY <1>4, <1>5 DEF Run
<1>7. DOMAIN k = 1..n /\ k \in [1..n -> Run]
  BY <1>5, <1>6
<1>8. k \in Seq(Run) /\ Len(k) = n
  BY <1>7
<1>9. History(h, n) /\ OnceIn(h)
  BY <1>1, <1>3, <1>4, RunsAreHistory DEF Kept, TrainedOnce
<1>10. OnceIn(k)
  BY <1>6, <1>7, <1>9, OnceKept
<1> QED BY <1>1, <1>2, <1>3, <1>4, <1>6, <1>7, <1>8, <1>10 DEF TrainedOnce

LEMMA InitKept == Init => Kept
<1> SUFFICES ASSUME Init PROVE Kept
  OBVIOUS
<1>1. PICK use \in Uses :
        /\ table = use.database.table /\ trained = use.database.trained
        /\ protection = use.database.protection /\ key = use.database.key
        /\ runs = use.database.runs
  BY DEF Init
<1>2. PICK found : found = use.database
  OBVIOUS
<1>3. Found(use, found)
  BY <1>2, UsesAssumption
<1>4. /\ table = found.table /\ trained = found.trained /\ protection = found.protection
      /\ key = found.key /\ runs = found.runs /\ stored = DOMAIN found.table
  BY <1>1, <1>2 DEF stored
<1>5. excluded = {} /\ unknown = {} /\ ~up /\ training = Idle
  BY DEF Init
<1>6. \A r \in DOMAIN runs : runs[r].parent < r /\ runs[r].commits \subseteq stored
  BY <1>3, <1>4 DEF Found
<1>7. TrainedOnce
  BY <1>3, <1>4 DEF Found, TrainedOnce
<1>8. /\ IsFiniteSet(stored) /\ key \in Nat /\ protection \in {"none", "off", "on"}
      /\ \A c \in stored : table[c] = IF protection = "none" THEN 0 ELSE key
      /\ trained \subseteq stored /\ runs \in Seq(Run)
  BY <1>3, <1>4 DEF Found
<1> QED BY <1>5, <1>6, <1>7, <1>8 DEF Kept, Idle

\* The database stays, and the training if one is under way.
LEMMA SameKept ==
  ASSUME Kept, UNCHANGED <<table, excluded, unknown, key, protection, runs, trained>>,
         \/ training' = Idle /\ (up' => up)
         \/ UNCHANGED <<training, up>>
  PROVE  Kept'
BY DEF Kept, stored, TrainedOnce, Idle

LEMMA StartKept ==
  ASSUME IInv, Kept, Start PROVE Kept'
<1>1. /\ ~up /\ UNCHANGED <<excluded, key, protection, training>> /\ trained' = {}
      /\ unknown' = unknown \union trained
  BY DEF Start
<1>2. CASE UNCHANGED <<table, runs>>
  BY <1>1, <1>2 DEF Kept, stored, TrainedOnce
<1>3. CASE table' = [c \in Readable |-> table[c]] /\ runs' = RunsWithout(stored \ Readable)
  <2>1. stored' = Readable /\ Readable \subseteq stored /\ \A c \in Readable : table'[c] = table[c]
    BY <1>3 DEF stored, Readable
  <2>2. excluded \union unknown \union trained \subseteq Readable
    BY DEF Readable, Kept
  <2>3. IsFiniteSet(stored')
    BY <2>1, FS_Subset DEF Kept
  <2>4. PICK C : C = stored \ Readable
    OBVIOUS
  <2>5. /\ runs' \in Seq(Run) /\ Len(runs') = Len(runs) /\ DOMAIN runs' = DOMAIN runs
        /\ \A r \in DOMAIN runs :
             runs'[r].parent = runs[r].parent /\ runs'[r].commits = runs[r].commits \ C
        /\ TrainedOnce'
    BY <1>3, <2>4, WithoutKept
  <2>6. \A r \in DOMAIN runs' : runs'[r].parent < r /\ runs'[r].commits \subseteq stored'
    BY <2>1, <2>4, <2>5 DEF Kept
  <2> QED BY <1>1, <2>1, <2>2, <2>3, <2>5, <2>6 DEF Kept
<1> QED BY <1>2, <1>3 DEF Start

LEMMA DeleteKept ==
  ASSUME IInv, Kept, NEW c \in stored, DeletePending(c) PROVE Kept'
<1>1. /\ UNCHANGED <<excluded, key, protection, trained, training, up>>
      /\ c \notin excluded /\ unknown' = unknown \ {c} /\ runs' = RunsWithout({c}) /\ up
      /\ table' = [d \in stored \ {c} |-> table[d]]
  BY DEF DeletePending, TrainingUnchanged, Call
<1>2. stored' = stored \ {c} /\ \A d \in stored' : table'[d] = table[d]
  BY <1>1 DEF stored
<1>3. IsFiniteSet(stored')
  BY <1>2, FS_Subset DEF Kept
<1>5. /\ runs' \in Seq(Run) /\ Len(runs') = Len(runs) /\ DOMAIN runs' = DOMAIN runs
      /\ \A r \in DOMAIN runs :
           runs'[r].parent = runs[r].parent /\ runs'[r].commits = runs[r].commits \ {c}
      /\ TrainedOnce'
  BY <1>1, WithoutKept
<1>6. \A r \in DOMAIN runs' : runs'[r].parent < r /\ runs'[r].commits \subseteq stored'
  BY <1>2, <1>5 DEF Kept
<1> QED BY <1>1, <1>2, <1>3, <1>5, <1>6 DEF Kept

LEMMA ExcludeKept ==
  ASSUME Kept, NEW selected, ExcludeUnselected(selected, stored) PROVE Kept'
BY DEF ExcludeUnselected, TrainingUnchanged, Kept, stored, TrainedOnce

LEMMA EraseKept ==
  ASSUME IInv, Kept, Erase PROVE Kept'
<1>1. /\ UNCHANGED <<key, trained, training, up>> /\ up
      /\ table' = [c \in {} |-> 0] /\ excluded' = {} /\ unknown' = {} /\ protection' = "none"
      /\ runs' = ErasedRuns
  BY DEF Erase, CallUnchanged, IInv, Off, Idle
<1>2. stored' = {} /\ IsFiniteSet(stored') /\ trained' = {}
  BY <1>1, FS_EmptySet DEF stored, Kept
<1>3. PICK C : C = stored
  OBVIOUS
<1>4. ErasedRuns = RunsWithout(C)
  BY <1>3 DEF Kept, Run, ErasedRuns, RunsWithout
<1>5. /\ runs' \in Seq(Run) /\ Len(runs') = Len(runs) /\ DOMAIN runs' = DOMAIN runs
      /\ \A r \in DOMAIN runs :
           runs'[r].parent = runs[r].parent /\ runs'[r].commits = runs[r].commits \ C
      /\ TrainedOnce'
  BY <1>1, <1>4, WithoutKept
<1>6. \A r \in DOMAIN runs' : runs'[r].parent < r /\ runs'[r].commits \subseteq stored'
  BY <1>2, <1>3, <1>5 DEF Kept
<1> QED BY <1>1, <1>2, <1>5, <1>6 DEF Kept

LEMMA IdentifyKept ==
  ASSUME Kept, NEW base \in Bases, Identify(base) PROVE Kept'
<1>0. /\ UNCHANGED <<table, excluded, unknown, key, protection, trained, training, up>>
      /\ stored' = stored /\ training = Idle
  BY DEF Identify, TrainingUnchanged, stored
<1>1. PICK h \in Seq(Run) : h = runs
  BY DEF Kept
<1>2. PICK k : k = runs'
  OBVIOUS
<1>3. PICK n \in Nat : n = Len(h)
  OBVIOUS
<1>4. DOMAIN h = 1..n /\ \A l \in 1..n : h[l] \in Run /\ h[l].parent < l
  BY <1>1, <1>3 DEF Kept
<1>5. k = [r \in 1..n |-> IF h[r].base = NoBase THEN [h[r] EXCEPT !.base = base] ELSE h[r]]
  BY <1>1, <1>2, <1>4 DEF Identify
<1>6. ASSUME NEW l \in 1..n
      PROVE  k[l] \in Run /\ k[l].parent = h[l].parent /\ k[l].commits = h[l].commits
  BY <1>4, <1>5 DEF Run
<1>7. DOMAIN k = 1..n /\ k \in [1..n -> Run]
  BY <1>5, <1>6
<1>8. k \in Seq(Run) /\ Len(k) = n
  BY <1>7
<1>9. History(h, n) /\ OnceIn(h)
  BY <1>1, <1>3, <1>4, RunsAreHistory DEF Kept, TrainedOnce
<1>10. OnceIn(k)
  BY <1>6, <1>7, <1>9, OnceKept
<1>11. runs' \in Seq(Run) /\ TrainedOnce' /\ DOMAIN runs' = 1..n
  BY <1>2, <1>7, <1>8, <1>10 DEF TrainedOnce
<1>12. ASSUME NEW r \in DOMAIN runs' PROVE runs'[r].parent < r /\ runs'[r].commits \subseteq stored'
  BY <1>1, <1>4, <1>11, <1>0, <1>2, <1>6 DEF Kept
<1> QED BY <1>0, <1>11, <1>12 DEF Kept, Idle

LEMMA ReadKept ==
  ASSUME IInv, Kept, NEW parent \in 0..Len(runs), NEW base \in Bases, NEW chosen \in SUBSET stored,
         ReadRecords(parent, base, chosen)
  PROVE  Kept'
<1>1. /\ UNCHANGED <<table, excluded, unknown, key, protection, trained, runs, up>>
      /\ stored' = stored /\ up
  BY DEF ReadRecords, TrainingUnchanged, stored, Call
<1>2. PICK records : records = chosen \intersect Available(parent)
  OBVIOUS
<1>3. PICK total : total = Cardinality(records) + (IF parent = 0 THEN 0 ELSE runs[parent].total)
  OBVIOUS
<1>4. training' = [at |-> "training", parent |-> parent, base |-> base, records |-> records,
                   total |-> total]
  BY <1>2, <1>3 DEF ReadRecords
<1>5. records \subseteq stored /\ records \subseteq Commits
  BY <1>2 DEF IInv, Typed
<1>6. total \in Nat
  <2>1. IsFiniteSet(records)
    BY <1>5, FS_Subset DEF Kept
  <2>2. Cardinality(records) \in Nat
    BY <2>1, FS_CardinalityType
  <2>3. parent # 0 => runs[parent].total \in Nat
    <3> SUFFICES ASSUME parent # 0 PROVE runs[parent].total \in Nat
      OBVIOUS
    <3>1. PICK h \in Seq(Run) : h = runs
      BY DEF Kept
    <3>2. h[parent] \in Run
      BY <3>1
    <3> QED BY <3>1, <3>2 DEF Run
  <2> QED BY <1>3, <2>2, <2>3
<1> QED BY <1>1, <1>4, <1>5, <1>6 DEF Kept, TrainedOnce

LEMMA CompleteKept ==
  ASSUME Kept, Complete PROVE Kept'
<1>0. /\ UNCHANGED <<table, excluded, unknown, key, protection, trained, up>>
      /\ stored' = stored /\ training' = Idle /\ training.at = "training"
  BY DEF Complete, TrainingUnchanged, stored
<1>1. CASE ~StillAvailable
  BY <1>0, <1>1, SameKept DEF Complete
<1>2. CASE StillAvailable
  <2>1. PICK h \in Seq(Run) : h = runs
    BY DEF Kept
  <2>2. PICK new : new = [parent |-> training.parent, base |-> training.base,
                          commits |-> training.records, total |-> training.total]
    OBVIOUS
  <2>3. PICK n \in Nat : n = Len(h)
    OBVIOUS
  <2>4. PICK k : k = Append(h, new)
    OBVIOUS
  <2>5. runs' = k
    BY <1>2, <2>1, <2>2, <2>4 DEF Complete
  <2>6. new \in Run /\ new.parent \in 0..n /\ new.commits = training.records
        /\ new.parent = training.parent
    BY <1>0, <2>1, <2>2, <2>3 DEF Kept, Run
  <2>7. /\ k \in Seq(Run) /\ Len(k) = n + 1 /\ DOMAIN k = 1..(n + 1) /\ k[n + 1] = new
        /\ \A l \in 1..n : k[l] = h[l]
    BY <2>3, <2>4, <2>6
  <2>8. History(h, n) /\ OnceIn(h)
    BY <2>1, <2>3, RunsAreHistory DEF Kept, TrainedOnce
  <2>9. new.commits \subseteq Available(new.parent) /\ new.commits \subseteq stored
    BY <1>2, <2>6 DEF StillAvailable, Available
  <2>10. \A l \in LineIn(h, new.parent) : h[l].commits \intersect new.commits = {}
    BY <2>1, <2>9 DEF Available, Lineage
  <2>11. OnceIn(k)
    <3>1. PICK m : m = n + 1
      OBVIOUS
    <3> QED BY <2>6, <2>7, <2>8, <2>10, <3>1, OnceLonger
  <2>12. ASSUME NEW r \in DOMAIN k PROVE k[r].parent < r /\ k[r].commits \subseteq stored
    BY <2>6, <2>7, <2>9, <2>1, <2>3 DEF Kept
  <2> QED BY <1>0, <2>5, <2>7, <2>11, <2>12 DEF Kept, TrainedOnce, Idle
<1> QED BY <1>1, <1>2

LEMMA ConfigureKept ==
  ASSUME Kept, Configure PROVE Kept'
BY DEF Configure, CallUnchanged, stored, Kept, TrainedOnce

-----------------------------------------------------------------------------
(***************************************************************************)
(* The password of the worker, and what it counts down                     *)
(***************************************************************************)
\* Whoever records has a password, and one read before is still the one that is
\* set as long as the generation lasts.
Secret ==
  /\ recording => protection # "none"
  /\ cached \in [generation : Nat, key : Nat] /\ cached.generation <= generation
  /\ cached.generation = generation /\ cached.key # 0 => cached.key = key /\ protection # "none"
  /\ settings.at = "erase" => cached.generation < generation

LEMMA InitSecret == Init => Secret
BY DEF Init, Secret, Idle

LEMMA SameSecret ==
  ASSUME Secret, UNCHANGED <<recording, protection, cached, generation, key>>,
         settings'.at = "erase" => settings.at = "erase"
  PROVE  Secret'
BY DEF Secret

LEMMA OffSecret ==
  ASSUME IInv, Secret, generation' = 0, cached' = [generation |-> 0, key |-> 0],
         recording' => protection' # "none", settings' = Idle
  PROVE  Secret'
BY DEF Secret, Idle

LEMMA StartSecret ==
  ASSUME IInv, Secret, Start PROVE Secret'
BY DEF Start, Secret, IInv, Off, Idle

LEMMA SwitchSecret ==
  ASSUME Kept, Secret, NEW on \in BOOLEAN, Switch(on) PROVE Secret'
BY DEF Switch, thread, Idle, Kept, Secret

LEMMA ResetSecret ==
  ASSUME IInv, Secret, Reset PROVE Secret'
BY DEF Reset, thread, database, Secret, IInv, Typed

LEMMA EraseSecret ==
  ASSUME IInv, Secret, Erase PROVE Secret'
BY DEF Erase, thread, IInv, Off, Secret, Typed

LEMMA ConfigureSecret ==
  ASSUME Kept, Secret, Configure PROVE Secret'
BY DEF Configure, thread, Secret, Idle

\* What the worker writes is sealed under the password that is set.
LEMMA PersistOpens ==
  ASSUME IInv, Kept, Secret, Persist, Writable(worker.hand)
  PROVE  Password(worker.hand) = key /\ protection # "none" /\ worker.hand.generation = generation
BY DEF Persist, Writable, Password, Secret, IInv, Shape, Persisting, Entries

LEMMA PersistSecret ==
  ASSUME IInv, Kept, Secret, Persist PROVE Secret'
BY SameSecret, PersistOpens DEF Persist, WorkerUnchanged, Writable, IInv, Typed, Kept, Off,
   Secret

\* What Persist writes, if it writes.
LEMMA PersistWrites ==
  ASSUME IInv, Kept, Secret, Persist
  PROVE  \/ /\ UNCHANGED <<table, stored, lock>> /\ worker' = Resumed
         \/ /\ worker.hand.commit \notin stored /\ worker.hand.commit \in Commits
            /\ stored' = stored \union {worker.hand.commit}
            /\ worker' = [worker EXCEPT !.at = "publish"] /\ lock' = "worker"
            /\ protection # "none"
            /\ \A d \in stored' : table'[d] = IF d \in stored THEN table[d] ELSE key
<1> DEFINE c == worker.hand.commit
           new == Writable(worker.hand) /\ Password(worker.hand) # 0
<1>1. CASE new /\ c \notin stored
  BY <1>1, PersistOpens DEF Persist, IInv, Shape, Persisting, Entries, stored
<1>2. CASE ~(new /\ c \notin stored)
  BY <1>2 DEF Persist, stored
<1> QED BY <1>1, <1>2

LEMMA PersistKept ==
  ASSUME IInv, Kept, Secret, Persist PROVE Kept'
<1>1. UNCHANGED <<excluded, unknown, key, protection, trained, training, runs, up>>
  BY DEF Persist, WorkerUnchanged
<1>2. CASE UNCHANGED <<table, stored>>
  BY <1>1, <1>2, SameKept
<1>3. CASE /\ stored' = stored \union {worker.hand.commit} /\ protection # "none"
           /\ \A d \in stored' : table'[d] = IF d \in stored THEN table[d] ELSE key
  <2>1. PICK c : c = worker.hand.commit
    OBVIOUS
  <2>2. IsFiniteSet(stored')
    BY <1>3, <2>1, FS_AddElement DEF Kept
  <2>3. \A d \in stored' : table'[d] = key
    BY <1>3 DEF Kept
  <2>4. stored \subseteq stored'
    BY <1>3
  <2> QED BY <1>1, <1>3, <2>2, <2>3, <2>4 DEF Kept, TrainedOnce
<1> QED BY <1>2, <1>3, PersistWrites

\* The worker counts down only what it writes because it is due.
Tended ==
  /\ worker.at \notin {"write", "persist", "publish"} => worker.due = 0
  /\ lock \in {"free", "worker", "settings"}

LEMMA InitTended == Init => Tended
BY RestingState DEF Init, Tended

LEMMA ResumedDue ==
  ASSUME IInv, worker.at \in {"persist", "publish"}, worker' = Resumed
  PROVE  worker'.at = "write" \/ worker'.due = 0
<1>1. PICK w \in Work : w = worker
  BY DEF IInv, Typed
<1>2. Resumed = [w EXCEPT !.at = IF w.operation = NoOperation THEN "write" ELSE "stage",
                          !.hand = NoCommit]
  BY <1>1 DEF Resumed
<1>3. CASE w.operation = NoOperation
  BY <1>2, <1>3 DEF Work
<1>4. CASE w.operation # NoOperation
  BY <1>1, <1>4, <1>2 DEF IInv, Shape, Work
<1> QED BY <1>3, <1>4

LEMMA WorkerTended ==
  ASSUME IInv, Kept, Secret, Tended, WorkerStep PROVE Tended'
<1> USE RestingState DEF Tended, Forward
<1>1. CASE WorkerStart
  BY <1>1 DEF WorkerStart
<1>2. CASE TakeOperation
  BY <1>2 DEF TakeOperation, Resting
<1>3. CASE Finish
  BY <1>3 DEF Finish, Resting
<1>4. CASE Wake
  BY <1>4 DEF Wake
<1>5. CASE ReadClock
  BY <1>5 DEF ReadClock, Resting
<1>6. CASE Write
  <2>1. lock' = lock
    BY <1>6 DEF Write
  <2>2. CASE worker.due = 0
    <3>1. PICK at : worker' = Resting(at)
      BY <1>6, <2>2 DEF Write
    <3> QED BY <2>1, <3>1
  <2>3. CASE worker.due # 0
    <3>1. PICK w \in Work : w = worker
      BY DEF IInv, Typed
    <3>2. worker' = [w EXCEPT !.at = "persist", !.hand = Head(staged), !.due = w.due - 1]
      BY <1>6, <2>3, <3>1 DEF Write
    <3>3. worker'.at = "persist"
      BY <3>2 DEF Work
    <3> QED BY <2>1, <3>3
  <2> QED BY <2>2, <2>3
<1>7. CASE RunClear \/ RunDiscard \/ Stage
  BY <1>7 DEF RunClear, RunDiscard, Stage
<1>8. CASE RunCommit
  <2>1. PICK w \in Work : w = worker
    BY DEF IInv, Typed
  <2>2. w.due = 0 /\ lock' = lock
    BY <1>8, <2>1 DEF RunCommit, IInv, Shape
  <2>3. PICK hand : \/ worker' = [w EXCEPT !.at = "stage"]
                    \/ worker' = [w EXCEPT !.at = "persist", !.hand = hand]
    BY <1>8, <2>1 DEF RunCommit
  <2>4. worker'.due = w.due
    BY <2>3 DEF Work
  <2> QED BY <2>2, <2>4
<1>9. CASE Persist
  BY <1>9, ResumedDue, PersistWrites DEF Persist, IInv, Typed, Work
<1>10. CASE PublishWritten
  BY <1>10, ResumedDue DEF PublishWritten
<1> QED BY <1>1, <1>2, <1>3, <1>4, <1>5, <1>6, <1>7, <1>8, <1>9, <1>10 DEF WorkerStep

Books == Kept /\ Secret /\ Tended

\* The type invariant follows.
LEMMA BooksHold ==
  ASSUME IInv, Books, published \in Nat PROVE Bookkeeping
<1> USE DEF IInv, Books
<1>1. \A c \in stored : table[c] \in 0..key
  BY DEF Kept
<1>2. \A i \in DOMAIN queue : queue[i].kind \in {"commit", "discard", "clear"}
  <2> SUFFICES ASSUME NEW i \in DOMAIN queue
               PROVE  queue[i].kind \in {"commit", "discard", "clear"}
    OBVIOUS
  <2>1. i \in Queue /\ queue[i] \in Operation
    BY DEF Typed, Queue
  <2>2. queue[i].kind # "none"
    BY <2>1 DEF Typed
  <2> QED BY <2>1, <2>2 DEF Operation
<1>3. worker \in Work /\ Len(staged) \in Nat
  BY DEF Typed
<1>4. worker.due \in 0..Len(staged)
  BY <1>3 DEF Tended, Shape, Work
<1>5. \A r \in DOMAIN runs : runs[r].parent \in 0..(r - 1) /\ runs[r].commits \subseteq stored
  <2> SUFFICES ASSUME NEW r \in DOMAIN runs
               PROVE  runs[r].parent \in 0..(r - 1) /\ runs[r].commits \subseteq stored
    OBVIOUS
  <2>1. PICK h \in Seq(Run) : h = runs
    BY DEF Kept
  <2>2. r \in Nat /\ h[r] \in Run
    BY <2>1
  <2>3. h[r].parent \in Nat
    BY <2>2 DEF Run
  <2>4. h[r].parent < r /\ h[r].commits \subseteq stored
    BY <2>1 DEF Kept
  <2> QED BY <2>1, <2>2, <2>3, <2>4
<1>6. DataTypeOK
  BY <1>1, <1>2, <1>3, <1>4, <1>5 DEF DataTypeOK, Typed, Kept, Secret, Tended, Work
<1>7. OnePassword
  BY DEF OnePassword, Kept
<1> QED BY <1>6, <1>7 DEF Bookkeeping

-----------------------------------------------------------------------------
(***************************************************************************)
(* The count that is shown                                                 *)
(***************************************************************************)
Publishers == {"settings", "training"}

\* The count, as long as one publishes it at a time: it is right, or the one
\* who has changed what is counted knows what to make of it.
Right ==
  /\ \A x, y \in Publishing : x = y
  /\ Publishing = {} => published = Count
  /\ worker.at = "publish" => published + 1 = Count
  /\ settings.at = "publish" => settings.less = published /\ stored = {}
  /\ \A p \in Publishers : counting[p].at = "publish" => counting[p].count = Count

Shown ==
  /\ published \in Nat
  /\ counting \in [Publishers -> [at : {"no", "count", "publish"}, count : Nat]]
  /\ settings.at = "publish" => settings.less \in Nat
  /\ ~up => \A p \in Publishers : counting[p] = NotCounting
  /\ up /\ ~disturbed => Right

LEMMA OneOf ==
  ASSUME NEW P, P \subseteq Publishers \union {"worker", "reset"}, ~(Cardinality(P) > 1)
  PROVE  \A x, y \in P : x = y
<1> SUFFICES ASSUME NEW x \in P, NEW y \in P, x # y PROVE FALSE
  OBVIOUS
<1>1. IsFiniteSet(Publishers \union {"worker", "reset"})
  <2>1. IsFiniteSet({"settings"} \union {"training"})
    BY FS_Singleton, FS_AddElement
  <2>2. IsFiniteSet(({"settings"} \union {"training"}) \union {"worker"})
    BY <2>1, FS_AddElement
  <2>3. IsFiniteSet((({"settings"} \union {"training"}) \union {"worker"}) \union {"reset"})
    BY <2>2, FS_AddElement
  <2>4. Publishers \union {"worker", "reset"}
          = (({"settings"} \union {"training"}) \union {"worker"}) \union {"reset"}
    BY DEF Publishers
  <2> QED BY <2>3, <2>4
<1>2. IsFiniteSet(P) /\ Cardinality(P) \in Nat
  BY <1>1, FS_Subset, FS_CardinalityType
<1>3. Cardinality({x} \union {y}) = 2
  <2>1. IsFiniteSet({x}) /\ Cardinality({x}) = 1
    BY FS_Singleton
  <2> QED BY <2>1, FS_AddElement
<1>4. Cardinality({x} \union {y}) <= Cardinality(P)
  BY <1>2, FS_Subset
<1> QED BY <1>2, <1>3, <1>4

LEMMA OneAtATime ==
  ASSUME NEW A, Watched(A), DOMAIN counting' = Publishers, up', ~disturbed'
  PROVE  ~disturbed /\ \A x, y \in Publishing' : x = y
<1>1. ~disturbed /\ ~(Cardinality(Publishing') > 1)
  BY DEF Watched
<1>2. Publishing' \subseteq Publishers \union {"worker", "reset"}
  BY DEF Publishing
<1> QED BY <1>1, <1>2, OneOf

LEMMA SameCount ==
  ASSUME UNCHANGED <<stored, excluded, unknown, runs, active>> PROVE Count' = Count
BY DEF Count, Available, RunsOf, Lineage

LEMMA CountIsNat ==
  ASSUME IsFiniteSet(stored) PROVE Count \in Nat
BY FS_Subset, FS_CardinalityType DEF Available, Count

LEMMA InitShown == Init => Shown
<1> SUFFICES ASSUME Init PROVE Shown
  OBVIOUS
<1>1. /\ published = 0 /\ settings = Idle /\ ~up
      /\ counting = [p \in Publishers |-> NotCounting]
  BY DEF Init, Publishers
<1>2. NotCounting \in [at : {"no", "count", "publish"}, count : Nat]
  BY DEF NotCounting
<1> QED BY <1>1, <1>2 DEF Shown, Idle

\* Nobody begins or ends to publish, and what is counted stays.
LEMMA CalmShown ==
  ASSUME Shown, NEW A, Watched(A), UNCHANGED <<published, counting>>, up' = up,
         UNCHANGED <<stored, excluded, unknown, runs, active>>,
         worker'.at = "publish" <=> worker.at = "publish",
         settings' = settings \/ (settings'.at # "publish" /\ settings.at # "publish")
  PROVE  Shown'
BY SameCount, OneAtATime DEF Publishing, Shown, Right

LEMMA GoneShown ==
  ASSUME Shown, Gone PROVE Shown'
BY DEF Gone, Shown, NotCounting, Idle

LEMMA StartShown ==
  ASSUME IInv, Shown, Kept', Start PROVE Shown'
<1>1. /\ counting' = counting /\ settings' = Idle /\ published' = Count' /\ ~up
      /\ worker'.at = "start"
  BY RestingState DEF Start, IInv, Off
<1>2. /\ DOMAIN counting' = Publishers /\ \A p \in Publishers : counting'[p] = NotCounting
      /\ settings'.at # "publish" /\ worker'.at # "publish"
  BY <1>1 DEF Shown, Idle
<1>3. Publishing' = {}
  BY <1>2 DEF Publishing
<1>4. Count' \in Nat
  BY FS_Subset, FS_CardinalityType DEF Kept, Available, Count
<1>5. Right'
  BY <1>1, <1>2, <1>3 DEF Right, NotCounting
<1> QED BY <1>1, <1>2, <1>4, <1>5 DEF Shown

\* One of the two counts: what is counted may have changed.
LEMMA CountedShown ==
  ASSUME Shown, NEW A, Watched(A), NEW p \in Publishers, Counted(p), up, up',
         UNCHANGED <<published, settings, worker>>
  PROVE  Shown'
<1>1. PICK c \in [Publishers -> [at : {"no", "count", "publish"}, count : Nat]] : c = counting
  BY DEF Shown
<1>2. counting' = [c EXCEPT ![p].at = "count"]
  BY <1>1 DEF Counted
<1>3. PICK n \in Nat : c[p].count = n
  OBVIOUS
<1>4. counting' = [c EXCEPT ![p] = [at |-> "count", count |-> n]]
  <2>1. c[p] \in [at : {"no", "count", "publish"}, count : Nat]
    OBVIOUS
  <2>2. [c[p] EXCEPT !.at = "count"] = [at |-> "count", count |-> n]
    BY <1>3, <2>1
  <2> QED BY <1>2, <2>2
<1>5. counting' \in [Publishers -> [at : {"no", "count", "publish"}, count : Nat]]
      /\ counting'[p].at = "count"
  BY <1>4
<1>6. CASE disturbed'
  BY <1>5, <1>6 DEF Shown
<1>7. CASE ~disturbed'
  BY <1>5, <1>7, OneAtATime DEF Publishing, NotCounting, Publishers, Right, Shown
<1> QED BY <1>6, <1>7

LEMMA CountNowShown ==
  ASSUME Shown, Kept, NEW A, Watched(A), NEW p \in Publishers, CountNow(p) PROVE Shown'
<1>1. PICK c \in [Publishers -> [at : {"no", "count", "publish"}, count : Nat]] : c = counting
  BY DEF Shown
<1>2. /\ counting' = [c EXCEPT ![p] = [at |-> "publish", count |-> Count]] /\ c[p].at = "count"
      /\ UNCHANGED <<published, settings, worker, up, stored, excluded, unknown, runs, active>>
  BY <1>1 DEF CountNow, TrainingUnchanged, thread, stored
<1>3. Count \in Nat
  BY CountIsNat DEF Kept
<1>4. PICK n \in Nat : n = Count
  BY <1>3
<1>5. counting' \in [Publishers -> [at : {"no", "count", "publish"}, count : Nat]]
      /\ counting'[p].at = "publish" /\ counting'[p].count = n /\ up
      /\ \A q \in Publishers : q # p => counting'[q] = c[q]
  BY <1>1, <1>2, <1>4 DEF Shown, NotCounting
<1>6. Count' = n
  BY <1>2, <1>4, SameCount
<1>7. CASE disturbed'
  BY <1>2, <1>5, <1>7 DEF Shown
<1>8. CASE ~disturbed'
  BY <1>2, <1>5, <1>8, OneAtATime, <1>6 DEF Publishing, NotCounting, Publishers, Right,
     Shown
<1> QED BY <1>7, <1>8

LEMMA PublishCountShown ==
  ASSUME Shown, NEW A, Watched(A), NEW p \in Publishers, PublishCount(p) PROVE Shown'
<1>1. PICK c \in [Publishers -> [at : {"no", "count", "publish"}, count : Nat]] : c = counting
  BY DEF Shown
<1>2. /\ counting' = [c EXCEPT ![p] = NotCounting] /\ c[p].at = "publish"
      /\ published' = c[p].count
      /\ UNCHANGED <<settings, worker, up, stored, excluded, unknown, runs, active>>
  BY <1>1 DEF PublishCount, TrainingUnchanged, thread, stored
<1>3. counting' \in [Publishers -> [at : {"no", "count", "publish"}, count : Nat]]
      /\ counting'[p] = NotCounting /\ up /\ published' \in Nat
      /\ \A q \in Publishers : q # p => counting'[q] = c[q]
  BY <1>1, <1>2 DEF Shown, NotCounting
<1>4. CASE disturbed'
  BY <1>2, <1>3, <1>4 DEF Shown
<1>5. CASE ~disturbed'
  BY <1>2, <1>3, <1>5, OneAtATime, <1>1, SameCount DEF Shown, Publishing, NotCounting,
     Right, Publishers
<1> QED BY <1>4, <1>5

\* One more commit is there: it can be trained on top of any run.
LEMMA OneMore ==
  ASSUME Kept, NEW c, c \notin stored, stored' = stored \union {c},
         UNCHANGED <<excluded, unknown, runs, active>>
  PROVE  Count' = Count + 1
<1>1. PICK r : r = Latest(RunsOf(active))
  OBVIOUS
<1>2. Latest(RunsOf(active))' = r
  BY <1>1 DEF RunsOf
<1>3. \A l \in Lineage(r) : c \notin runs[l].commits
  BY DEF Lineage, LineIn, Kept
<1>4. c \notin excluded /\ c \notin unknown
  BY DEF Kept
<1>5. PICK S : S = Available(r)
  OBVIOUS
<1>6. Available(Latest(RunsOf(active)))' = S \union {c}
  BY <1>2, <1>3, <1>4, <1>5 DEF Lineage, Available
<1>7. c \notin S /\ S \subseteq stored
  BY <1>5 DEF Available
<1>8. IsFiniteSet(S)
  BY <1>7, FS_Subset DEF Kept
<1>9. Cardinality(S \union {c}) = Cardinality(S) + 1
  BY <1>7, <1>8, FS_AddElement
<1> QED BY <1>1, <1>5, <1>6, <1>9 DEF Count

LEMMA ResumedPlace ==
  ASSUME IInv, worker' = Resumed PROVE worker'.at # "publish"
<1>1. PICK w \in Work : w = worker
  BY DEF IInv, Typed
<1>2. PICK at \in {"write", "stage"} : worker' = [w EXCEPT !.at = at, !.hand = NoCommit]
  BY <1>1 DEF Resumed
<1>3. worker'.at = at
  BY <1>2 DEF Work
<1> QED BY <1>3

LEMMA PersistShown ==
  ASSUME IInv, Kept, Secret, Shown, NEW A, Watched(A), Persist PROVE Shown'
<1>1. UNCHANGED <<excluded, unknown, runs, active, published, counting, settings, up>>
      /\ worker.at = "persist" /\ up
  BY DEF Persist, WorkerUnchanged, IInv, Off, Resting
<1>2. CASE stored' = stored /\ worker' = Resumed
  BY <1>2, ResumedPlace, <1>1, CalmShown
<1>3. CASE /\ worker.hand.commit \notin stored
           /\ stored' = stored \union {worker.hand.commit}
           /\ worker' = [worker EXCEPT !.at = "publish"]
  <2>1. worker'.at = "publish"
    BY <1>3 DEF IInv, Typed, Work
  <2>2. CASE disturbed'
    BY <1>1, <2>2 DEF Shown
  <2>3. CASE ~disturbed'
    <3>1. ~disturbed /\ \A x, y \in Publishing' : x = y
      BY <1>1, <2>3, OneAtATime DEF Shown
    <3>2. "worker" \in Publishing'
      BY <2>1 DEF Publishing
    <3>3. DOMAIN counting = Publishers /\ "worker" \notin Publishers /\ "reset" # "worker"
      BY DEF Shown, Publishers
    <3>4. \A q \in Publishers : counting[q] = NotCounting
      BY <1>1, <3>1, <3>2, <3>3 DEF Publishing
    <3>5. settings.at # "publish"
      BY <1>1, <3>1, <3>2, <3>3 DEF Publishing
    <3>6. Publishing = {}
      BY <1>1, <3>3, <3>4, <3>5 DEF Publishing
    <3>7. published = Count
      BY <1>1, <3>1, <3>6 DEF Shown, Right
    <3>8. PICK c : c = worker.hand.commit
      OBVIOUS
    <3>9. Count' = Count + 1
      BY <1>1, <1>3, <3>8, OneMore
    <3>10. \A q \in Publishers : counting'[q].at # "publish"
      BY <1>1, <3>4 DEF NotCounting
    <3>11. Right'
      BY <1>1, <3>1, <3>2, <3>5, <3>7, <3>9, <3>10 DEF Right
    <3> QED BY <1>1, <3>11 DEF Shown
  <2> QED BY <2>2, <2>3
<1> QED BY <1>2, <1>3, PersistWrites

LEMMA PublishWrittenShown ==
  ASSUME IInv, Shown, NEW A, Watched(A), PublishWritten PROVE Shown'
<1>1. UNCHANGED <<stored, excluded, unknown, runs, active, counting, settings, up>>
      /\ worker.at = "publish" /\ up /\ published' = published + 1
  BY DEF PublishWritten, WorkerUnchanged, IInv, Off, Resting, database, stored
<1>2. worker'.at # "publish"
  BY ResumedPlace DEF PublishWritten
<1>3. published' \in Nat
  BY <1>1 DEF Shown
<1>4. CASE disturbed'
  BY <1>1, <1>3, <1>4 DEF Shown
<1>5. CASE ~disturbed'
  BY <1>1, <1>5, OneAtATime, <1>2, SameCount, <1>3 DEF Shown, Publishing, Publishers, Right,
     NotCounting
<1> QED BY <1>4, <1>5

LEMMA EraseShown ==
  ASSUME IInv, Shown, NEW A, Watched(A), Erase PROVE Shown'
<1>1. /\ UNCHANGED <<published, counting, worker, up>> /\ up /\ settings.at = "erase"
      /\ settings' = [at |-> "publish", less |-> published] /\ stored' = {}
  BY DEF Erase, CallUnchanged, thread, stored, IInv, Off, Idle
<1>2. CASE disturbed'
  BY <1>1, <1>2 DEF Shown
<1>3. CASE ~disturbed'
  BY <1>1, <1>3, OneAtATime DEF Shown, Publishing, Publishers, NotCounting, Right
<1> QED BY <1>2, <1>3

LEMMA PublishErasedShown ==
  ASSUME Shown, NEW A, Watched(A), PublishErased PROVE Shown'
<1>1. /\ UNCHANGED <<stored, excluded, unknown, runs, active, counting, worker, up>>
      /\ settings.at = "publish" /\ settings' = Idle /\ settings'.at # "publish"
      /\ published' = Less(published, settings.less)
  BY DEF PublishErased, CallUnchanged, thread, stored, database, Idle
<1>2. published' \in Nat
  BY <1>1 DEF Shown, Less
<1>3. CASE disturbed' \/ ~up
  BY <1>1, <1>2, <1>3 DEF Shown
<1>4. CASE ~disturbed' /\ up
  <2>1. ~disturbed /\ Right
    BY <1>1, <1>4, OneAtATime DEF Shown
  <2>2. "reset" \in Publishing
    BY <1>1 DEF Publishing
  <2>3. DOMAIN counting = Publishers /\ "reset" \notin Publishers /\ "reset" # "worker"
    BY DEF Shown, Publishers
  <2>4. \A q \in Publishers : counting[q] = NotCounting
    BY <2>1, <2>2, <2>3 DEF Publishing, Right
  <2>5. worker.at # "publish"
    BY <2>1, <2>2, <2>3 DEF Publishing, Right
  <2>6. Publishing' = {}
    BY <1>1, <2>3, <2>4, <2>5 DEF Publishing
  <2>7. published' = 0
    BY <1>1, <2>1 DEF Right, Less, Shown
  <2>8. Count' = 0
    BY <1>1, <2>1, FS_EmptySet DEF Right, Available, Count
  <2>9. \A q \in Publishers : counting'[q].at # "publish"
    BY <1>1, <2>4 DEF NotCounting
  <2>10. Right'
    BY <1>1, <2>5, <2>6, <2>7, <2>8, <2>9 DEF Right
  <2> QED BY <1>1, <1>2, <2>10 DEF Shown
<1> QED BY <1>3, <1>4

-----------------------------------------------------------------------------
(***************************************************************************)
(* Every step keeps the books                                              *)
(***************************************************************************)
LEMMA WorkerBooks ==
  ASSUME IInv, Books, Shown, NEW A, Watched(A), WorkerStep PROVE Books' /\ Shown'
<1> USE RestingState DEF Books, Forward
<1>1. Tended'
  BY WorkerTended
<1>2. CASE Persist
  BY <1>1, <1>2, PersistKept, PersistSecret, PersistShown
<1>3. CASE ~Persist
  <2>1. UNCHANGED <<WorkerUnchanged, database, lock, cached>> \/ PublishWritten
    BY <1>3 DEF WorkerStep, WorkerStart, TakeOperation, Finish, Wake, ReadClock, Write,
       RunClear, RunDiscard, RunCommit, Stage
  <2>2. UNCHANGED <<WorkerUnchanged, database, cached>>
    BY <2>1 DEF PublishWritten
  <2>3. Kept' /\ Secret'
    BY <2>2, SameKept, SameSecret DEF WorkerUnchanged, database
  <2>4. CASE PublishWritten
    BY <1>1, <2>3, <2>4, PublishWrittenShown
  <2>5. CASE WorkerStart \/ TakeOperation \/ Finish \/ Wake \/ ReadClock \/ Write \/ RunClear
             \/ RunDiscard \/ RunCommit \/ Stage
    <3>1. published' = published /\ worker.at # "publish"
      BY <2>5 DEF WorkerStart, TakeOperation, Finish, Wake, ReadClock, Write, RunClear,
         RunDiscard, RunCommit, Stage
    <3>2. worker'.at # "publish"
      <4>1. CASE WorkerStart \/ Wake \/ RunClear \/ RunDiscard \/ Stage
        BY <4>1 DEF WorkerStart, Wake, RunClear, RunDiscard, Stage
      <4>2. CASE TakeOperation
        BY <4>2 DEF TakeOperation, Resting
      <4>3. CASE Finish
        BY <4>3 DEF Finish, Resting
      <4>4. CASE ReadClock
        BY <4>4 DEF ReadClock, Resting
      <4>5. CASE Write \/ RunCommit
        <5>1. PICK w \in Work : w = worker
          BY DEF IInv, Typed
        <5>2. PICK hand : hand = IF Write THEN Head(staged) ELSE staged[Earlier]
          OBVIOUS
        <5>3. PICK due : due = w.due - 1
          OBVIOUS
        <5>4. CASE worker' = [w EXCEPT !.at = "persist", !.hand = hand, !.due = due]
          BY <5>4 DEF Work
        <5>5. CASE worker' = [w EXCEPT !.at = "persist", !.hand = hand]
          BY <5>5 DEF Work
        <5>6. CASE worker' = [w EXCEPT !.at = "stage"]
          BY <5>6 DEF Work
        <5>7. CASE Write
          <6>1. CASE w.due = 0
            <7>1. PICK at \in {"ended", "wait"} : worker' = Resting(at)
              BY <5>1, <5>7, <6>1 DEF Write
            <7> QED BY <7>1
          <6>2. CASE w.due # 0
            BY <5>2, <5>7, <5>1, <5>3, <6>2, <5>4 DEF Write
          <6> QED BY <6>1, <6>2
        <5>8. CASE RunCommit /\ ~Write
          BY <5>1, <5>2, <5>5, <5>6, <5>8 DEF RunCommit
        <5> QED BY <4>5, <5>7, <5>8
      <4> QED BY <2>5, <4>1, <4>2, <4>3, <4>4, <4>5
    <3>3. Shown'
      BY <2>2, <3>1, <3>2, CalmShown DEF WorkerUnchanged, database, stored
    <3> QED BY <1>1, <2>3, <3>3
  <2> QED BY <1>3, <2>4, <2>5 DEF WorkerStep
<1> QED BY <1>2, <1>3

LEMMA SettingsCallBooks ==
  ASSUME IInv, Books, Shown, NEW A, Watched(A), SettingsCall PROVE Books' /\ Shown'
<1> USE DEF Books
<1>0. UNCHANGED <<worker, lock>> => Tended'
  BY DEF Tended
<1>1. ASSUME NEW on \in BOOLEAN, Switch(on) PROVE Books' /\ Shown'
  BY <1>1, CalmShown, SwitchSecret DEF Switch, CallUnchanged, thread, stored, Kept,
     TrainedOnce, Tended, Idle
<1>2. CASE Reset
  BY <1>2, SameKept, CalmShown, ResetSecret DEF Reset, CallUnchanged, thread, database,
     stored, Tended, Idle
<1>3. CASE Configure
  BY <1>3, CalmShown, <1>0, ConfigureKept, ConfigureSecret DEF Configure, CallUnchanged,
     thread, stored
<1>4. ASSUME NEW c \in stored, DeletePending(c) PROVE Books' /\ Shown'
  BY <1>4, CountedShown, <1>0, DeleteKept, SameSecret DEF DeletePending, TrainingUnchanged,
     memory, thread, Call, Publishers
<1>5. ASSUME NEW selected \in SUBSET stored, ExcludeUnselected(selected, stored)
      PROVE  Books' /\ Shown'
  BY <1>5, CountedShown, <1>0, ExcludeKept, SameSecret DEF ExcludeUnselected,
     TrainingUnchanged, memory, thread, Call, Publishers
<1> QED BY <1>1, <1>2, <1>3, <1>4, <1>5 DEF SettingsCall

LEMMA SettingsStepBooks ==
  ASSUME IInv, Books, Shown, NEW A, Watched(A), SettingsStep PROVE Books' /\ Shown'
<1> USE DEF Books
<1>1. CASE Erase
  BY <1>1, EraseKept, EraseSecret, EraseShown DEF Erase, thread, Tended
<1>2. CASE ClearQueue \/ EraseFails \/ PublishErased
  <2>1. UNCHANGED <<database, stored, up, active, training, counting, worker, recording, cached,
                    generation>>
        /\ settings' = Idle /\ lock' = "free"
    BY <1>2 DEF ClearQueue, EraseFails, PublishErased, CallUnchanged, thread, database, stored
  <2>2. Kept'
    BY <2>1, SameKept DEF database
  <2>3. Secret'
    BY <2>1, SameSecret DEF database, Idle
  <2>4. Tended'
    BY <2>1 DEF Tended
  <2>5. CASE PublishErased
    BY <2>2, <2>3, <2>4, <2>5, PublishErasedShown
  <2>6. CASE ClearQueue \/ EraseFails
    BY <2>1, <2>6, <2>2, <2>3, <2>4, CalmShown DEF ClearQueue, EraseFails, Idle, database
  <2> QED BY <1>2, <2>5, <2>6
<1> QED BY <1>1, <1>2 DEF SettingsStep

LEMMA TrainingBooks ==
  ASSUME IInv, Books, Shown, NEW A, Watched(A), TrainingStep \/ CountStep PROVE Books' /\ Shown'
<1> USE DEF Books
<1>0. UNCHANGED <<settings, worker, lock, up, cached, recording, generation, key, protection, table,
                  trained>>
      => Tended' /\ Secret'
  BY SameSecret DEF Tended
<1>00. "training" \in Publishers
  BY DEF Publishers
<1>1. ASSUME NEW base \in Bases, Identify(base) PROVE Books' /\ Shown'
  BY <1>1, <1>00, CountedShown, <1>0, IdentifyKept DEF Identify, TrainingUnchanged, memory,
     thread, Call
<1>2. ASSUME NEW parent \in 0..Len(runs), NEW base \in Bases, NEW chosen \in SUBSET stored,
             ReadRecords(parent, base, chosen)
      PROVE  Books' /\ Shown'
  BY <1>2, CalmShown, <1>0, ReadKept DEF ReadRecords, TrainingUnchanged, memory, thread,
     counts, stored
<1>3. CASE Complete
  <2>1. UNCHANGED <<published, settings, worker, lock, up, cached, recording, generation, key,
                    protection, table, trained, stored, excluded, unknown, active>>
    BY <1>3 DEF Complete, TrainingUnchanged, memory, thread, stored
  <2>2. CASE StillAvailable
    BY <1>3, <2>2, <1>00, <2>1, CountedShown, <1>0, CompleteKept DEF Complete, Kept
  <2>3. CASE ~StillAvailable
    BY <1>3, <2>3, <2>1, CalmShown, <1>0, CompleteKept DEF Complete
  <2> QED BY <2>2, <2>3
<1>4. CASE CountStep
  <2>1. UNCHANGED <<settings, worker, lock, up, cached, recording, generation, key, protection,
                    table, trained, excluded, unknown, runs, training>>
    BY <1>4 DEF CountStep, CountNow, PublishCount, TrainingUnchanged, memory, thread
  <2>2. Kept'
    BY <2>1, SameKept
  <2>3. PICK p \in Publishers : CountNow(p) \/ PublishCount(p)
    BY <1>4 DEF CountStep, Shown
  <2>4. Shown'
    BY <2>3, CountNowShown, PublishCountShown
  <2> QED BY <1>0, <2>1, <2>2, <2>4
<1> QED BY <1>1, <1>2, <1>3, <1>4 DEF TrainingStep

LEMMA NextBooks ==
  ASSUME IInv, Books, Shown, [Next]_vars PROVE Books' /\ Shown'
<1>1. CASE UNCHANGED vars
  <2>1. UNCHANGED <<table, excluded, trained, unknown, protection, key, runs, up, recording,
                    generation, lock, published, active, counting, settings, training, worker,
                    cached, disturbed>>
    BY <1>1 DEF vars, database, memory, counts, thread
  <2>2. Kept' /\ Secret' /\ Tended'
    BY <2>1, SameKept, SameSecret DEF Books, Tended
  <2>3. Count' = Count /\ Publishing' = Publishing
    BY <2>1, SameCount DEF Publishing, stored
  <2>4. Shown'
    BY <2>1, <2>3 DEF Shown, Right, stored
  <2> QED BY <2>2, <2>4 DEF Books
<1>2. CASE Watched(Steps)
  <2>1. CASE Start
    BY <2>1, StartKept, StartSecret, RestingState, StartShown DEF Books, Start, Tended
  <2>2. CASE Kill \/ Joined
    <3>1. Gone
      BY <2>2 DEF Kill, Joined
    <3>2. Kept'
      BY <3>1, SameKept DEF Gone, database, Books
    <3>3. Secret'
      BY <3>1, OffSecret DEF Gone, Books
    <3>4. Tended'
      BY <3>1, RestingState DEF Gone, Tended
    <3> QED BY <3>1, <3>2, <3>3, <3>4, GoneShown DEF Books
  <2>3. CASE Stop \/ Tick \/ ClientStep
    <3>1. UNCHANGED <<database, stored, up, recording, generation, lock, published, active, counting,
                      settings, training, worker, cached>>
      BY <2>3 DEF Stop, Tick, ClientStep, RecordCommit, DiscardLastCommit, memory, counts, thread,
         database, stored
    <3>2. Kept' /\ Secret' /\ Tended'
      BY <3>1, SameKept, SameSecret DEF Books, Tended, database
    <3>3. Shown'
      BY <1>2, <3>1, CalmShown DEF database
    <3> QED BY <3>2, <3>3 DEF Books
  <2>4. CASE WorkerStep
    BY <1>2, <2>4, WorkerBooks
  <2>5. CASE SettingsCall
    BY <1>2, <2>5, SettingsCallBooks
  <2>6. CASE SettingsStep
    BY <1>2, <2>6, SettingsStepBooks
  <2>7. CASE TrainingStep \/ CountStep
    BY <1>2, <2>7, TrainingBooks
  <2>8. Steps
    BY <1>2 DEF Watched
  <2> QED BY <2>1, <2>2, <2>3, <2>4, <2>5, <2>6, <2>7, <2>8 DEF Steps
<1> QED BY <1>1, <1>2 DEF Next

LEMMA InitBooks == Init => Books /\ Shown
BY InitKept, InitSecret, InitTended, InitShown DEF Books

LEMMA AlwaysBooks == Spec => [](IInv /\ Books /\ Shown)
<1>1. IInv /\ Books /\ Shown /\ [Next]_vars => (IInv /\ Books /\ Shown)'
  BY NextInv, NextBooks
<1> QED BY InitInv, InitBooks, <1>1, PTL DEF Spec

\* What is stored, staged and in hand is well formed, and every commit stored
\* can be opened with the password that is set, whenever one is.
THEOREM AlwaysKept == Spec => []Bookkeeping
<1>1. IInv /\ Books /\ Shown => Bookkeeping
  BY BooksHold DEF Shown
<1> QED BY AlwaysBooks, <1>1, PTL

\* No commit is trained twice along a line of runs.
THEOREM NeverTwice == Spec => []TrainedOnce
<1>1. Books => TrainedOnce
  BY DEF Books, Kept
<1> QED BY AlwaysBooks, <1>1, PTL

\* The count shown is that of what can be trained, when nobody is publishing it
\* and no two have published it at once.
THEOREM AlwaysCounted == Spec => []CountShown
<1>1. Shown => CountShown
  BY DEF Shown, Right, CountShown, Count
<1> QED BY AlwaysBooks, <1>1, PTL
=============================================================================
