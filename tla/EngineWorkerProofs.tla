-------------------------- MODULE EngineWorkerProofs --------------------------
(***************************************************************************)
(* What EngineWorker keeps, for any number of calls, compositions and      *)
(* lives of the service.  Each part adds to the invariant of the one       *)
(* before it.                                                              *)
(*                                                                         *)
(*   CommitInv    equal numbers mean the same commit on both sides         *)
(*                  OnlyItsOwnDiscarded                                    *)
(*   AnswerInv    the shape of the state, and a prediction not answered is *)
(*                in one of the four places its answer comes from          *)
(*                  AnswerOnItsWayAlways, ImplementsBackend                *)
(*   InOrder      what was asked before a toggle has an earlier revision   *)
(*                  TogglesStandAlways                                     *)
(*   SettleInv    the pump sleeps for good only if a probe is to come, and *)
(*                the last task of each kind tells of what is              *)
(*                  SettlesOnTheServiceAlways                              *)
(***************************************************************************)
EXTENDS EngineWorkerProperties, WellFoundedInduction, FiniteSetTheorems, TLAPS

-----------------------------------------------------------------------------
(***************************************************************************)
(* Induction on numbers, in the form of the least element of a set.        *)
(***************************************************************************)
\* A set of numbers that is not empty has a least one.
LEMMA LeastNumber ==
  ASSUME NEW T, T \subseteq Nat, T # {}
  PROVE  \E x \in T : \A y \in T : x <= y
<1>1. IsWellFoundedOn(OpToRel(<, Nat), Nat) BY NatLessThanWellFounded
<1>2. PICK x \in T : \A y \in T : ~(<<y, x>> \in OpToRel(<, Nat)) BY <1>1, WFMin
<1>3. \A y \in T : ~(y < x) BY <1>2 DEF OpToRel
<1> QED BY <1>3

\* Induction over a set of numbers: it has all of them up to n if it has 0 and
\* with each number the next.
LEMMA UpTo ==
  ASSUME NEW n \in Nat, NEW Good, 0 \in Good,
         \A i \in 0..n : i \in Good /\ i # n => i + 1 \in Good
  PROVE  \A i \in 0..n : i \in Good
<1> DEFINE Bad == {i \in Nat : i <= n /\ i \notin Good}
<1> SUFFICES ASSUME Bad # {} PROVE FALSE
  OBVIOUS
<1>1. Bad \subseteq Nat OBVIOUS
<1>2. PICK x \in Bad : \A y \in Bad : x <= y
  <2> HIDE DEF Bad
  <2> QED BY <1>1, LeastNumber
<1>3. x \in 0..n /\ x \notin Good /\ x # 0 BY <1>2
<1>4. x - 1 \in 0..n /\ x - 1 # n /\ x - 1 + 1 = x BY <1>3
<1>5. x - 1 \in Good BY <1>2, <1>4
<1> QED BY <1>3, <1>4, <1>5

\* f begins with start and goes on with step.
Follows(f, V, start, n, step) ==
  f \in [0..n -> V] /\ f[0] = start /\ \A i \in 1..n : f[i] = step[i][f[i - 1]]

\* A value and a step from each value to the next define a function.
LEMMA Recursion ==
  ASSUME NEW V, NEW start \in V, NEW n \in Nat,
         NEW step, step \in [1..n -> [V -> V]]
  PROVE  \E f : Follows(f, V, start, n, step)
<1> DEFINE Good == {m \in 0..n : \E f : Follows(f, V, start, m, step)}
<1>1. 0 \in Good
  <2> DEFINE f == [i \in 0..0 |-> start]
  <2>1. Follows(f, V, start, 0, step) /\ 0 \in 0..n BY DEF Follows
  <2> HIDE DEF f
  <2> QED BY <2>1
<1>2. ASSUME NEW m \in 0..n, m \in Good, m # n PROVE m + 1 \in Good
  <2>1. PICK f : Follows(f, V, start, m, step)
    BY <1>2
  <2> DEFINE g == [i \in 0..(m + 1) |-> IF i = m + 1 THEN step[m + 1][f[m]] ELSE f[i]]
  <2>2. m + 1 \in 1..n /\ m + 1 \in 0..n BY <1>2
  <2>3. step[m + 1][f[m]] \in V BY <2>1, <2>2 DEF Follows
  <2>4. g \in [0..(m + 1) -> V] BY <2>1, <2>3 DEF Follows
  <2>5. g[0] = start BY <2>1 DEF Follows
  <2>6. ASSUME NEW i \in 1..(m + 1) PROVE g[i] = step[i][g[i - 1]]
    BY <2>1 DEF Follows
  <2>7. Follows(g, V, start, m + 1, step) BY <2>4, <2>5, <2>6 DEF Follows
  <2> HIDE DEF g
  <2> QED BY <2>2, <2>7
<1>3. \A i \in 0..n : i \in Good
  <2> HIDE DEF Good
  <2> QED BY <1>1, <1>2, UpTo
<1>4. n \in Good BY <1>3
<1> QED BY <1>4

-----------------------------------------------------------------------------
(***************************************************************************)
(* What Without leaves of a queue.  It is defined by recursion, so both    *)
(* that the recursion defines anything and what it computes are shown by   *)
(* induction on the length.                                                *)
(***************************************************************************)
\* The recursion of Without.
LEMMA ErasureStep ==
  ASSUME NEW S, NEW seq \in Seq(S), NEW gone
  PROVE  /\ Erasure(seq, gone) \in [0..Len(seq) -> Seq(S)]
         /\ Erasure(seq, gone)[0] = <<>>
         /\ \A i \in 1..Len(seq) :
              Erasure(seq, gone)[i] =
                IF seq[i] \in gone THEN Erasure(seq, gone)[i - 1]
                ELSE Append(Erasure(seq, gone)[i - 1], seq[i])
<1> DEFINE n == Len(seq)
           V == Seq(S)
           Longer(i, q) == IF seq[i] \in gone THEN q ELSE Append(q, seq[i])
           step == [i \in 1..n |-> [q \in V |-> Longer(i, q)]]
           Is(f) == f = [i \in 0..n |-> IF i = 0 THEN <<>>
                                        ELSE IF seq[i] \in gone THEN f[i - 1]
                                        ELSE Append(f[i - 1], seq[i])]
<1>1. n \in Nat /\ \A i \in 1..n : seq[i] \in S OBVIOUS
<1>2. \A i \in 1..n : \A q \in V : Longer(i, q) \in V BY <1>1
<1>3. <<>> \in V OBVIOUS
<1>4. \E f : Follows(f, V, <<>>, n, step)
  <2> HIDE DEF V, Longer, n, Is
  <2>1. step \in [1..n -> [V -> V]] BY <1>2
  <2> HIDE DEF step
  <2> QED BY <1>1, <1>3, <2>1, Recursion
<1>5. PICK f \in [0..n -> V] : f[0] = <<>> /\ \A i \in 1..n : f[i] = step[i][f[i - 1]]
  <2> HIDE DEF V, Longer, n, Is, step
  <2> QED BY <1>4 DEF Follows
<1>6. ASSUME NEW i \in 1..n PROVE f[i] = Longer(i, f[i - 1])
  <2>1. i - 1 \in 0..n BY <1>1
  <2>2. f[i - 1] \in V BY <1>5, <2>1
  <2> HIDE DEF V, Longer, n
  <2>3. step[i][f[i - 1]] = Longer(i, f[i - 1]) BY <2>2
  <2> QED BY <1>5, <2>3
<1>7. Is(f)
  <2>1. \A i \in 0..n : f[i] = IF i = 0 THEN <<>> ELSE Longer(i, f[i - 1])
    <3> HIDE DEF V, Longer
    <3> QED BY <1>1, <1>5, <1>6
  <2>2. f = [i \in 0..n |-> IF i = 0 THEN <<>> ELSE Longer(i, f[i - 1])]
    <3> HIDE DEF V, Longer
    <3> QED BY <1>5, <2>1
  <2> QED BY <2>2
<1>8. Is(Erasure(seq, gone)) BY <1>7 DEF Erasure
<1>9. ASSUME NEW g, Is(g) PROVE g = f
  <2> DEFINE Good == {m \in 0..n : g[m] = f[m]}
  <2>0. g = [i \in 0..n |-> IF i = 0 THEN <<>> ELSE Longer(i, g[i - 1])] BY <1>9
  <2> HIDE DEF Longer, V, Is, n
  <2>1. 0 \in Good BY <1>1, <1>5, <2>0
  <2>2. ASSUME NEW m \in 0..n, m \in Good, m # n PROVE m + 1 \in Good
    BY <1>1, <2>2, <2>0, <1>6
  <2>3. \A i \in 0..n : i \in Good
    <3> HIDE DEF Good
    <3> QED BY <1>1, <2>1, <2>2, UpTo
  <2> QED BY <1>5, <2>0, <2>3
<1>10. Erasure(seq, gone) = f BY <1>8, <1>9
<1> HIDE DEF Is
<1> QED BY <1>5, <1>6, <1>10

\* q holds what seq has up to n outside gone, in the same order: at tells where
\* each element was.
Left(q, at, seq, n, gone) ==
  /\ at \in [1..Len(q) -> 1..n]
  /\ \A i, k \in 1..Len(q) : i < k => at[i] < at[k]
  /\ \A i \in 1..Len(q) : q[i] = seq[at[i]] /\ seq[at[i]] \notin gone
  /\ \A k \in 1..n : seq[k] \notin gone => \E i \in 1..Len(q) : at[i] = k

\* One more element that goes, and one that stays.
LEMMA LeftGone ==
  ASSUME NEW S, NEW seq, NEW gone, NEW n \in Nat, NEW q \in Seq(S), NEW at,
         Left(q, at, seq, n, gone), seq[n + 1] \in gone
  PROVE  Left(q, at, seq, n + 1, gone)
<1>1. at \in [1..Len(q) -> 1..(n + 1)] BY DEF Left
<1>2. \A k \in 1..(n + 1) : seq[k] \notin gone => \E i \in 1..Len(q) : at[i] = k
  <2> TAKE k \in 1..(n + 1)
  <2> HAVE seq[k] \notin gone
  <2>1. k \in 1..n OBVIOUS
  <2> QED BY <2>1 DEF Left
<1> QED BY <1>1, <1>2 DEF Left

LEMMA LeftKept ==
  ASSUME NEW S, NEW seq, NEW gone, NEW n \in Nat, NEW q \in Seq(S), NEW at,
         Left(q, at, seq, n, gone), seq[n + 1] \notin gone, seq[n + 1] \in S
  PROVE  \E to : Left(Append(q, seq[n + 1]), to, seq, n + 1, gone)
<1> DEFINE m == Len(q)
           more == Append(q, seq[n + 1])
           to == [i \in 1..(m + 1) |-> IF i = m + 1 THEN n + 1 ELSE at[i]]
<1>1. m \in Nat /\ Len(more) = m + 1 OBVIOUS
<1>2. \A i \in 1..m : at[i] \in 1..n BY DEF Left
<1>3. /\ to \in [1..(m + 1) -> 1..(n + 1)]
      /\ to[m + 1] = n + 1 /\ \A i \in 1..m : to[i] = at[i]
  BY <1>1, <1>2
<1>4. more[m + 1] = seq[n + 1] /\ \A i \in 1..m : more[i] = q[i] OBVIOUS
<1> HIDE DEF to, more, m
<1>5. \A i, k \in 1..(m + 1) : i < k => to[i] < to[k]
  <2> TAKE i, k \in 1..(m + 1)
  <2> HAVE i < k
  <2>1. i \in 1..m BY <1>1
  <2>2. CASE k = m + 1 BY <1>2, <1>3, <2>1, <2>2
  <2>3. CASE k \in 1..m BY <1>1, <1>3, <2>1, <2>3 DEF Left, m
  <2> QED BY <1>1, <2>2, <2>3
<1>6. \A i \in 1..(m + 1) : more[i] = seq[to[i]] /\ seq[to[i]] \notin gone
  <2> TAKE i \in 1..(m + 1)
  <2>1. CASE i = m + 1 BY <1>3, <1>4, <2>1
  <2>2. CASE i \in 1..m BY <1>3, <1>4, <2>2 DEF Left, m
  <2> QED BY <1>1, <2>1, <2>2
<1>7. \A k \in 1..(n + 1) : seq[k] \notin gone => \E i \in 1..(m + 1) : to[i] = k
  <2> TAKE k \in 1..(n + 1)
  <2> HAVE seq[k] \notin gone
  <2>1. CASE k = n + 1 BY <1>1, <1>3, <2>1
  <2>2. CASE k \in 1..n
    <3>1. PICK i \in 1..m : at[i] = k BY <2>2 DEF Left, m
    <3> QED BY <1>1, <1>3, <3>1
  <2> QED BY <2>1, <2>2
<1>8. Left(more, to, seq, n + 1, gone) BY <1>1, <1>3, <1>5, <1>6, <1>7 DEF Left
<1> QED BY <1>8 DEF more

\* Without leaves the other elements, in their order, and nothing else.
LEMMA WithoutLeaves ==
  ASSUME NEW S, NEW seq \in Seq(S), NEW gone
  PROVE  /\ Without(seq, gone) \in Seq(S)
         /\ \E at : Left(Without(seq, gone), at, seq, Len(seq), gone)
<1> DEFINE e == Erasure(seq, gone)
           n == Len(seq)
           Good == {m \in 0..n : \E at : Left(e[m], at, seq, m, gone)}
<1>1. n \in Nat /\ \A i \in 1..n : seq[i] \in S OBVIOUS
<1>2. /\ e \in [0..n -> Seq(S)] /\ e[0] = <<>>
      /\ \A i \in 1..n : e[i] = IF seq[i] \in gone THEN e[i - 1] ELSE Append(e[i - 1], seq[i])
  BY ErasureStep
<1> HIDE DEF e, n
<1>3. 0 \in Good
  <2> DEFINE at == [i \in 1..0 |-> i]
  <2>1. Len(e[0]) = 0 BY <1>2
  <2>2. at \in [1..0 -> 1..0] OBVIOUS
  <2>3. Left(e[0], at, seq, 0, gone) BY <2>1, <2>2 DEF Left
  <2> HIDE DEF at
  <2> QED BY <1>1, <2>3
<1>4. ASSUME NEW m \in 0..n, m \in Good, m # n PROVE m + 1 \in Good
  <2>1. m \in Nat /\ m + 1 \in 1..n /\ m + 1 \in 0..n /\ m + 1 - 1 = m BY <1>1, <1>4
  <2>2. e[m] \in Seq(S) BY <1>2
  <2>3. PICK at : Left(e[m], at, seq, m, gone) BY <1>4
  <2>4. CASE seq[m + 1] \in gone
    <3>1. e[m + 1] = e[m] BY <1>2, <2>1, <2>4
    <3>2. Left(e[m + 1], at, seq, m + 1, gone) BY <2>1, <2>2, <2>3, <2>4, <3>1, LeftGone
    <3> QED BY <2>1, <3>2
  <2>5. CASE seq[m + 1] \notin gone
    <3>1. e[m + 1] = Append(e[m], seq[m + 1])
      <4>1. \A i \in 1..n : seq[i] \notin gone => e[i] = Append(e[i - 1], seq[i]) BY <1>2
      <4> QED BY <2>1, <2>5, <4>1
    <3>2. seq[m + 1] \in S BY <1>1, <2>1
    <3>3. \E to : Left(Append(e[m], seq[m + 1]), to, seq, m + 1, gone)
      BY <2>1, <2>2, <2>3, <2>5, <3>2, LeftKept
    <3> QED BY <2>1, <3>1, <3>3
  <2> QED BY <2>4, <2>5
<1>5. \A i \in 0..n : i \in Good
  <2> HIDE DEF Good
  <2> QED BY <1>1, <1>3, <1>4, UpTo
<1>6. n \in Good /\ e[n] \in Seq(S) BY <1>1, <1>2, <1>5
<1> QED BY <1>6 DEF Without, e, n

\* A sequence that has lost an element is shorter.
LEMMA LeftShorter ==
  ASSUME NEW S, NEW q \in Seq(S), NEW at, NEW seq, NEW n \in Nat, NEW gone,
         Left(q, at, seq, n, gone)
  PROVE  /\ Len(q) <= n
         /\ \A j \in 1..n : seq[j] \in gone => Len(q) < n
<1> DEFINE m == Len(q)
<1>0. m \in Nat OBVIOUS
<1>2. IsFiniteSet(1..n) /\ Cardinality(1..n) = n
  BY FS_Interval
<1>3. at \in [1..m -> 1..n] /\ \A i, k \in 1..m : at[i] = at[k] => i = k
  BY DEF Left
<1>4. \A i \in 1..m : seq[at[i]] \notin gone BY DEF Left
<1> HIDE DEF m
<1>1. IsFiniteSet(1..m) /\ Cardinality(1..m) = m
  BY <1>0, FS_Interval
<1>5. at \in Injection(1..m, 1..n) BY <1>3 DEF Injection, IsInjective
<1>6. m <= n BY <1>1, <1>2, <1>5, FS_Injection
<1>7. ASSUME NEW j \in 1..n, seq[j] \in gone PROVE m < n
  <2> DEFINE T == (1..n) \ {j}
  <2>1. IsFiniteSet(T) /\ Cardinality(T) = n - 1 BY <1>2, FS_RemoveElement
  <2>2. at \in [1..m -> T] BY <1>3, <1>4, <1>7
  <2> HIDE DEF T
  <2>3. at \in Injection(1..m, T) BY <1>3, <2>2 DEF Injection, IsInjective
  <2>4. Cardinality(1..m) <= Cardinality(T) BY <2>1, <2>3, FS_Injection
  <2> QED BY <1>0, <1>1, <2>1, <2>4
<1> QED BY <1>6, <1>7 DEF m

-----------------------------------------------------------------------------
(***************************************************************************)
(* Discarding.  The two sides agree on a commit by its number on the wire. *)
(* The worker remembers the last commit recorded and the number it went    *)
(* by, the service the last number it got through this connection.  Queues *)
(* and tasks play no part in it.                                           *)
(***************************************************************************)

\* The records have the fields that are assigned.
IsState ==
  /\ memory = [recorded |-> memory.recorded, through |-> memory.through, wire |-> memory.wire]
  /\ service = [up |-> service.up, id |-> service.id, mode |-> service.mode,
                latest |-> service.latest]

\* Numbers are used in order, and none is remembered that was not used.
NumbersUsed ==
  /\ memory.wire \in Nat
  /\ memory.through \in 0..memory.wire
  /\ service.latest.wire \in 0..memory.wire

SameNumberSameCommit ==
  memory.through # 0 /\ service.latest.wire = memory.through
    => service.latest.commit = memory.recorded

\* What the job under way has made sure of before it was sent.
Prepared ==
  pump \in {"send", "io"} =>
    /\ job.kind = "record" => job.about = memory.recorded /\ memory.through = 0
    /\ job.kind = "discard" => job.about = memory.recorded /\ memory.through # 0

CommitInv == IsState /\ NumbersUsed /\ SameNumberSameCommit /\ Prepared /\ DiscardsItsOwn

LEMMA InitCommit == Init => CommitInv
  BY DEF Init, CommitInv, IsState, NumbersUsed, SameNumberSameCommit, Prepared, DiscardsItsOwn,
         NoCommit, NoLatest

\* Nothing the invariant speaks of changes but the pump's place.
LEMMA Frame ==
  ASSUME CommitInv, UNCHANGED <<memory, service, job, discards>>,
         pump' \in {"send", "io"} => pump \in {"send", "io"}
  PROVE  CommitInv'
  BY DEF CommitInv, IsState, NumbersUsed, SameNumberSameCommit, Prepared, DiscardsItsOwn

\* The text service's calls and tasks touch neither the pump nor the service.
LEMMA UiInv ==
  ASSUME CommitInv, UiCall \/ UiStep
  PROVE  CommitInv'
<1>1. CASE UiCall
  <2>1. UNCHANGED <<memory, service, pump, job, discards>>
    BY <1>1 DEF UiCall, RefreshInputMode, ToggleInputMode, Ready, Prefill, Predict,
                RecordCommit, DiscardCommit, Close, Call, worker, outside
  <2> QED BY <2>1, Frame
<1>2. CASE UiStep
  <2>1. UNCHANGED <<memory, service, pump, job, discards>>
    BY <1>2 DEF UiStep, TellSuperseded, TakeState, TakeMode, TakeResult, TakeRetry, Take,
                Destroy, Join, worker, outside
  <2> QED BY <2>1, Frame
<1> QED BY <1>1, <1>2

\* The steps of the pump up to the transfer.
LEMMA PumpInv ==
  ASSUME CommitInv, PumpStep
  PROVE  CommitInv'
<1>1. CASE Start \/ Waken \/ Probe \/ Skip \/ Fail
  BY <1>1, Frame DEF Start, Waken, Probe, Skip, Fail, outside
<1>2. CASE Check
  BY <1>2 DEF Check, outside, CommitInv, IsState, NumbersUsed, SameNumberSameCommit,
     Prepared, DiscardsItsOwn
<1>3. ASSUME memory' = Remembered
      PROVE  /\ memory' = [recorded |-> memory'.recorded, through |-> memory'.through,
                           wire |-> memory'.wire]
             /\ memory'.wire = memory.wire
             /\ job.kind = "record" => memory'.recorded = job.about /\ memory'.through = 0
             /\ job.kind # "record" => memory' = memory
  BY <1>3 DEF Remembered, CommitInv, IsState
<1>4. CASE Connect
  BY <1>4, <1>3 DEF Connect, CommitInv, IsState, NoLatest, NumbersUsed,
     SameNumberSameCommit, Prepared, Needless, DiscardsItsOwn
<1>5. CASE CannotConnect
  BY <1>5, <1>3 DEF CannotConnect, outside, CommitInv, IsState, NumbersUsed,
     SameNumberSameCommit, Prepared, DiscardsItsOwn
<1>6. CASE Transfer
  BY <1>6 DEF Transfer, outside, CommitInv, IsState, NumbersUsed, SameNumberSameCommit,
     Prepared, DiscardsItsOwn
<1> QED BY <1>1, <1>2, <1>4, <1>5, <1>6 DEF PumpStep

\* The service handles the request, and the worker learns that it was sent.
LEMMA CompleteInv ==
  ASSUME CommitInv, Complete
  PROVE  CommitInv'
BY DEF Complete, Discarded, CommitInv, Prepared, SameNumberSameCommit, DiscardsItsOwn,
   Served, IsState, NumbersUsed

\* A new service process knows no number; one that ends takes nothing along.
LEMMA ServiceInv ==
  ASSUME CommitInv, ServiceStarts \/ ServiceEnds
  PROVE  CommitInv'
BY DEF ServiceStarts, ServiceEnds, worker, CommitInv, IsState, NumbersUsed,
   SameNumberSameCommit, Prepared, DiscardsItsOwn, NoLatest

LEMMA NextCommit == CommitInv /\ [Next]_vars => CommitInv'
<1> SUFFICES ASSUME CommitInv, [Next]_vars PROVE CommitInv'
  OBVIOUS
<1>1. CASE UNCHANGED vars BY <1>1, Frame DEF vars, worker, outside
<1>2. CASE Next BY <1>2, UiInv, PumpInv, CompleteInv, ServiceInv DEF Next
<1> QED BY <1>1, <1>2

\* A discard reaches the commit it was asked for, or none (discard_commit,
\* handle_client), whatever was recorded, lost or reconnected in between.
THEOREM OnlyItsOwnDiscarded == Spec => []DiscardsItsOwn
<1>1. CommitInv => DiscardsItsOwn BY DEF CommitInv
<1> QED BY <1>1, InitCommit, NextCommit, PTL DEF Spec

-----------------------------------------------------------------------------
(***************************************************************************)
(* The shape of the state, which says of every queued job and posted task  *)
(* what it is about.                                                       *)
(***************************************************************************)

JobShape  == [kind : Kinds, group : Groups \union {0}, about : Nat]
Values    == {"", "Connected", "Unavailable"} \union Modes \union Backend!Results
TaskShape == [task : {"state", "mode", "result", "retry"}, value : Values, about : Nat]

ForTheGroup(j) ==
  j.kind = "predict" => j.about \in DOMAIN requests /\ j.group = requests[j.about].group

Tells(t) ==
  /\ t.task = "state" => t.value \in {"Connected", "Unavailable"}
  /\ t.task = "mode" => t.value \in Modes
  /\ t.task = "result" =>
       /\ t.about \in DOMAIN requests /\ t.value \in Backend!Results
       /\ t.value = "superseded" => Backend!MadeLater(t.about)

RequestsShape ==
  /\ requests \in Seq(Backend!Request)
  /\ untold \subseteq DOMAIN requests /\ \A s \in untold : Backend!MadeLater(s)
UiShape ==
  /\ ui \in [mode : Modes, revision : Nat, backend : {"Connected", "Unavailable"}]
  /\ commits \in Nat
InboxShape == inbox \in Seq(TaskShape) /\ \A i \in 1..Len(inbox) : Tells(inbox[i])
JobsShape  == jobs \in Seq(JobShape) /\ \A i \in 1..Len(jobs) : ForTheGroup(jobs[i])
PumpShape ==
  /\ pump \in {"starting", "check", "doze", "sleep", "begin", "send", "io", "ended"}
  /\ Busy => job \in JobShape /\ ForTheGroup(job)
ServiceShape == pipe \in 0..service.id /\ service.id \in Nat /\ service.mode \in Modes
OwnerShape ==
  /\ owner \in {"running", "closing", "joining", "gone"}
  /\ stopping \/ aborted => owner # "running"

Shape ==
  /\ RequestsShape /\ UiShape /\ InboxShape /\ JobsShape /\ PumpShape /\ ServiceShape
  /\ OwnerShape

\* Requests are only added, and keep their group.
GroupsKept ==
  /\ requests \in Seq(Backend!Request) /\ requests' \in Seq(Backend!Request)
  /\ Len(requests) <= Len(requests')
  /\ \A s \in 1..Len(requests) : requests'[s].group = requests[s].group

\* What submit leaves of the queue: the first m jobs are the old ones that are
\* not replaced, in their order.
Submitted(new, m, at) ==
  /\ m \in Nat /\ jobs' \in Seq(JobShape) /\ Len(jobs') = m + 1 /\ jobs'[m + 1] = new
  /\ at \in [1..m -> 1..Len(jobs)]
  /\ \A i, k \in 1..m : i < k => at[i] < at[k]
  /\ \A i \in 1..m : jobs'[i] = jobs[at[i]] /\ ~Replaces(new, jobs[at[i]])
  /\ \A k \in 1..Len(jobs) : ~Replaces(new, jobs[k]) => \E i \in 1..m : at[i] = k

LEMMA AfterSubmit ==
  ASSUME JobsShape, NEW new \in JobShape, ~stopping, Submit(new)
  PROVE  /\ \E m, at : Submitted(new, m, at)
         /\ untold' = IF new.kind # "predict" THEN {}
                      ELSE {jobs[i].about : i \in {k \in 1..Len(jobs) : Replaces(new, jobs[k])}}
<1> DEFINE gone == Replaced(new)
           q == Without(jobs, gone)
<1>1. jobs \in Seq(JobShape) BY DEF JobsShape
<1>2. gone = {jobs[i] : i \in {k \in 1..Len(jobs) : Replaces(new, jobs[k])}}
  BY <1>1 DEF Replaced
<1>3. \A k \in 1..Len(jobs) : jobs[k] \in gone <=> Replaces(new, jobs[k]) BY <1>2
<1>4. jobs' = Append(q, new) /\ untold' = IF new.kind # "predict" THEN {} ELSE {old.about : old \in gone}
  BY DEF Submit
<1> HIDE DEF gone
<1>5. q \in Seq(JobShape) /\ \E at : Left(q, at, jobs, Len(jobs), gone) BY <1>1, WithoutLeaves
<1> HIDE DEF q
<1>6. PICK at : Left(q, at, jobs, Len(jobs), gone) BY <1>5
<1>7. /\ Len(q) \in Nat /\ jobs' \in Seq(JobShape) /\ Len(jobs') = Len(q) + 1
      /\ jobs'[Len(q) + 1] = new /\ \A i \in 1..Len(q) : jobs'[i] = q[i]
  BY <1>4, <1>5
<1>8. /\ at \in [1..Len(q) -> 1..Len(jobs)]
      /\ \A i, k \in 1..Len(q) : i < k => at[i] < at[k]
      /\ \A i \in 1..Len(q) : q[i] = jobs[at[i]] /\ jobs[at[i]] \notin gone
      /\ \A k \in 1..Len(jobs) : jobs[k] \notin gone => \E i \in 1..Len(q) : at[i] = k
  BY <1>6 DEF Left
<1>9. \A i \in 1..Len(q) : at[i] \in 1..Len(jobs) BY <1>8
<1>10. \A i \in 1..Len(q) : jobs'[i] = jobs[at[i]] /\ ~Replaces(new, jobs[at[i]])
  BY <1>3, <1>7, <1>8, <1>9
<1>11. \A k \in 1..Len(jobs) : ~Replaces(new, jobs[k]) => \E i \in 1..Len(q) : at[i] = k
  BY <1>3, <1>8
<1>12. Submitted(new, Len(q), at) BY <1>7, <1>8, <1>10, <1>11 DEF Submitted
<1>13. {old.about : old \in gone}
         = {jobs[i].about : i \in {k \in 1..Len(jobs) : Replaces(new, jobs[k])}}
  BY <1>2
<1> QED BY <1>4, <1>12, <1>13

\* Tasks are added at the end while the worker is the text service's.
LEMMA AfterPost ==
  ASSUME NEW tasks, Post(tasks), inbox \in Seq(TaskShape), tasks \in Seq(TaskShape)
  PROVE  /\ inbox' \in Seq(TaskShape)
         /\ owner = "running" =>
              /\ Len(inbox') = Len(inbox) + Len(tasks)
              /\ \A i \in 1..Len(inbox) : inbox'[i] = inbox[i]
              /\ \A i \in 1..Len(tasks) : inbox'[Len(inbox) + i] = tasks[i]
         /\ owner # "running" => inbox' = inbox
  BY DEF Post

\* Take removes the first task.
LEMMA AfterTake ==
  ASSUME NEW task, Take(task), inbox \in Seq(TaskShape)
  PROVE  /\ Len(inbox) > 0 /\ Head(inbox) = inbox[1] /\ inbox[1].task = task
         /\ inbox' \in Seq(TaskShape) /\ Len(inbox') = Len(inbox) - 1
         /\ \A i \in 1..Len(inbox') : i + 1 \in 1..Len(inbox) /\ inbox'[i] = inbox[i + 1]
BY DEF Take

LEMMA GroupsStay ==
  ASSUME GroupsKept
  PROVE  /\ \A s \in 1..Len(requests) : s \in 1..Len(requests')
         /\ \A j : ForTheGroup(j) => ForTheGroup(j)'
         /\ \A s \in 1..Len(requests) : Backend!MadeLater(s) => Backend!MadeLater(s)'
         /\ \A t : Tells(t) => Tells(t)'
BY DEF GroupsKept, Backend!MadeLater, ForTheGroup, Tells

\* Whatever changes otherwise, these parts only see requests.
LEMMA ShapeFrame ==
  ASSUME Shape, GroupsKept
  PROVE  /\ UNCHANGED untold => RequestsShape'
         /\ UNCHANGED jobs => JobsShape'
         /\ UNCHANGED inbox => InboxShape'
         /\ UNCHANGED <<pump, job>> => PumpShape'
BY GroupsStay DEF Shape, GroupsKept, RequestsShape, JobsShape, InboxShape, PumpShape, Busy

LEMMA SameRequests ==
  ASSUME Shape, UNCHANGED requests
  PROVE  GroupsKept
BY DEF Shape, RequestsShape, GroupsKept

\* Submitting a job that is not a prediction.
LEMMA SubmitShape ==
  ASSUME Shape, UNCHANGED requests, NEW new \in JobShape, new.kind # "predict", Submit(new)
  PROVE  RequestsShape' /\ JobsShape'
<1>0. GroupsKept BY SameRequests
<1>1. CASE stopping
  BY <1>1, <1>0, ShapeFrame DEF Submit
<1>2. CASE ~stopping
  <2>1. JobsShape /\ RequestsShape BY DEF Shape
  <2>2. untold' = {} BY <1>2, <2>1, AfterSubmit
  <2>3. RequestsShape' BY <2>1, <2>2 DEF RequestsShape
  <2>4. PICK m, at : Submitted(new, m, at) BY <1>2, <2>1, AfterSubmit
  <2>5. \A i \in 1..Len(jobs') : ForTheGroup(jobs[i])'
    <3> TAKE i \in 1..Len(jobs')
    <3>1. CASE i = m + 1 BY <2>4, <3>1 DEF Submitted, ForTheGroup
    <3>2. CASE i \in 1..m
      BY <2>4, <3>2, <2>1, <1>0, GroupsStay DEF Submitted, JobsShape, ForTheGroup
    <3> QED BY <2>4, <3>1, <3>2 DEF Submitted
  <2> QED BY <2>3, <2>4, <2>5 DEF JobsShape, Submitted
<1> QED BY <1>1, <1>2

\* What a call leaves alone.
LEMMA CallFrame ==
  ASSUME Shape, NEW operation, Call(operation)
  PROVE  /\ owner = "running" /\ owner' = "running" /\ untold = {} /\ ~stopping
         /\ UNCHANGED <<inbox, stopping, retryPosted, pump, job, memory, pipe, aborted, service,
                        discards, owner>>
         /\ ServiceShape' /\ OwnerShape' /\ operation \in calls.among
         /\ calls' = [calls EXCEPT !.left = @ - 1]
BY DEF Shape, Call, UiFree, transport, ServiceShape, OwnerShape

\* A call that makes no prediction.
LEMMA CallShape ==
  ASSUME Shape, NEW operation, Call(operation), UNCHANGED requests, UiShape',
         NEW new \in JobShape, new.kind # "predict", Submit(new)
  PROVE  Shape'
BY CallFrame, SameRequests, SubmitShape, ShapeFrame DEF Shape

LEMMA JobsThere ==
  ASSUME NEW kind \in Kinds, NEW group \in Groups \union {0}, NEW about \in Nat
  PROVE  /\ Job(kind, group, about) \in JobShape
         /\ Job(kind, group, about).kind = kind /\ Job(kind, group, about).group = group
         /\ Job(kind, group, about).about = about
  BY DEF Job, JobShape

LEMMA KindsThere == {"query", "toggle", "ready", "prefill", "predict", "record", "discard"} = Kinds
  BY DEF Kinds, Coalesced

\* A prediction adds a request, and a job for it.
LEMMA PredictShape ==
  ASSUME Shape, NEW group \in Groups, Predict(group)
  PROVE  /\ Shape' /\ GroupsKept
         /\ requests' = Append(requests, [group |-> group, status |-> "pending"])
         /\ Len(requests') = Len(requests) + 1
         /\ \A s \in 1..Len(requests) : requests'[s] = requests[s]
         /\ requests'[Len(requests) + 1] = [group |-> group, status |-> "pending"]
<1> DEFINE n == Len(requests) + 1
           new == Job("predict", group, n)
<1>1. /\ requests' = Append(requests, [group |-> group, status |-> "pending"])
      /\ Submit(new) /\ Call("predict") /\ UNCHANGED <<ui, commits>>
  BY DEF Predict
<1>2. /\ ServiceShape' /\ OwnerShape' /\ UNCHANGED <<inbox, pump, job>> /\ ~stopping
  BY <1>1, CallFrame
<1>3. requests \in Seq(Backend!Request) BY DEF Shape, RequestsShape
<1>4. [group |-> group, status |-> "pending"] \in Backend!Request BY DEF Backend!Request
<1>5. /\ requests' \in Seq(Backend!Request) /\ Len(requests') = n /\ n \in Nat
      /\ \A s \in 1..Len(requests) : requests'[s] = requests[s]
      /\ requests'[n] = [group |-> group, status |-> "pending"]
  BY <1>1, <1>3, <1>4
<1>6. GroupsKept BY <1>3, <1>5 DEF GroupsKept
<1>7. new \in JobShape /\ new.kind = "predict" /\ new.group = group /\ new.about = n
  <2>1. "predict" \in Kinds BY KindsThere
  <2>2. n \in Nat /\ group \in Groups \union {0} BY <1>5
  <2> HIDE DEF n
  <2> QED BY <2>1, <2>2, JobsThere
<1>8. JobsShape /\ UiShape BY DEF Shape
<1> HIDE DEF new
<1>9. PICK m, at : Submitted(new, m, at) BY <1>1, <1>2, <1>7, <1>8, AfterSubmit
<1>10. JobsShape'
  <2>1. \A i \in 1..Len(jobs') : ForTheGroup(jobs[i])'
    <3> TAKE i \in 1..Len(jobs')
    <3>1. CASE i = m + 1
      BY <1>9, <3>1, <1>5, <1>7 DEF Submitted, ForTheGroup
    <3>2. CASE i \in 1..m
      <4>1. jobs'[i] = jobs[at[i]] /\ at[i] \in 1..Len(jobs) BY <1>9, <3>2 DEF Submitted
      <4>2. ForTheGroup(jobs[at[i]]) BY <1>8, <4>1 DEF JobsShape
      <4> QED BY <1>6, <4>1, <4>2, GroupsStay DEF ForTheGroup
    <3> QED BY <1>9, <3>1, <3>2 DEF Submitted
  <2> QED BY <1>9, <2>1 DEF JobsShape, Submitted
<1>11. RequestsShape'
  <2>1. untold' = {jobs[i].about : i \in {k \in 1..Len(jobs) : Replaces(new, jobs[k])}}
    BY <1>1, <1>2, <1>7, <1>8, AfterSubmit
  <2>2. ASSUME NEW s \in untold'
        PROVE  s \in DOMAIN requests' /\ Backend!MadeLater(s)'
    <3>1. PICK i \in 1..Len(jobs) : Replaces(new, jobs[i]) /\ s = jobs[i].about BY <2>1
    <3>2. jobs[i].kind = "predict" /\ jobs[i].group = group BY <1>7, <3>1 DEF Replaces
    <3>3. s \in DOMAIN requests /\ requests[s].group = group
      BY <1>8, <3>1, <3>2 DEF JobsShape, ForTheGroup
    <3>4. s \in 1..Len(requests) BY <1>3, <3>3
    <3>5. n \in DOMAIN requests' /\ n > s /\ requests'[n].group = requests'[s].group
      BY <1>3, <1>5, <3>3, <3>4
    <3> QED BY <1>5, <3>4, <3>5 DEF Backend!MadeLater
  <2> QED BY <1>5, <2>2 DEF RequestsShape
<1>12. UiShape' BY <1>1, <1>8 DEF UiShape
<1>13. Shape' BY <1>2, <1>6, <1>10, <1>11, <1>12, ShapeFrame DEF Shape
<1> QED BY <1>1, <1>5, <1>6, <1>13
AsksMode(j) == j.kind \in {"query", "toggle"}

StateOf(p) == IF p = 0 THEN "Unavailable" ELSE "Connected"

\* What the text service may be told of the job under way.
Answers(answer) ==
  /\ answer \in Values
  /\ AsksMode(job) => answer \in Modes
  /\ job.kind = "predict" => answer \in {"converted", "lost"}

LEMMA ToldTasks ==
  ASSUME Shape, Busy, NEW p, NEW answer, Answers(answer)
  PROVE  /\ Told(p, answer) \in Seq(TaskShape)
         /\ \/ /\ AsksMode(job) /\ Len(Told(p, answer)) = 2
               /\ Told(p, answer)[1].task = "state" /\ Told(p, answer)[1].value = StateOf(p)
               /\ Told(p, answer)[2].task = "mode" /\ Told(p, answer)[2].value = answer
               /\ Told(p, answer)[2].about = job.about
            \/ /\ job.kind = "predict" /\ Len(Told(p, answer)) = 2
               /\ Told(p, answer)[1].task = "state" /\ Told(p, answer)[1].value = StateOf(p)
               /\ Told(p, answer)[2].task = "result" /\ Told(p, answer)[2].value = answer
               /\ Told(p, answer)[2].about = job.about
            \/ ~AsksMode(job) /\ job.kind # "predict" /\ Told(p, answer) = <<>>
<1>1. job \in JobShape BY DEF Shape, PumpShape
<1>2. job.about \in Nat BY <1>1 DEF JobShape
<1>3. answer \in Values BY DEF Answers
<1>4. /\ StateTask(p) \in TaskShape /\ StateTask(p).task = "state"
      /\ StateTask(p).value = StateOf(p)
  BY DEF StateOf, Values, StateTask, TaskShape
<1>5. /\ ModeTask(answer, job.about) \in TaskShape /\ ModeTask(answer, job.about).task = "mode"
      /\ ModeTask(answer, job.about).value = answer
      /\ ModeTask(answer, job.about).about = job.about
  BY <1>2, <1>3 DEF ModeTask, TaskShape
<1>6. /\ ResultTask(job.about, answer) \in TaskShape
      /\ ResultTask(job.about, answer).task = "result"
      /\ ResultTask(job.about, answer).value = answer
      /\ ResultTask(job.about, answer).about = job.about
  BY <1>2, <1>3 DEF ResultTask, TaskShape
<1>7. CASE AsksMode(job)
  BY <1>7, <1>4, <1>5 DEF Told, AsksMode
<1>8. CASE job.kind = "predict"
  BY <1>8, <1>4, <1>6 DEF Told
<1>9. CASE ~AsksMode(job) /\ job.kind # "predict"
  BY <1>9 DEF Told, AsksMode
<1> QED BY <1>7, <1>8, <1>9

\* Everything that is told keeps the shape.
LEMMA PostShape ==
  ASSUME Shape, UNCHANGED requests, NEW tasks, Post(tasks), tasks \in Seq(TaskShape),
         \A i \in 1..Len(tasks) : Tells(tasks[i])
  PROVE  InboxShape'
<1>1. InboxShape /\ GroupsKept BY SameRequests DEF Shape
<1>2. /\ inbox' \in Seq(TaskShape)
      /\ owner = "running" =>
           /\ Len(inbox') = Len(inbox) + Len(tasks)
           /\ \A i \in 1..Len(inbox) : inbox'[i] = inbox[i]
           /\ \A i \in 1..Len(tasks) : inbox'[Len(inbox) + i] = tasks[i]
      /\ owner # "running" => inbox' = inbox
  BY <1>1, AfterPost DEF InboxShape
<1>3. \A t : Tells(t) => Tells(t)' BY <1>1, GroupsStay
<1>4. CASE owner # "running" BY <1>1, <1>2, <1>4, ShapeFrame
<1>5. CASE owner = "running"
  <2>1. \A i \in 1..Len(inbox') : Tells(inbox[i])'
    <3> TAKE i \in 1..Len(inbox')
    <3>1. CASE i \in 1..Len(inbox)
      BY <1>1, <1>2, <1>3, <1>5, <3>1 DEF InboxShape, Tells
    <3>2. CASE i \notin 1..Len(inbox)
      <4>1. /\ i - Len(inbox) \in 1..Len(tasks)
            /\ inbox'[Len(inbox) + (i - Len(inbox))] = tasks[i - Len(inbox)]
            /\ Len(inbox) + (i - Len(inbox)) = i
        BY <1>1, <1>2, <1>5, <3>2 DEF InboxShape
      <4>2. inbox'[i] = tasks[i - Len(inbox)] /\ Tells(tasks[i - Len(inbox)]) BY <4>1
      <4> QED BY <1>3, <4>2 DEF Tells
    <3> QED BY <3>1, <3>2
  <2> QED BY <1>2, <2>1 DEF InboxShape
<1> QED BY <1>4, <1>5

LEMMA ToldShape ==
  ASSUME Shape, Busy, UNCHANGED requests, NEW p, NEW answer, Answers(answer),
         Post(Told(p, answer))
  PROVE  InboxShape'
BY ToldTasks, PostShape DEF Shape, PumpShape, Answers, Tells, StateOf, Modes, AsksMode,
   ForTheGroup, Backend!Results

\* Taking a task.
LEMMA TakeShape ==
  ASSUME Shape, GroupsKept, NEW task, Take(task)
  PROVE  /\ owner = "running" /\ owner' = "running" /\ untold = {} /\ ~stopping
         /\ UNCHANGED <<owner, stopping, pump, job, memory, pipe, aborted, service, calls, commits>>
         /\ InboxShape' /\ PumpShape' /\ ServiceShape' /\ OwnerShape'
         /\ Tells(inbox[1])
<1>1. InboxShape /\ ServiceShape /\ OwnerShape BY DEF Shape
<1>2. /\ owner = "running" /\ untold = {}
      /\ UNCHANGED <<owner, stopping, pump, job, memory, pipe, aborted, service, calls, commits>>
  BY DEF Take, UiFree, transport, outside
<1>3. /\ Len(inbox) > 0 /\ Len(inbox) \in Nat
      /\ inbox' \in Seq(TaskShape) /\ Len(inbox') = Len(inbox) - 1
      /\ \A i \in 1..Len(inbox') : i + 1 \in 1..Len(inbox) /\ inbox'[i] = inbox[i + 1]
  BY <1>1, AfterTake DEF InboxShape
<1>4. Tells(inbox[1]) BY <1>1, <1>3 DEF InboxShape
<1>5. \A i \in 1..Len(inbox') : Tells(inbox[i])'
  <2> TAKE i \in 1..Len(inbox')
  <2>1. Tells(inbox[i + 1]) BY <1>1, <1>3 DEF InboxShape
  <2> QED BY <1>3, <2>1, GroupsStay DEF Tells
<1>6. InboxShape' BY <1>3, <1>5 DEF InboxShape
<1>7. PumpShape' BY <1>2, ShapeFrame
<1> QED BY <1>1, <1>2, <1>4, <1>6, <1>7 DEF ServiceShape, OwnerShape
LEMMA InitShape == Init => Shape
<1> SUFFICES ASSUME Init PROVE Shape
  OBVIOUS
<1>1. /\ requests = <<>> /\ untold = {} /\ inbox = <<>> /\ jobs = <<Job("query", 0, 0)>>
      /\ ui = [mode |-> "English", revision |-> 0, backend |-> "Connected"]
      /\ owner = "running" /\ commits = 0 /\ pump = "starting" /\ ~stopping /\ ~aborted
      /\ pipe = 0 /\ service.id = 0 /\ service.mode = "Chinese"
  BY DEF Init
<1>2. Job("query", 0, 0) \in JobShape /\ Job("query", 0, 0).kind = "query"
  BY KindsThere, JobsThere
<1>3. jobs \in Seq(JobShape) /\ Len(jobs) = 1 /\ jobs[1].kind = "query" BY <1>1, <1>2
<1>4. JobsShape BY <1>3 DEF JobsShape, ForTheGroup
<1>5. RequestsShape /\ InboxShape BY <1>1 DEF RequestsShape, InboxShape
<1>6. UiShape /\ PumpShape /\ ServiceShape /\ OwnerShape
  BY <1>1 DEF UiShape, PumpShape, Busy, ServiceShape, OwnerShape, Modes
<1> QED BY <1>4, <1>5, <1>6 DEF Shape

LEMMA PlainThere ==
  /\ Job("ready", 0, 0) \in JobShape /\ Job("ready", 0, 0).kind = "ready"
  /\ Job("prefill", 0, 0) \in JobShape /\ Job("prefill", 0, 0).kind = "prefill"
BY KindsThere, JobsThere

LEMMA QueryThere ==
  ASSUME Shape
  PROVE  /\ Job("query", 0, ui.revision) \in JobShape
         /\ Job("query", 0, ui.revision).kind = "query"
         /\ Job("query", 0, ui.revision).about = ui.revision
<1>1. "query" \in Kinds BY KindsThere
<1>2. ui.revision \in Nat BY DEF Shape, UiShape
<1> QED BY <1>1, <1>2, JobsThere

LEMMA ToggleThere ==
  ASSUME Shape
  PROVE  /\ Job("toggle", 0, ui.revision + 1) \in JobShape
         /\ Job("toggle", 0, ui.revision + 1).kind = "toggle"
         /\ Job("toggle", 0, ui.revision + 1).about = ui.revision + 1
<1>1. "toggle" \in Kinds BY KindsThere
<1>2. ui.revision + 1 \in Nat BY DEF Shape, UiShape
<1> QED BY <1>1, <1>2, JobsThere

\* The calls, and the tasks, of the UI thread.
LEMMA UiCallShape ==
  ASSUME Shape, UiCall
  PROVE  Shape'
<1>1. UiShape BY DEF Shape
<1>2. CASE RefreshInputMode
  BY <1>1, <1>2, QueryThere, CallShape DEF RefreshInputMode, UiShape
<1>3. CASE ToggleInputMode
  <2>1. UiShape'
    <3>1. /\ ui' = [ui EXCEPT !.mode = Flipped(ui.mode), !.revision = ui.revision + 1]
          /\ UNCHANGED commits
      BY <1>3 DEF ToggleInputMode
    <3>2. Flipped(ui.mode) \in Modes BY DEF Flipped, Modes
    <3>3. ui.revision + 1 \in Nat BY <1>1 DEF UiShape
    <3> QED BY <1>1, <3>1, <3>2, <3>3 DEF UiShape
  <2> QED BY <1>3, <2>1, ToggleThere, CallShape DEF ToggleInputMode
<1>4. CASE Ready
  BY <1>1, <1>4, PlainThere, CallShape DEF Ready, UiShape
<1>5. CASE Prefill
  BY <1>1, <1>5, PlainThere, CallShape DEF Prefill, UiShape
<1>6. CASE \E group \in Groups : Predict(group)
  BY <1>6, PredictShape
<1>7. CASE RecordCommit
  BY <1>1, <1>7, KindsThere, JobsThere, CallShape DEF RecordCommit, UiShape
<1>8. CASE DiscardCommit
  <2>1. UiShape' BY <1>1, <1>8 DEF DiscardCommit, UiShape
  <2>2. PICK token \in 1..commits : Submit(Job("discard", 0, token))
    BY <1>8 DEF DiscardCommit
  <2>3. Job("discard", 0, token) \in JobShape /\ Job("discard", 0, token).kind = "discard"
    BY <1>1, KindsThere, JobsThere DEF UiShape
  <2>4. Call("discard") /\ UNCHANGED requests BY <1>8 DEF DiscardCommit
  <2> QED BY <2>1, <2>2, <2>3, <2>4, CallShape
<1>9. CASE Close
  <2>1. /\ UNCHANGED <<requests, ui, untold, commits, jobs, stopping, pump, job, pipe,
                       aborted, service>>
        /\ owner' = "closing" /\ inbox' = <<>>
    BY <1>9 DEF Close, worker, transport, outside
  <2>2. GroupsKept BY <2>1, SameRequests
  <2>3. UiShape' /\ ServiceShape' /\ OwnerShape' /\ InboxShape'
    BY <1>1, <2>1 DEF Shape, UiShape, ServiceShape, OwnerShape, InboxShape
  <2> QED BY <2>1, <2>2, <2>3, ShapeFrame DEF Shape
<1> QED BY <1>2, <1>3, <1>4, <1>5, <1>6, <1>7, <1>8, <1>9 DEF UiCall

\* What an answer does to the requests.
LEMMA ResultKept ==
  ASSUME Shape, TakeResult
  PROVE  /\ inbox[1].about \in 1..Len(requests) /\ inbox[1].value \in Backend!Results
         /\ requests' = [requests EXCEPT ![inbox[1].about].status = inbox[1].value]
         /\ GroupsKept /\ Len(requests') = Len(requests)
         /\ inbox[1].value = "superseded" => Backend!MadeLater(inbox[1].about)
<1>1. Take("result") /\ Head(inbox) = inbox[1] /\ inbox[1].task = "result" /\ Len(inbox) > 0
  BY AfterTake DEF TakeResult, Shape, InboxShape
<1>2. requests' = [requests EXCEPT ![inbox[1].about].status = inbox[1].value]
  BY <1>1 DEF TakeResult
<1>3. Tells(inbox[1]) BY <1>1 DEF Shape, InboxShape
<1>4. requests \in Seq(Backend!Request) BY DEF Shape, RequestsShape
<1>5. /\ inbox[1].about \in 1..Len(requests) /\ inbox[1].value \in Backend!Results
      /\ inbox[1].value = "superseded" => Backend!MadeLater(inbox[1].about)
  BY <1>1, <1>3, <1>4 DEF Tells
<1>6. requests[inbox[1].about] \in Backend!Request BY <1>4, <1>5
<1>7. [requests[inbox[1].about] EXCEPT !.status = inbox[1].value] \in Backend!Request
  BY <1>5, <1>6 DEF Backend!Request
<1>8. requests' \in Seq(Backend!Request) /\ Len(requests') = Len(requests)
  BY <1>2, <1>4, <1>5, <1>7
<1>9. \A s \in 1..Len(requests) : requests'[s].group = requests[s].group
  BY <1>2, <1>4, <1>5 DEF Backend!Request
<1> QED BY <1>2, <1>4, <1>5, <1>8, <1>9 DEF GroupsKept

LEMMA UiStepShape ==
  ASSUME Shape, UiStep
  PROVE  Shape'
<1>1. UiShape /\ RequestsShape /\ InboxShape BY DEF Shape
<1>2. CASE TellSuperseded
  <2>1. /\ UNCHANGED <<requests, ui, owner, commits, jobs, stopping, pump, job, pipe,
                       aborted, service>>
    BY <1>2 DEF TellSuperseded, worker, transport, outside
  <2>2. PICK s \in untold : untold' = untold \ {s} /\ Post(<<ResultTask(s, "superseded")>>)
    BY <1>2 DEF TellSuperseded
  <2>3. GroupsKept BY <2>1, SameRequests
  <2>4. s \in DOMAIN requests /\ Backend!MadeLater(s) /\ s \in Nat BY <1>1 DEF RequestsShape
  <2>5. /\ ResultTask(s, "superseded") \in TaskShape /\ Tells(ResultTask(s, "superseded"))
    BY <2>4 DEF ResultTask, TaskShape, Values, Tells, Backend!Results
  <2>6. InboxShape'
    <3> DEFINE tasks == <<ResultTask(s, "superseded")>>
    <3>1. tasks \in Seq(TaskShape) /\ \A i \in 1..Len(tasks) : Tells(tasks[i]) BY <2>5
    <3> HIDE DEF tasks
    <3>2. Post(tasks) BY <2>2 DEF tasks
    <3> QED BY <2>1, <3>1, <3>2, PostShape
  <2>7. untold' \subseteq DOMAIN requests' /\ \A u \in untold' : Backend!MadeLater(u)'
    BY <1>1, <2>1, <2>2 DEF RequestsShape, Backend!MadeLater
  <2>8. RequestsShape' BY <1>1, <2>1, <2>7 DEF RequestsShape
  <2>9. UiShape' /\ ServiceShape' /\ OwnerShape'
    BY <2>1 DEF Shape, UiShape, ServiceShape, OwnerShape
  <2> QED BY <2>1, <2>3, <2>6, <2>8, <2>9, ShapeFrame DEF Shape
<1>3. CASE TakeState
  BY <1>1, <1>3, AfterTake, SameRequests, TakeShape, ShapeFrame DEF TakeState, InboxShape,
     Tells, UiShape, Shape
<1>4. CASE TakeMode
  BY <1>1, <1>4, AfterTake, SameRequests, TakeShape, ShapeFrame DEF TakeMode, InboxShape,
     Tells, UiShape, Shape
<1>5. CASE TakeResult
  <2>1. UNCHANGED <<untold, jobs>> /\ Take("result")
        /\ ui' \in {ui, [ui EXCEPT !.mode = "English", !.revision = @ + 1]}
    BY <1>5 DEF TakeResult
  <2>2. GroupsKept BY <1>5, ResultKept
  <2>3. UiShape'
    <3>1. "English" \in Modes BY DEF Modes
    <3>2. ui.revision + 1 \in Nat BY <1>1 DEF UiShape
    <3>3. UNCHANGED commits BY <2>1, <2>2, TakeShape
    <3> QED BY <1>1, <2>1, <3>1, <3>2, <3>3 DEF UiShape
  <2> QED BY <2>1, <2>2, <2>3, TakeShape, ShapeFrame DEF Shape
<1>6. CASE TakeRetry
  BY <1>6, SameRequests, <1>1, TakeShape, QueryThere, SubmitShape DEF TakeRetry, UiShape,
     Shape
<1>7. CASE Destroy
  BY <1>7, SameRequests, ShapeFrame DEF Destroy, outside, Shape, UiShape, ServiceShape,
     OwnerShape, JobsShape
<1>8. CASE Join
  BY <1>8, SameRequests, ShapeFrame DEF Join, worker, transport, outside, Shape, UiShape,
     ServiceShape, OwnerShape
<1> QED BY <1>2, <1>3, <1>4, <1>5, <1>6, <1>7, <1>8 DEF UiStep
\* The steps of the pump and of the service: the requests stay.
LEMMA OutsideFrame ==
  ASSUME Shape, PumpStep \/ Complete \/ ServiceStarts \/ ServiceEnds
  PROVE  /\ UNCHANGED <<requests, ui, owner, untold, commits, stopping, aborted>>
         /\ GroupsKept
         /\ RequestsShape' /\ UiShape' /\ OwnerShape'
<1>1. UNCHANGED <<requests, ui, owner, untold, commits, stopping, aborted>>
  <2>1. CASE PumpStep
    BY <2>1 DEF PumpStep, Start, Check, Waken, Probe, Skip, Connect, CannotConnect, Transfer,
                Fail, textService, transport, outside
  <2>2. CASE Complete BY <2>2 DEF Complete, textService
  <2>3. CASE ServiceStarts \/ ServiceEnds
    BY <2>3 DEF ServiceStarts, ServiceEnds, textService, worker, transport
  <2> QED BY <2>1, <2>2, <2>3
<1>2. GroupsKept BY <1>1, SameRequests
<1> QED BY <1>1, <1>2, ShapeFrame DEF Shape, UiShape, OwnerShape

LEMMA FailureAnswers ==
  ASSUME Shape
  PROVE  Answers(Failure)
  BY DEF Answers, Failure, AsksMode, Values, Modes, Backend!Results

LEMMA SuccessAnswers ==
  ASSUME Shape, CommitInv
  PROVE  /\ Answers(Success) /\ Served.mode \in Modes /\ Served.id = service.id
         /\ AsksMode(job) => Success = Served.mode
<1>1. service.mode \in Modes BY DEF Shape, ServiceShape
<1>2. service = [up |-> service.up, id |-> service.id, mode |-> service.mode,
                 latest |-> service.latest]
  BY DEF CommitInv, IsState
<1>3. Served \in {[service EXCEPT !.mode = Flipped(service.mode)],
                  [service EXCEPT !.latest = [wire |-> memory.wire, commit |-> job.about]],
                  service}
  BY DEF Served
<1>4. Served.mode \in Modes /\ Served.id = service.id
  BY <1>1, <1>2, <1>3 DEF Flipped, Modes
<1>5. AsksMode(job) => Success = Served.mode BY DEF Success, AsksMode
<1>6. Success = "converted" \/ Success = Served.mode BY DEF Success
<1>7. job.kind = "predict" => Success = "converted" BY DEF Success
<1>8. "converted" \in Values /\ \A m \in Modes : m \in Values BY DEF Values, Backend!Results
<1> QED BY <1>4, <1>5, <1>6, <1>7, <1>8 DEF Answers

LEMMA PumpStepShape ==
  ASSUME Shape, CommitInv, PumpStep
  PROVE  Shape'
<1>1. RequestsShape' /\ UiShape' /\ OwnerShape' /\ GroupsKept /\ UNCHANGED requests
  BY OutsideFrame
<1>2. PumpShape /\ ServiceShape BY DEF Shape
<1>3. CASE Start
  BY <1>3, <1>2, <1>1, ShapeFrame DEF Start, transport, outside, PumpShape, Busy,
     ServiceShape, Shape
<1>4. CASE Check
  <2>1. UNCHANGED <<inbox, service>> BY <1>4 DEF Check, outside
  <2>2. InboxShape' BY <1>1, <2>1, ShapeFrame
  <2>3. CASE stopping
    <3>1. pump' = "ended" /\ jobs' = <<>> /\ pipe' = 0 BY <1>4, <2>3 DEF Check
    <3>2. PumpShape' /\ ServiceShape' /\ JobsShape'
      BY <1>2, <2>1, <3>1 DEF PumpShape, Busy, ServiceShape, JobsShape
    <3> QED BY <1>1, <2>2, <3>2 DEF Shape
  <2>4. CASE ~stopping /\ jobs # <<>>
    <3>1. pump' = "begin" /\ job' = Head(jobs) /\ jobs' = Tail(jobs) /\ pipe' = pipe
      BY <1>4, <2>4 DEF Check
    <3>2. jobs \in Seq(JobShape) /\ \A i \in 1..Len(jobs) : ForTheGroup(jobs[i])
      BY DEF Shape, JobsShape
    <3>3. /\ Len(jobs) > 0 /\ job' = jobs[1] /\ jobs[1] \in JobShape /\ jobs' \in Seq(JobShape)
          /\ Len(jobs') = Len(jobs) - 1
          /\ \A i \in 1..Len(jobs') : i + 1 \in 1..Len(jobs) /\ jobs'[i] = jobs[i + 1]
      BY <2>4, <3>1, <3>2
    <3>4. ForTheGroup(job)' BY <1>1, <3>2, <3>3, GroupsStay DEF ForTheGroup
    <3>5. PumpShape' BY <3>1, <3>3, <3>4 DEF PumpShape, Busy
    <3>6. \A i \in 1..Len(jobs') : ForTheGroup(jobs[i])'
      <4> TAKE i \in 1..Len(jobs')
      <4>1. ForTheGroup(jobs[i + 1]) BY <3>2, <3>3
      <4> QED BY <1>1, <3>3, <4>1, GroupsStay DEF ForTheGroup
    <3>7. JobsShape' /\ ServiceShape' BY <1>2, <2>1, <3>1, <3>3, <3>6 DEF JobsShape, ServiceShape
    <3> QED BY <1>1, <2>2, <3>5, <3>7 DEF Shape
  <2>5. CASE ~stopping /\ jobs = <<>>
    <3>1. pump' \in {"doze", "sleep"} /\ UNCHANGED <<jobs, job, pipe>>
      BY <1>4, <2>5 DEF Check
    <3>2. PumpShape' /\ ServiceShape' BY <1>2, <2>1, <3>1 DEF PumpShape, Busy, ServiceShape
    <3> QED BY <1>1, <2>2, <3>1, <3>2, ShapeFrame DEF Shape
  <2> QED BY <2>3, <2>4, <2>5
<1>5. CASE Waken \/ Probe \/ Skip
  <2>1. UNCHANGED <<jobs, pipe, service>> /\ pump' = "check"
    BY <1>5 DEF Waken, Probe, Skip, transport, outside
  <2>2. PumpShape' /\ ServiceShape' BY <1>2, <2>1 DEF PumpShape, Busy, ServiceShape
  <2>3. InboxShape'
    <3>1. CASE Waken \/ Skip
      BY <3>1, <1>1, ShapeFrame DEF Waken, Skip
    <3>2. CASE Probe
      <4>1. RetryTask \in TaskShape /\ Tells(RetryTask)
        BY DEF RetryTask, TaskShape, Values, Tells
      <4> DEFINE tasks == <<RetryTask>>
      <4>2. tasks \in Seq(TaskShape) /\ \A i \in 1..Len(tasks) : Tells(tasks[i]) BY <4>1
      <4>3. Post(tasks) BY <3>2 DEF Probe
      <4> HIDE DEF tasks
      <4> QED BY <1>1, <4>2, <4>3, PostShape
    <3> QED BY <1>5, <3>1, <3>2
  <2> QED BY <1>1, <2>1, <2>2, <2>3, ShapeFrame DEF Shape
<1>6. CASE Connect
  <2>1. UNCHANGED <<inbox, jobs, job>> /\ pump = "begin" /\ pump' = "send" BY <1>6 DEF Connect
  <2>2. PumpShape' BY <1>1, <1>2, <2>1, GroupsStay DEF PumpShape, Busy
  <2>3. \/ UNCHANGED <<pipe, service>>
        \/ pipe' = service.id /\ service' = [service EXCEPT !.latest = NoLatest]
    BY <1>6 DEF Connect
  <2>4. service'.id = service.id /\ service'.mode = service.mode
    BY <2>3 DEF CommitInv, IsState
  <2>5. ServiceShape' BY <1>2, <2>3, <2>4 DEF ServiceShape
  <2> QED BY <1>1, <2>1, <2>2, <2>5, ShapeFrame DEF Shape
<1>7. CASE CannotConnect
  <2>1. /\ UNCHANGED <<jobs, job, pipe, service>> /\ pump = "begin" /\ pump' = "check"
        /\ Post(Told(pipe, Failure))
    BY <1>7 DEF CannotConnect, transport, outside
  <2>2. PumpShape' /\ ServiceShape' BY <1>2, <2>1 DEF PumpShape, Busy, ServiceShape
  <2>3. Busy BY <2>1 DEF Busy
  <2>4. InboxShape' BY <1>1, <2>1, <2>3, FailureAnswers, ToldShape
  <2> QED BY <1>1, <2>1, <2>2, <2>4, ShapeFrame DEF Shape
<1>8. CASE Transfer
  BY <1>8, <1>1, <1>2, GroupsStay, ShapeFrame DEF Transfer, outside, PumpShape, Busy,
     ServiceShape, Shape
<1>9. CASE Fail
  <2>1. /\ UNCHANGED <<jobs, job, service>> /\ pump = "io" /\ pump' = "check" /\ pipe' = 0
        /\ Post(Told(0, Failure))
    BY <1>9 DEF Fail, outside
  <2>2. PumpShape' /\ ServiceShape' BY <1>2, <2>1 DEF PumpShape, Busy, ServiceShape
  <2>3. Busy BY <2>1 DEF Busy
  <2>4. InboxShape' BY <1>1, <2>1, <2>3, FailureAnswers, ToldShape
  <2> QED BY <1>1, <2>1, <2>2, <2>4, ShapeFrame DEF Shape
<1> QED BY <1>3, <1>4, <1>5, <1>6, <1>7, <1>8, <1>9 DEF PumpStep

LEMMA ServiceShapes ==
  ASSUME Shape, CommitInv, Complete \/ ServiceStarts \/ ServiceEnds
  PROVE  Shape'
<1>1. RequestsShape' /\ UiShape' /\ OwnerShape' /\ GroupsKept /\ UNCHANGED requests
  BY OutsideFrame
<1>2. PumpShape /\ ServiceShape BY DEF Shape
<1>3. service = [up |-> service.up, id |-> service.id, mode |-> service.mode,
                 latest |-> service.latest]
  BY DEF CommitInv, IsState
<1>4. CASE Complete
  BY <1>4, <1>2, SuccessAnswers, <1>1, ToldShape, ShapeFrame DEF Complete, PumpShape, Busy,
     ServiceShape, Shape
<1>5. CASE ServiceStarts \/ ServiceEnds
  <2>1. UNCHANGED <<inbox, jobs, pump, job, pipe>>
    BY <1>5 DEF ServiceStarts, ServiceEnds, worker, transport
  <2>2. \/ service' = [up |-> TRUE, id |-> service.id + 1, mode |-> "Chinese", latest |-> NoLatest]
        \/ service' = [service EXCEPT !.up = FALSE]
    BY <1>5 DEF ServiceStarts, ServiceEnds
  <2>3. ServiceShape' BY <1>2, <1>3, <2>1, <2>2 DEF ServiceShape, Modes
  <2> QED BY <1>1, <2>1, <2>3, ShapeFrame DEF Shape
<1> QED BY <1>4, <1>5

\* The shape is kept by every step.
LEMMA NextShape == Shape /\ CommitInv /\ [Next]_vars => Shape'
<1> SUFFICES ASSUME Shape, CommitInv, [Next]_vars PROVE Shape'
  OBVIOUS
<1>1. CASE UNCHANGED vars
  <2>1. /\ UNCHANGED <<requests, ui, owner, untold, commits, inbox, jobs, stopping, pump, job,
                       pipe, aborted, service>>
    BY <1>1 DEF vars, textService, worker, transport, outside
  <2>2. UiShape' /\ ServiceShape' /\ OwnerShape'
    BY <2>1 DEF Shape, UiShape, ServiceShape, OwnerShape
  <2> QED BY <2>1, <2>2, SameRequests, ShapeFrame DEF Shape
<1>2. CASE Next BY <1>2, UiCallShape, UiStepShape, PumpStepShape, ServiceShapes DEF Next
<1> QED BY <1>1, <1>2

-----------------------------------------------------------------------------
(***************************************************************************)
(* The places of an answer: what is queued, under way, posted, or left by  *)
(* submit to be told of.                                                   *)
(***************************************************************************)

IsQueued(s)    == \E i \in 1..Len(jobs) : IsPrediction(jobs[i], s)
IsUnderWay(s)  == Busy /\ IsPrediction(job, s)
IsResult(t, s) == t.task = "result" /\ t.about = s
IsPosted(s)    == \E i \in 1..Len(inbox) : IsResult(inbox[i], s)

\* A prediction not answered yet is in one of the four places, an answered one
\* in none.
InOnePlace(s) ==
  /\ Backend!Pending(s) <=> s \in untold \/ IsQueued(s) \/ IsUnderWay(s) \/ IsPosted(s)
  /\ s \in untold => ~IsQueued(s) /\ ~IsUnderWay(s) /\ ~IsPosted(s)
  /\ IsQueued(s) => ~IsUnderWay(s) /\ ~IsPosted(s)
  /\ IsUnderWay(s) => ~IsPosted(s)

\* No prediction is queued twice, or told twice.
QueuedOnce ==
  \A i, k \in 1..Len(jobs) :
    /\ jobs[i].kind = "predict" /\ jobs[k].kind = "predict" /\ jobs[i].about = jobs[k].about
    => i = k
PostedOnce ==
  \A i, k \in 1..Len(inbox) :
    /\ inbox[i].task = "result" /\ inbox[k].task = "result" /\ inbox[i].about = inbox[k].about
    => i = k

Placed == (\A s \in 1..Len(requests) : InOnePlace(s)) /\ QueuedOnce /\ PostedOnce

OnePlace == owner = "running" => Placed

\* What the text service does with the other jobs.
LEMMA OtherSubmitted ==
  ASSUME Shape, NEW new \in JobShape, new.kind # "predict", ~stopping, Submit(new), QueuedOnce
  PROVE  /\ \A s : IsQueued(s)' <=> IsQueued(s)
         /\ QueuedOnce' /\ untold' = {}
<1>1. JobsShape BY DEF Shape
<1>2. PICK m, at : Submitted(new, m, at) BY <1>1, AfterSubmit
<1>3. untold' = {} BY <1>1, AfterSubmit
<1>4. \A i \in 1..m : jobs'[i] = jobs[at[i]] /\ at[i] \in 1..Len(jobs) /\ i \in 1..Len(jobs')
  BY <1>2 DEF Submitted
<1>5. \A i \in 1..Len(jobs') : jobs'[i].kind = "predict" => i \in 1..m
  BY <1>2 DEF Submitted
<1>6. \A k \in 1..Len(jobs) : jobs[k].kind = "predict" => \E i \in 1..m : at[i] = k
  BY <1>2 DEF Submitted, Replaces
<1>7. ASSUME NEW s, IsQueued(s)' PROVE IsQueued(s)
  <2>1. PICK i \in 1..Len(jobs') : IsPrediction(jobs[i], s)' BY <1>7 DEF IsQueued
  <2>2. i \in 1..m BY <1>5, <2>1 DEF IsPrediction
  <2>3. IsPrediction(jobs[at[i]], s) /\ at[i] \in 1..Len(jobs) BY <1>4, <2>1, <2>2 DEF IsPrediction
  <2> QED BY <2>3 DEF IsQueued
<1>8. ASSUME NEW s, IsQueued(s) PROVE IsQueued(s)'
  <2>1. PICK k \in 1..Len(jobs) : IsPrediction(jobs[k], s) BY <1>8 DEF IsQueued
  <2>2. PICK i \in 1..m : at[i] = k BY <1>6, <2>1 DEF IsPrediction
  <2>3. IsPrediction(jobs[i], s)' /\ i \in 1..Len(jobs') BY <1>4, <2>1, <2>2 DEF IsPrediction
  <2> QED BY <2>3 DEF IsQueued
<1>9. QueuedOnce'
  <2>1. ASSUME NEW i \in 1..Len(jobs'), NEW k \in 1..Len(jobs'),
               jobs'[i].kind = "predict", jobs'[k].kind = "predict",
               jobs'[i].about = jobs'[k].about
        PROVE  i = k
    BY <1>5, <2>1, <1>4, <1>2 DEF QueuedOnce, Submitted
  <2> QED BY <2>1 DEF QueuedOnce
<1> QED BY <1>3, <1>7, <1>8, <1>9

\* A new prediction is queued; the ones it replaces are told of next.
LEMMA PredictionSubmitted ==
  ASSUME Shape, NEW new \in JobShape, new.kind = "predict", ~stopping, Submit(new), QueuedOnce,
         \A k \in 1..Len(jobs) : jobs[k].kind = "predict" => jobs[k].about # new.about
  PROVE  /\ \A s : IsQueued(s)' <=> s = new.about \/ (IsQueued(s) /\ s \notin untold')
         /\ \A s \in untold' : IsQueued(s)
         /\ QueuedOnce'
<1>1. JobsShape BY DEF Shape
<1>2. PICK m, at : Submitted(new, m, at) BY <1>1, AfterSubmit
<1>3. untold' = {jobs[i].about : i \in {k \in 1..Len(jobs) : Replaces(new, jobs[k])}}
  BY <1>1, AfterSubmit
<1>4. \A i \in 1..m : /\ jobs'[i] = jobs[at[i]] /\ at[i] \in 1..Len(jobs) /\ i \in 1..Len(jobs')
                      /\ ~Replaces(new, jobs[at[i]])
  BY <1>2 DEF Submitted
<1>5. /\ m + 1 \in 1..Len(jobs') /\ jobs'[m + 1] = new
      /\ \A i \in 1..Len(jobs') : i # m + 1 => i \in 1..m
  BY <1>2 DEF Submitted
<1>6. \A k \in 1..Len(jobs) : ~Replaces(new, jobs[k]) => \E i \in 1..m : at[i] = k
  BY <1>2 DEF Submitted
<1>7. ASSUME NEW s, IsQueued(s)' PROVE s = new.about \/ (IsQueued(s) /\ s \notin untold')
  <2>1. PICK i \in 1..Len(jobs') : jobs'[i].kind = "predict" /\ jobs'[i].about = s
    BY <1>7 DEF IsQueued, IsPrediction
  <2>2. CASE i = m + 1 BY <1>5, <2>1, <2>2
  <2>3. CASE i \in 1..m
    <3>1. /\ IsPrediction(jobs[at[i]], s) /\ at[i] \in 1..Len(jobs)
          /\ ~Replaces(new, jobs[at[i]])
      BY <1>4, <2>1, <2>3 DEF IsPrediction
    <3>2. IsQueued(s) BY <3>1 DEF IsQueued
    <3>3. ASSUME s \in untold' PROVE FALSE
      <4>1. PICK k \in 1..Len(jobs) : Replaces(new, jobs[k]) /\ s = jobs[k].about BY <1>3, <3>3
      <4>2. k = at[i] BY <3>1, <4>1 DEF QueuedOnce, IsPrediction, Replaces
      <4> QED BY <3>1, <4>1, <4>2
    <3> QED BY <3>2, <3>3
  <2> QED BY <1>5, <2>2, <2>3
<1>8. IsQueued(new.about)' BY <1>5 DEF IsQueued, IsPrediction
<1>9. ASSUME NEW s, IsQueued(s), s \notin untold' PROVE IsQueued(s)'
  <2>1. PICK k \in 1..Len(jobs) : IsPrediction(jobs[k], s) BY <1>9 DEF IsQueued
  <2>2. ~Replaces(new, jobs[k]) BY <1>3, <1>9, <2>1 DEF IsPrediction
  <2>3. PICK i \in 1..m : at[i] = k BY <1>6, <2>2
  <2>4. IsPrediction(jobs[i], s)' /\ i \in 1..Len(jobs') BY <1>4, <2>1, <2>3 DEF IsPrediction
  <2> QED BY <2>4 DEF IsQueued
<1>10. ASSUME NEW s \in untold' PROVE IsQueued(s)
  <2>1. PICK k \in 1..Len(jobs) : Replaces(new, jobs[k]) /\ s = jobs[k].about BY <1>3
  <2> QED BY <2>1 DEF IsQueued, IsPrediction, Replaces
<1>11. QueuedOnce'
  <2>1. ASSUME NEW i \in 1..Len(jobs'), NEW k \in 1..Len(jobs'),
               jobs'[i].kind = "predict", jobs'[k].kind = "predict",
               jobs'[i].about = jobs'[k].about
        PROVE  i = k
    <3>1. CASE i \in 1..m /\ k \in 1..m
      BY <1>4, <2>1, <3>1, <1>2 DEF QueuedOnce, Submitted
    <3>2. CASE i \in 1..m /\ k = m + 1 BY <1>4, <1>5, <2>1, <3>2
    <3>3. CASE i = m + 1 /\ k \in 1..m BY <1>4, <1>5, <2>1, <3>3
    <3> QED BY <1>5, <3>1, <3>2, <3>3
  <2> QED BY <2>1 DEF QueuedOnce
<1> QED BY <1>7, <1>8, <1>9, <1>10, <1>11
\* The tasks after a step that adds one kind of news.
LEMMA ResultsPosted ==
  ASSUME Shape, owner = "running", PostedOnce, NEW tasks, Post(tasks), tasks \in Seq(TaskShape),
         NEW about, ~IsPosted(about),
         \A i, k \in 1..Len(tasks) :
           tasks[i].task = "result" /\ tasks[k].task = "result" => i = k /\ tasks[i].about = about
  PROVE  /\ PostedOnce'
         /\ \A s : IsPosted(s)' <=> IsPosted(s) \/ \E i \in 1..Len(tasks) : IsResult(tasks[i], s)
<1>1. /\ inbox \in Seq(TaskShape) /\ inbox' \in Seq(TaskShape)
      /\ Len(inbox') = Len(inbox) + Len(tasks)
      /\ \A i \in 1..Len(inbox) : inbox'[i] = inbox[i]
      /\ \A i \in 1..Len(tasks) : inbox'[Len(inbox) + i] = tasks[i]
  BY AfterPost DEF Shape, InboxShape
<1>2. /\ \A i \in 1..Len(inbox) : i \in 1..Len(inbox')
      /\ \A i \in 1..Len(tasks) : Len(inbox) + i \in 1..Len(inbox')
  BY <1>1
<1>3. ASSUME NEW i \in 1..Len(inbox'), i \notin 1..Len(inbox)
      PROVE  i - Len(inbox) \in 1..Len(tasks) /\ inbox'[i] = tasks[i - Len(inbox)]
  BY <1>1, <1>3
<1>4. PostedOnce'
  <2>1. ASSUME NEW i \in 1..Len(inbox'), NEW k \in 1..Len(inbox'),
               inbox'[i].task = "result", inbox'[k].task = "result",
               inbox'[i].about = inbox'[k].about
        PROVE  i = k
    <3>1. CASE i \in 1..Len(inbox) /\ k \in 1..Len(inbox)
      BY <1>1, <2>1, <3>1 DEF PostedOnce
    <3>2. CASE i \in 1..Len(inbox) /\ k \notin 1..Len(inbox)
      <4>1. IsResult(inbox[i], about) BY <1>1, <1>3, <2>1, <3>2 DEF IsResult
      <4> QED BY <3>2, <4>1 DEF IsPosted
    <3>3. CASE k \in 1..Len(inbox) /\ i \notin 1..Len(inbox)
      <4>1. tasks[i - Len(inbox)].about = about /\ inbox'[i] = tasks[i - Len(inbox)]
        BY <1>3, <2>1, <3>3
      <4>2. IsResult(inbox[k], about) BY <1>1, <2>1, <3>3, <4>1 DEF IsResult
      <4> QED BY <3>3, <4>2 DEF IsPosted
    <3>4. CASE i \notin 1..Len(inbox) /\ k \notin 1..Len(inbox)
      <4>1. i - Len(inbox) = k - Len(inbox) BY <1>3, <2>1, <3>4
      <4> QED BY <1>1, <4>1
    <3> QED BY <3>1, <3>2, <3>3, <3>4
  <2> QED BY <2>1 DEF PostedOnce
<1>5. ASSUME NEW s, IsPosted(s)'
      PROVE  IsPosted(s) \/ \E i \in 1..Len(tasks) : IsResult(tasks[i], s)
  <2>1. PICK i \in 1..Len(inbox') : inbox'[i].task = "result" /\ inbox'[i].about = s
    BY <1>5 DEF IsPosted, IsResult
  <2>2. CASE i \in 1..Len(inbox) BY <1>1, <2>1, <2>2 DEF IsPosted, IsResult
  <2>3. CASE i \notin 1..Len(inbox) BY <1>3, <2>1, <2>3 DEF IsResult
  <2> QED BY <2>2, <2>3
<1>6. ASSUME NEW s, IsPosted(s) PROVE IsPosted(s)'
  <2>1. PICK i \in 1..Len(inbox) : IsResult(inbox[i], s) BY <1>6 DEF IsPosted
  <2>2. i \in 1..Len(inbox') /\ inbox'[i] = inbox[i] BY <1>1, <1>2, <2>1
  <2> QED BY <2>1, <2>2 DEF IsPosted, IsResult
<1>7. ASSUME NEW s, NEW i \in 1..Len(tasks), IsResult(tasks[i], s) PROVE IsPosted(s)'
  BY <1>1, <1>2, <1>7 DEF IsPosted, IsResult
<1> QED BY <1>4, <1>5, <1>6, <1>7

LEMMA ResultTaken ==
  ASSUME Shape, PostedOnce, NEW task, Take(task)
  PROVE  /\ PostedOnce'
         /\ \A s : IsPosted(s)' <=> IsPosted(s) /\ ~IsResult(inbox[1], s)
<1>1. /\ Len(inbox) \in Nat /\ Len(inbox) > 0 /\ inbox' \in Seq(TaskShape)
      /\ Len(inbox') = Len(inbox) - 1
      /\ \A i \in 1..Len(inbox') : i + 1 \in 1..Len(inbox) /\ inbox'[i] = inbox[i + 1]
  BY AfterTake DEF Shape, InboxShape
<1>2. \A i \in 1..Len(inbox) : i # 1 => i - 1 \in 1..Len(inbox') /\ inbox'[i - 1] = inbox[i]
  <2> TAKE i \in 1..Len(inbox)
  <2> HAVE i # 1
  <2>1. i - 1 \in 1..Len(inbox') /\ (i - 1) + 1 = i BY <1>1
  <2>2. inbox'[i - 1] = inbox[(i - 1) + 1] BY <1>1, <2>1
  <2> QED BY <2>1, <2>2
<1>3. PostedOnce'
  BY <1>1 DEF PostedOnce
<1>4. ASSUME NEW s, IsPosted(s)' PROVE IsPosted(s) /\ ~IsResult(inbox[1], s)
  <2>1. PICK i \in 1..Len(inbox') : inbox'[i].task = "result" /\ inbox'[i].about = s
    BY <1>4 DEF IsPosted, IsResult
  <2>2. i + 1 \in 1..Len(inbox) /\ IsResult(inbox[i + 1], s) BY <1>1, <2>1 DEF IsResult
  <2>3. ASSUME IsResult(inbox[1], s) PROVE FALSE
    BY <1>1, <2>2, <2>3 DEF PostedOnce, IsResult
  <2> QED BY <2>2, <2>3 DEF IsPosted
<1>5. ASSUME NEW s, IsPosted(s), ~IsResult(inbox[1], s) PROVE IsPosted(s)'
  <2>1. PICK i \in 1..Len(inbox) : IsResult(inbox[i], s) BY <1>5 DEF IsPosted
  <2>2. i # 1 BY <1>5, <2>1
  <2>3. i - 1 \in 1..Len(inbox') /\ inbox'[i - 1] = inbox[i] BY <1>2, <2>2
  <2> QED BY <2>1, <2>3 DEF IsPosted, IsResult
<1> QED BY <1>3, <1>4, <1>5

\* Nothing of the places changes.
LEMMA PlacedFrame ==
  ASSUME Placed, UNCHANGED <<requests, untold>>,
         UNCHANGED jobs \/ (QueuedOnce' /\ \A s : IsQueued(s)' <=> IsQueued(s)),
         UNCHANGED inbox \/ (PostedOnce' /\ \A s : IsPosted(s)' <=> IsPosted(s)),
         \A s : IsUnderWay(s)' <=> IsUnderWay(s)
  PROVE  Placed'
<1>1. QueuedOnce' /\ \A s : IsQueued(s)' <=> IsQueued(s)
  BY DEF QueuedOnce, IsQueued, IsPrediction, Placed
<1>2. PostedOnce' /\ \A s : IsPosted(s)' <=> IsPosted(s)
  BY DEF PostedOnce, IsPosted, IsResult, Placed
<1>3. \A s : Backend!Pending(s)' <=> Backend!Pending(s) BY DEF Backend!Pending
<1>4. \A s \in 1..Len(requests') : InOnePlace(s)'
  <2> TAKE s \in 1..Len(requests')
  <2>1. InOnePlace(s) BY DEF Placed
  <2>2. Backend!Pending(s)' <=> Backend!Pending(s) BY <1>3
  <2> QED BY <1>1, <1>2, <2>1, <2>2 DEF InOnePlace
<1> QED BY <1>1, <1>2, <1>4 DEF Placed
LEMMA NoneOutside ==
  ASSUME Shape, NEW s, s \notin 1..Len(requests)
  PROVE  ~IsQueued(s) /\ ~IsUnderWay(s) /\ ~IsPosted(s)
<1>1. DOMAIN requests = 1..Len(requests) BY DEF Shape, RequestsShape
<1>2. ~IsQueued(s) BY <1>1 DEF Shape, JobsShape, ForTheGroup, IsQueued, IsPrediction
<1>3. ~IsUnderWay(s) BY <1>1 DEF Shape, PumpShape, ForTheGroup, IsUnderWay, IsPrediction
<1>4. ~IsPosted(s) BY <1>1 DEF Shape, InboxShape, Tells, IsPosted, IsResult
<1> QED BY <1>2, <1>3, <1>4

LEMMA CallPlaced ==
  ASSUME Shape, Placed, NEW operation, Call(operation), UNCHANGED requests,
         NEW new \in JobShape, new.kind # "predict", Submit(new)
  PROVE  Placed'
BY CallFrame, OtherSubmitted, PlacedFrame DEF Placed, IsUnderWay, Busy, IsPrediction

LEMMA PredictPlaced ==
  ASSUME Shape, Placed, NEW group \in Groups, Predict(group)
  PROVE  Placed'
<1> DEFINE n == Len(requests) + 1
           new == Job("predict", group, n)
<1>1. /\ Len(requests') = n /\ requests'[n].status = "pending" /\ n \notin 1..Len(requests)
      /\ \A s \in 1..Len(requests) : requests'[s] = requests[s]
      /\ n \in Nat /\ \A s \in 1..Len(requests') : s = n \/ s \in 1..Len(requests)
  <2>1. Len(requests) \in Nat BY DEF Shape, RequestsShape
  <2>2. /\ Len(requests') = n /\ \A s \in 1..Len(requests) : requests'[s] = requests[s]
        /\ requests'[n] = [group |-> group, status |-> "pending"]
    BY PredictShape
  <2> QED BY <2>1, <2>2
<1>2. Submit(new) /\ Call("predict") BY DEF Predict
<1>3. ~stopping /\ untold = {} /\ UNCHANGED <<inbox, pump, job>> BY <1>2, CallFrame
<1>4. new \in JobShape /\ new.kind = "predict" /\ new.about = n
  <2>1. "predict" \in Kinds BY KindsThere
  <2> HIDE DEF n
  <2> QED BY <1>1, <2>1, JobsThere
<1> HIDE DEF new, n
<1>5. ~IsQueued(n) /\ ~IsUnderWay(n) /\ ~IsPosted(n) BY <1>1, NoneOutside
<1>6. \A k \in 1..Len(jobs) : jobs[k].kind = "predict" => jobs[k].about # n
  BY <1>5 DEF IsQueued, IsPrediction
<1>7. /\ \A s : IsQueued(s)' <=> s = n \/ (IsQueued(s) /\ s \notin untold')
      /\ \A s \in untold' : IsQueued(s)
      /\ QueuedOnce'
  BY <1>2, <1>3, <1>4, <1>6, PredictionSubmitted DEF Placed
<1>8. PostedOnce' /\ \A s : IsPosted(s)' <=> IsPosted(s)
  BY <1>3 DEF Placed, PostedOnce, IsPosted, IsResult
<1>9. \A s : IsUnderWay(s)' <=> IsUnderWay(s) BY <1>3 DEF IsUnderWay, Busy, IsPrediction
<1>10. \A s \in 1..Len(requests') : InOnePlace(s)'
  <2> TAKE s \in 1..Len(requests')
  <2>1. CASE s = n
    BY <1>1, <2>1, <1>5, <1>7, <1>8, <1>9 DEF Backend!Pending, InOnePlace
  <2>2. CASE s \in 1..Len(requests)
    BY <2>2, <1>1, <1>3, <1>7, <1>8, <1>9 DEF Placed, Backend!Pending, InOnePlace
  <2> QED BY <1>1, <2>1, <2>2
<1> QED BY <1>7, <1>8, <1>10 DEF Placed

\* The text service's calls.
LEMMA UiCallPlaced ==
  ASSUME Shape, OnePlace, UiCall
  PROVE  OnePlace'
<1>1. CASE Close BY <1>1 DEF Close, OnePlace
<1>2. CASE ~Close
  <2>1. PICK operation : Call(operation)
    BY <1>2 DEF UiCall, RefreshInputMode, ToggleInputMode, Ready, Prefill, Predict,
                RecordCommit, DiscardCommit
  <2>2. Placed BY <2>1, CallFrame DEF OnePlace
  <2>3. CASE \E group \in Groups : Predict(group)
    BY <2>2, <2>3, PredictPlaced DEF OnePlace
  <2>4. CASE RefreshInputMode
    BY <2>2, <2>4, QueryThere, CallPlaced DEF RefreshInputMode, OnePlace
  <2>5. CASE ToggleInputMode
    BY <2>2, <2>5, ToggleThere, CallPlaced DEF ToggleInputMode, OnePlace
  <2>6. CASE Ready
    BY PlainThere, <2>2, <2>6, CallPlaced DEF Ready, OnePlace
  <2>7. CASE Prefill
    BY PlainThere, <2>2, <2>7, CallPlaced DEF Prefill, OnePlace
  <2>8. CASE RecordCommit
    BY KindsThere, JobsThere, <2>2, <2>8, CallPlaced DEF Shape, UiShape, RecordCommit,
       OnePlace
  <2>9. CASE DiscardCommit
    <3>1. PICK token \in 1..commits : Submit(Job("discard", 0, token))
      BY <2>9 DEF DiscardCommit
    <3>2. "discard" \in Kinds /\ token \in Nat BY KindsThere DEF Shape, UiShape
    <3>3. /\ Job("discard", 0, token) \in JobShape /\ Job("discard", 0, token).kind = "discard"
      BY <3>2, JobsThere
    <3>4. Call("discard") /\ UNCHANGED requests BY <2>9 DEF DiscardCommit
    <3> QED BY <2>2, <3>1, <3>3, <3>4, CallPlaced DEF OnePlace
  <2> QED BY <1>2, <2>3, <2>4, <2>5, <2>6, <2>7, <2>8, <2>9 DEF UiCall
<1> QED BY <1>1, <1>2

LEMMA TellPlaced ==
  ASSUME Shape, Placed, TellSuperseded
  PROVE  Placed'
<1>1. UNCHANGED <<requests, jobs, pump, job>> /\ owner = "running"
  BY DEF TellSuperseded, worker
<1>2. PICK s \in untold : untold' = untold \ {s} /\ Post(<<ResultTask(s, "superseded")>>)
  BY DEF TellSuperseded
<1>3. DOMAIN requests = 1..Len(requests) /\ s \in 1..Len(requests)
  BY DEF Shape, RequestsShape
<1>4. InOnePlace(s) BY <1>3 DEF Placed
<1>5. ~IsPosted(s) /\ ~IsQueued(s) /\ ~IsUnderWay(s) /\ Backend!Pending(s)
  BY <1>4 DEF InOnePlace
<1> DEFINE tasks == <<ResultTask(s, "superseded")>>
<1>6. /\ tasks \in Seq(TaskShape) /\ Len(tasks) = 1 /\ tasks[1].task = "result"
      /\ tasks[1].about = s
  BY <1>3 DEF ResultTask, TaskShape, Values, Backend!Results
<1> HIDE DEF tasks
<1>7. /\ PostedOnce'
      /\ \A u : IsPosted(u)' <=> IsPosted(u) \/ \E i \in 1..Len(tasks) : IsResult(tasks[i], u)
  <2>1. Post(tasks) BY <1>2 DEF tasks
  <2>2. \A i, k \in 1..Len(tasks) :
          tasks[i].task = "result" /\ tasks[k].task = "result" => i = k /\ tasks[i].about = s
    BY <1>6
  <2> QED BY <1>1, <1>5, <1>6, <2>1, <2>2, ResultsPosted DEF Placed
<1>8. \A u : IsPosted(u)' <=> IsPosted(u) \/ u = s BY <1>6, <1>7 DEF IsResult
<1>9. /\ QueuedOnce' /\ \A u : IsQueued(u)' <=> IsQueued(u)
      /\ \A u : IsUnderWay(u)' <=> IsUnderWay(u)
      /\ \A u : Backend!Pending(u)' <=> Backend!Pending(u)
  BY <1>1 DEF Placed, QueuedOnce, IsQueued, IsUnderWay, IsPrediction, Busy, Backend!Pending
<1>10. \A u \in 1..Len(requests') : InOnePlace(u)'
  <2> TAKE u \in 1..Len(requests')
  <2>1. InOnePlace(u) BY <1>1 DEF Placed
  <2>2. CASE u = s BY <1>2, <1>5, <1>8, <1>9, <2>2 DEF InOnePlace
  <2>3. CASE u # s BY <1>2, <1>8, <1>9, <2>1, <2>3 DEF InOnePlace
  <2> QED BY <2>2, <2>3
<1> QED BY <1>7, <1>9, <1>10 DEF Placed
\* An answer arrives.
LEMMA ResultPlaced ==
  ASSUME Shape, Placed, TakeResult
  PROVE  Placed'
<1>0. PICK s : s = inbox[1].about OBVIOUS
<1>1. /\ s \in 1..Len(requests) /\ inbox[1].value \in Backend!Results
      /\ requests' = [requests EXCEPT ![s].status = inbox[1].value]
      /\ GroupsKept /\ Len(requests') = Len(requests)
  BY <1>0, ResultKept
<1>2. UNCHANGED <<untold, jobs>> /\ Take("result") BY DEF TakeResult
<1>3. UNCHANGED <<pump, job>> BY <1>1, <1>2, TakeShape
<1>4. inbox[1].task = "result" /\ Len(inbox) \in Nat /\ Len(inbox) > 0
  BY <1>2, AfterTake DEF Shape, InboxShape
<1>5. requests \in Seq(Backend!Request) BY DEF Shape, RequestsShape
<1>6. ~Backend!Pending(s)' /\ \A u \in 1..Len(requests) : u # s =>
        (Backend!Pending(u)' <=> Backend!Pending(u))
  BY <1>1, <1>5 DEF Backend!Request, Backend!Results, Backend!Pending
<1>7. PostedOnce' /\ \A u : IsPosted(u)' <=> IsPosted(u) /\ ~IsResult(inbox[1], u)
  BY <1>2, ResultTaken DEF Placed
<1>8. /\ QueuedOnce' /\ \A u : IsQueued(u)' <=> IsQueued(u)
      /\ \A u : IsUnderWay(u)' <=> IsUnderWay(u)
  BY <1>2, <1>3 DEF Placed, QueuedOnce, IsQueued, IsUnderWay, IsPrediction, Busy
<1>9. \A u : IsResult(inbox[1], u) <=> u = s BY <1>0, <1>4 DEF IsResult
<1>10. IsPosted(s) BY <1>4, <1>9 DEF IsPosted
<1>11. \A u \in 1..Len(requests') : InOnePlace(u)'
  <2> TAKE u \in 1..Len(requests')
  <2>1. InOnePlace(u) BY <1>1 DEF Placed
  <2>2. CASE u = s
    BY <1>2, <1>6, <1>7, <1>8, <1>9, <1>10, <2>1, <2>2 DEF InOnePlace
  <2>3. CASE u # s
    BY <1>1, <1>6, <2>3, <1>2, <1>7, <1>8, <1>9, <2>1 DEF InOnePlace
  <2> QED BY <2>2, <2>3
<1> QED BY <1>7, <1>8, <1>11 DEF Placed

LEMMA UiStepPlaced ==
  ASSUME Shape, OnePlace, UiStep
  PROVE  OnePlace'
<1>1. CASE TellSuperseded
  BY <1>1, TellPlaced DEF TellSuperseded, OnePlace
<1>2. CASE TakeState \/ TakeMode
  <2>1. PICK task \in {"state", "mode"} : Take(task) BY <1>2 DEF TakeState, TakeMode
  <2>2. UNCHANGED <<requests, untold, jobs>> BY <1>2 DEF TakeState, TakeMode
  <2>3. UNCHANGED <<pump, job>> /\ owner = "running"
    BY <2>1, <2>2, SameRequests, TakeShape
  <2>4. inbox[1].task # "result" BY <2>1, AfterTake DEF Shape, InboxShape
  <2>5. PostedOnce' /\ \A s : IsPosted(s)' <=> IsPosted(s)
    BY <2>1, <2>3, <2>4, ResultTaken DEF OnePlace, Placed, IsResult
  <2>6. \A s : IsUnderWay(s)' <=> IsUnderWay(s) BY <2>3 DEF IsUnderWay, Busy, IsPrediction
  <2> QED BY <2>2, <2>3, <2>5, <2>6, PlacedFrame DEF OnePlace
<1>3. CASE TakeResult
  BY <1>3, ResultPlaced DEF TakeResult, Take, UiFree, OnePlace
<1>4. CASE TakeRetry
  <2>1. UNCHANGED requests /\ Take("retry") /\ Submit(Job("query", 0, ui.revision))
    BY <1>4 DEF TakeRetry
  <2>2. UNCHANGED <<pump, job>> /\ owner = "running" /\ ~stopping /\ untold = {}
    BY <2>1, SameRequests, TakeShape
  <2>3. inbox[1].task # "result" BY <2>1, AfterTake DEF Shape, InboxShape
  <2>4. PostedOnce' /\ \A s : IsPosted(s)' <=> IsPosted(s)
    BY <2>1, <2>2, <2>3, ResultTaken DEF OnePlace, Placed, IsResult
  <2>5. \A s : IsUnderWay(s)' <=> IsUnderWay(s) BY <2>2 DEF IsUnderWay, Busy, IsPrediction
  <2>6. QueuedOnce' /\ (\A s : IsQueued(s)' <=> IsQueued(s)) /\ untold' = {}
    BY <2>1, <2>2, QueryThere, OtherSubmitted DEF OnePlace, Placed
  <2> QED BY <2>1, <2>2, <2>4, <2>5, <2>6, PlacedFrame DEF OnePlace
<1>5. CASE Destroy \/ Join BY <1>5 DEF Destroy, Join, OnePlace
<1> QED BY <1>1, <1>2, <1>3, <1>4, <1>5 DEF UiStep

\* The job under way is done: its result, if it has one, is posted.
LEMMA DonePlaced ==
  ASSUME Shape, Placed, owner = "running", Busy, ~Busy', UNCHANGED <<requests, untold, jobs>>,
         NEW p, NEW answer, Answers(answer), Post(Told(p, answer))
  PROVE  Placed'
<1>1. /\ QueuedOnce' /\ \A s : IsQueued(s)' <=> IsQueued(s)
      /\ \A s : ~IsUnderWay(s)'
      /\ \A s : Backend!Pending(s)' <=> Backend!Pending(s)
  BY DEF Placed, QueuedOnce, IsQueued, IsUnderWay, IsPrediction, Backend!Pending
<1> DEFINE tasks == Told(p, answer)
<1>2. tasks \in Seq(TaskShape) BY ToldTasks
<1>3. PostedOnce' /\ \A s : IsPosted(s)' <=> IsPosted(s) \/ IsUnderWay(s)
  <2>1. CASE job.kind = "predict"
    <3>1. /\ Len(tasks) = 2 /\ tasks[1].task = "state"
          /\ tasks[2].task = "result" /\ tasks[2].about = job.about
      BY <2>1, ToldTasks DEF AsksMode
    <3>2. IsUnderWay(job.about) BY <2>1 DEF IsUnderWay, IsPrediction
    <3>3. job.about \in 1..Len(requests) BY <3>2, NoneOutside
    <3>4. ~IsPosted(job.about) BY <3>2, <3>3 DEF Placed, InOnePlace
    <3> HIDE DEF tasks
    <3>5. /\ PostedOnce'
          /\ \A s : IsPosted(s)' <=> IsPosted(s) \/ \E i \in 1..Len(tasks) : IsResult(tasks[i], s)
      <4>1. Post(tasks) BY DEF tasks
      <4>2. \A i, k \in 1..Len(tasks) : tasks[i].task = "result" /\ tasks[k].task = "result"
              => i = k /\ tasks[i].about = job.about
        BY <3>1
      <4> QED BY <1>2, <3>4, <4>1, <4>2, ResultsPosted DEF Placed
    <3>6. \A s : (\E i \in 1..Len(tasks) : IsResult(tasks[i], s)) <=> s = job.about
      BY <3>1 DEF IsResult
    <3>7. \A s : IsUnderWay(s) <=> s = job.about BY <2>1 DEF IsUnderWay, IsPrediction
    <3> QED BY <3>5, <3>6, <3>7
  <2>2. CASE job.kind # "predict"
    <3>1. \A i \in 1..Len(tasks) : tasks[i].task # "result"
      BY <2>2, ToldTasks
    <3>2. ~IsPosted(0) BY NoneOutside DEF Shape, RequestsShape
    <3> HIDE DEF tasks
    <3>3. /\ PostedOnce'
          /\ \A s : IsPosted(s)' <=> IsPosted(s) \/ \E i \in 1..Len(tasks) : IsResult(tasks[i], s)
      BY <1>2, <3>1, <3>2, ResultsPosted DEF tasks, Placed
    <3>4. \A s : ~IsUnderWay(s) BY <2>2 DEF IsUnderWay, IsPrediction
    <3> QED BY <3>1, <3>3, <3>4 DEF IsResult
  <2> QED BY <2>1, <2>2
<1>4. \A s \in 1..Len(requests') : InOnePlace(s)'
  <2> TAKE s \in 1..Len(requests')
  <2>1. InOnePlace(s) BY DEF Placed
  <2> QED BY <1>1, <1>3, <2>1 DEF InOnePlace
<1> QED BY <1>1, <1>3, <1>4 DEF Placed

LEMMA OutsidePlaced ==
  ASSUME Shape, CommitInv, OnePlace, PumpStep \/ Complete \/ ServiceStarts \/ ServiceEnds
  PROVE  OnePlace'
<1> SUFFICES ASSUME owner = "running" PROVE Placed'
  BY OutsideFrame DEF OnePlace
<1>1. UNCHANGED <<requests, untold, owner, stopping>> /\ ~stopping
  BY OutsideFrame DEF Shape, OwnerShape
<1>2. Placed BY DEF OnePlace
<1>3. CASE Start \/ Waken \/ Skip \/ Connect \/ Transfer \/ ServiceStarts \/ ServiceEnds
  <2>1. UNCHANGED <<inbox, jobs>>
    BY <1>3 DEF Start, Waken, Skip, Connect, Transfer, ServiceStarts, ServiceEnds, worker
  <2>2. \A s : IsUnderWay(s)' <=> IsUnderWay(s)
    BY <1>3 DEF Start, Waken, Skip, Connect, Transfer, ServiceStarts, ServiceEnds, worker,
                IsUnderWay, Busy, IsPrediction, Needless
  <2> QED BY <1>1, <1>2, <2>1, <2>2, PlacedFrame
<1>4. CASE Check
  <2>1. UNCHANGED inbox /\ pump = "check" BY <1>4 DEF Check
  <2>2. \A s : ~IsUnderWay(s) BY <2>1 DEF IsUnderWay, Busy
  <2>3. CASE jobs = <<>>
    BY <1>1, <1>4, <2>3, <1>2, <2>1, <2>2, PlacedFrame DEF Check, IsUnderWay, Busy
  <2>4. CASE jobs # <<>>
    <3>1. pump' = "begin" /\ job' = Head(jobs) /\ jobs' = Tail(jobs)
      BY <1>1, <1>4, <2>4 DEF Check
    <3>2. /\ Len(jobs) \in Nat /\ Len(jobs) > 0 /\ job' = jobs[1]
          /\ Len(jobs') = Len(jobs) - 1
          /\ \A i \in 1..Len(jobs') : i + 1 \in 1..Len(jobs) /\ jobs'[i] = jobs[i + 1]
      BY <2>4, <3>1 DEF Shape, JobsShape
    <3>3. \A i \in 1..Len(jobs) : i # 1 => i - 1 \in 1..Len(jobs') /\ jobs'[i - 1] = jobs[i]
      <4> TAKE i \in 1..Len(jobs)
      <4> HAVE i # 1
      <4>1. i - 1 \in 1..Len(jobs') /\ (i - 1) + 1 = i BY <3>2
      <4>2. jobs'[i - 1] = jobs[(i - 1) + 1] BY <3>2, <4>1
      <4> QED BY <4>1, <4>2
    <3>4. \A s : IsUnderWay(s)' <=> IsPrediction(jobs[1], s)
      BY <3>1, <3>2 DEF IsUnderWay, Busy, IsPrediction
    <3>5. QueuedOnce'
      BY <1>2, <3>2 DEF Placed, QueuedOnce
    <3>6. \A s : IsQueued(s)' <=> IsQueued(s) /\ ~IsPrediction(jobs[1], s)
      <4>1. ASSUME NEW s, IsQueued(s)' PROVE IsQueued(s) /\ ~IsPrediction(jobs[1], s)
        <5>1. PICK i \in 1..Len(jobs') : jobs'[i].kind = "predict" /\ jobs'[i].about = s
          BY <4>1 DEF IsQueued, IsPrediction
        <5>2. i + 1 \in 1..Len(jobs) /\ IsPrediction(jobs[i + 1], s)
          BY <3>2, <5>1 DEF IsPrediction
        <5>3. ASSUME IsPrediction(jobs[1], s) PROVE FALSE
          BY <1>2, <3>2, <5>2, <5>3 DEF Placed, QueuedOnce, IsPrediction
        <5> QED BY <5>2, <5>3 DEF IsQueued
      <4>2. ASSUME NEW s, IsQueued(s), ~IsPrediction(jobs[1], s) PROVE IsQueued(s)'
        <5>1. PICK i \in 1..Len(jobs) : IsPrediction(jobs[i], s) BY <4>2 DEF IsQueued
        <5>2. i # 1 BY <4>2, <5>1
        <5>3. i - 1 \in 1..Len(jobs') /\ jobs'[i - 1] = jobs[i] BY <3>3, <5>2
        <5> QED BY <5>1, <5>3 DEF IsQueued, IsPrediction
      <4> QED BY <4>1, <4>2
    <3>7. \A s : IsPrediction(jobs[1], s) => IsQueued(s) BY <3>2 DEF IsQueued
    <3>8. /\ PostedOnce' /\ \A s : IsPosted(s)' <=> IsPosted(s)
          /\ \A s : Backend!Pending(s)' <=> Backend!Pending(s)
      BY <1>1, <1>2, <2>1 DEF Placed, PostedOnce, IsPosted, IsResult, Backend!Pending
    <3>9. \A s \in 1..Len(requests') : InOnePlace(s)'
      <4> TAKE s \in 1..Len(requests')
      <4>1. InOnePlace(s) BY <1>1, <1>2 DEF Placed
      <4> QED BY <1>1, <2>2, <3>4, <3>6, <3>7, <3>8, <4>1 DEF InOnePlace
    <3> QED BY <3>5, <3>8, <3>9 DEF Placed
  <2> QED BY <2>3, <2>4
<1>5. CASE Probe
  <2>1. UNCHANGED jobs /\ pump = "doze" /\ pump' = "check" BY <1>5 DEF Probe
  <2>2. \A s : IsUnderWay(s)' <=> IsUnderWay(s) BY <2>1 DEF IsUnderWay, Busy
  <2> DEFINE tasks == <<RetryTask>>
  <2>3. tasks \in Seq(TaskShape) /\ Len(tasks) = 1 /\ tasks[1].task = "retry"
    <3>1. RetryTask \in TaskShape /\ RetryTask.task = "retry"
      BY DEF RetryTask, TaskShape, Values
    <3> QED BY <3>1
  <2>4. ~IsPosted(0) BY NoneOutside DEF Shape, RequestsShape
  <2>5. Post(tasks) BY <1>5 DEF Probe
  <2> HIDE DEF tasks
  <2>6. \A i \in 1..Len(tasks) : tasks[i].task # "result" BY <2>3
  <2>7. /\ PostedOnce'
        /\ \A s : IsPosted(s)' <=> IsPosted(s) \/ \E i \in 1..Len(tasks) : IsResult(tasks[i], s)
    BY <1>2, <2>3, <2>4, <2>5, <2>6, ResultsPosted DEF Placed
  <2>8. \A s : IsPosted(s)' <=> IsPosted(s) BY <2>6, <2>7 DEF IsResult
  <2> QED BY <1>1, <1>2, <2>1, <2>2, <2>7, <2>8, PlacedFrame
<1>6. CASE CannotConnect
  BY <1>6, <1>1, <1>2, FailureAnswers, DonePlaced DEF CannotConnect, Busy
<1>7. CASE Complete
  BY <1>7, <1>1, <1>2, SuccessAnswers, DonePlaced DEF Complete, Busy
<1>8. CASE Fail
  BY <1>8, <1>1, <1>2, FailureAnswers, DonePlaced DEF Fail, Busy
<1> QED BY <1>3, <1>4, <1>5, <1>6, <1>7, <1>8 DEF PumpStep

LEMMA InitPlaced == Init => OnePlace
<1> SUFFICES ASSUME Init PROVE Placed
  BY DEF OnePlace
<1>1. requests = <<>> /\ inbox = <<>> /\ Len(jobs) = 1
  BY DEF Init
<1>2. QueuedOnce /\ PostedOnce BY <1>1 DEF QueuedOnce, PostedOnce
<1> QED BY <1>1, <1>2 DEF Placed

\* The places are kept by every step.
LEMMA NextPlaced == Shape /\ CommitInv /\ OnePlace /\ [Next]_vars => OnePlace'
<1> SUFFICES ASSUME Shape, CommitInv, OnePlace, [Next]_vars PROVE OnePlace'
  OBVIOUS
<1>1. CASE UNCHANGED vars
  BY <1>1, PlacedFrame DEF vars, textService, worker, IsUnderWay, Busy, IsPrediction,
     OnePlace
<1>2. CASE Next BY <1>2, UiCallPlaced, UiStepPlaced, OutsidePlaced DEF Next
<1> QED BY <1>1, <1>2

\* The inductive invariant of the answers.
AnswerInv == CommitInv /\ Shape /\ OnePlace

LEMMA InitAnswer == Init => AnswerInv
  BY InitCommit, InitShape, InitPlaced DEF AnswerInv

LEMMA NextAnswer == AnswerInv /\ [Next]_vars => AnswerInv'
  BY NextCommit, NextShape, NextPlaced DEF AnswerInv

\* The places as the property counts them.
LEMMA OneSource ==
  ASSUME Shape, Placed, NEW s \in DOMAIN requests
  PROVE  Cardinality(Sources(s)) = IF Backend!Pending(s) THEN 1 ELSE 0
<1>1. DOMAIN requests = 1..Len(requests) BY DEF Shape, RequestsShape
<1>2. DOMAIN jobs = 1..Len(jobs) /\ DOMAIN inbox = 1..Len(inbox)
  BY DEF Shape, JobsShape, InboxShape
<1>3. InOnePlace(s) BY <1>1 DEF Placed
<1> DEFINE Untold == {<<"untold", 0>> : u \in untold \intersect {s}}
           UnderWay == {<<"job", 0>> : b \in {TRUE} \intersect {Busy /\ IsPrediction(job, s)}}
           Queued == {<<"jobs", i>> : i \in {k \in DOMAIN jobs : IsPrediction(jobs[k], s)}}
           Posted == {<<"inbox", i>> : i \in {k \in DOMAIN inbox :
                                                inbox[k].task = "result" /\ inbox[k].about = s}}
<1>4. Sources(s) = Untold \union UnderWay \union Queued \union Posted BY DEF Sources
<1>5. Untold = IF s \in untold THEN {<<"untold", 0>>} ELSE {} OBVIOUS
<1>6. UnderWay = IF IsUnderWay(s) THEN {<<"job", 0>>} ELSE {} BY DEF IsUnderWay
<1>7. IF IsQueued(s) THEN \E p : Queued = {p} ELSE Queued = {}
  <2>1. CASE IsQueued(s)
    <3>1. PICK i \in 1..Len(jobs) : IsPrediction(jobs[i], s) BY <2>1 DEF IsQueued
    <3>2. \A k \in 1..Len(jobs) : IsPrediction(jobs[k], s) => k = i
      BY <3>1 DEF Placed, QueuedOnce, IsPrediction
    <3>3. {k \in DOMAIN jobs : IsPrediction(jobs[k], s)} = {i} BY <1>2, <3>1, <3>2
    <3>4. Queued = {<<"jobs", i>>} BY <3>3
    <3> HIDE DEF Queued
    <3> QED BY <2>1, <3>4
  <2>2. CASE ~IsQueued(s)
    BY <1>2, <2>2 DEF IsQueued
  <2> QED BY <2>1, <2>2
<1>8. IF IsPosted(s) THEN \E p : Posted = {p} ELSE Posted = {}
  <2> DEFINE at == {k \in DOMAIN inbox : inbox[k].task = "result" /\ inbox[k].about = s}
  <2>1. CASE IsPosted(s)
    <3>1. PICK i \in 1..Len(inbox) : inbox[i].task = "result" /\ inbox[i].about = s
      BY <2>1 DEF IsPosted, IsResult
    <3>2. \A k \in 1..Len(inbox) : inbox[k].task = "result" /\ inbox[k].about = s => k = i
      BY <3>1 DEF Placed, PostedOnce
    <3>3. at = {i} BY <1>2, <3>1, <3>2
    <3>4. Posted = {<<"inbox", i>>} BY <3>3
    <3> HIDE DEF Posted
    <3> QED BY <2>1, <3>4
  <2>2. CASE ~IsPosted(s)
    BY <1>2, <2>2 DEF IsPosted, IsResult
  <2> QED BY <2>1, <2>2
<1> HIDE DEF Untold, UnderWay, Queued, Posted
<1>9. CASE Backend!Pending(s)
  <2>1. \E p : Sources(s) = {p}
    BY <1>3, <1>4, <1>5, <1>6, <1>7, <1>8, <1>9 DEF InOnePlace
  <2> QED BY <1>9, <2>1, FS_Singleton
<1>10. CASE ~Backend!Pending(s)
  BY <1>3, <1>4, <1>5, <1>6, <1>7, <1>8, <1>10, FS_EmptySet DEF InOnePlace
<1> QED BY <1>9, <1>10

\* A prediction that is not answered is in exactly one place its answer can come
\* from, an answered one in none: no result is lost or told twice by submit, pump
\* or the tasks of the UI thread, whatever is replaced, fails or is retried.
THEOREM AnswerOnItsWayAlways == Spec => []Bookkeeping
<1>1. AnswerInv => Bookkeeping
  <2> SUFFICES ASSUME AnswerInv PROVE Bookkeeping
    OBVIOUS
  <2>1. CommitInv /\ Shape /\ OnePlace BY DEF AnswerInv
  <2>2. AnswerOnItsWay BY <2>1, OneSource DEF OnePlace, AnswerOnItsWay
  <2>3. RequestsShape /\ UiShape /\ OwnerShape BY <2>1 DEF Shape
  <2>4. PumpShape /\ ServiceShape BY <2>1 DEF Shape
  <2>5. \A i \in DOMAIN inbox : inbox[i].task \in {"state", "mode", "result", "retry"}
    <3>1. inbox \in Seq(TaskShape) BY <2>1 DEF Shape, InboxShape
    <3>2. \A i \in DOMAIN inbox : inbox[i] \in TaskShape BY <3>1
    <3> QED BY <3>2 DEF TaskShape
  <2>6. \A i \in DOMAIN jobs : jobs[i].kind \in Kinds
    <3>1. jobs \in Seq(JobShape) BY <2>1 DEF Shape, JobsShape
    <3>2. \A i \in DOMAIN jobs : jobs[i] \in JobShape BY <3>1
    <3> QED BY <3>2 DEF JobShape
  <2>7. memory.through \in 0..memory.wire BY <2>1 DEF CommitInv, NumbersUsed
  <2>8. Busy => job.kind \in Kinds BY <2>4 DEF PumpShape, JobShape
  <2>9. TypeOK
    BY <2>3, <2>4, <2>5, <2>6, <2>7, <2>8
       DEF TypeOK, RequestsShape, UiShape, OwnerShape, PumpShape, ServiceShape
  <2> QED BY <2>2, <2>9 DEF Bookkeeping
<1> QED BY <1>1, InitAnswer, NextAnswer, PTL DEF Spec

\* Every step of the worker is one of the backend, or leaves the requests alone.
LEMMA BackendStep ==
  ASSUME AnswerInv, [Next]_vars
  PROVE  [Backend!Next]_requests
<1>0. CommitInv /\ Shape /\ OnePlace BY DEF AnswerInv
<1>1. CASE UNCHANGED vars BY <1>1 DEF vars, textService
<1>2. CASE UiCall
  <2>1. CASE \E group \in Groups : Predict(group)
    BY <2>1 DEF Predict, Backend!Next, Backend!Predict
  <2>2. CASE ~\E group \in Groups : Predict(group)
    BY <1>2, <2>2 DEF UiCall, RefreshInputMode, ToggleInputMode, Ready, Prefill,
       RecordCommit, DiscardCommit, Close
  <2> QED BY <2>1, <2>2
<1>3. CASE UiStep
  <2>1. CASE TakeResult
    <3>1. PICK s : s = inbox[1].about OBVIOUS
    <3>2. PICK result : result = inbox[1].value OBVIOUS
    <3>3. /\ s \in 1..Len(requests) /\ result \in Backend!Results
          /\ requests' = [requests EXCEPT ![s].status = result]
          /\ result = "superseded" => Backend!MadeLater(s)
      BY <1>0, <2>1, <3>1, <3>2, ResultKept
    <3>4. owner = "running" /\ Take("result") BY <2>1 DEF TakeResult, Take, UiFree
    <3>5. inbox[1].task = "result" /\ 1 \in 1..Len(inbox)
      BY <1>0, <3>4, AfterTake DEF Shape, InboxShape
    <3>6. IsPosted(s) BY <3>1, <3>5 DEF IsPosted, IsResult
    <3>7. Backend!Pending(s) BY <1>0, <3>3, <3>4, <3>6 DEF OnePlace, Placed, InOnePlace
    <3>8. Backend!Answer(s, result) BY <3>3, <3>7 DEF Backend!Answer
    <3>9. s \in DOMAIN requests BY <1>0, <3>3 DEF Shape, RequestsShape
    <3> QED BY <3>3, <3>8, <3>9 DEF Backend!Next
  <2>2. CASE ~TakeResult
    BY <1>3, <2>2 DEF UiStep, TellSuperseded, TakeState, TakeMode, TakeRetry, Destroy, Join
  <2> QED BY <2>1, <2>2
<1>4. CASE PumpStep \/ Complete \/ ServiceStarts \/ ServiceEnds BY <1>0, <1>4, OutsideFrame
<1> QED BY <1>1, <1>2, <1>3, <1>4 DEF Next

\* EngineWorker is a ConversionBackend: each step answers at most one request, once,
\* and with "superseded" only if a newer one of the same composition was made.
THEOREM ImplementsBackend == Spec => IsBackend
<1>1. Init => Backend!Init BY DEF Init, Backend!Init
<1>2. AnswerInv /\ [Next]_vars => [Backend!Next]_requests BY BackendStep
<1> QED BY <1>1, <1>2, InitAnswer, NextAnswer, PTL DEF Spec, IsBackend, Backend!Spec

-----------------------------------------------------------------------------
(***************************************************************************)
(* The order of toggles and answers.                                       *)
(***************************************************************************)

\* No answer comes from a later revision than the text service's.
NotAhead ==
  /\ \A i \in 1..Len(jobs) : AsksMode(jobs[i]) => jobs[i].about <= ui.revision
  /\ Busy /\ AsksMode(job) => job.about <= ui.revision
  /\ \A i \in 1..Len(inbox) : inbox[i].task = "mode" => inbox[i].about <= ui.revision

\* What was asked before a toggle was made has an earlier revision.
AsksBefore(k) ==
  /\ \A i \in 1..Len(jobs) : i < k /\ AsksMode(jobs[i]) => jobs[i].about < jobs[k].about
  /\ Busy /\ AsksMode(job) => job.about < jobs[k].about
  /\ \A i \in 1..Len(inbox) : inbox[i].task = "mode" => inbox[i].about < jobs[k].about
ToggleBehind ==
  /\ \A k \in 1..Len(jobs) : jobs[k].kind = "toggle" => AsksBefore(k)
  /\ Busy /\ job.kind = "toggle" =>
       \A i \in 1..Len(inbox) : inbox[i].task = "mode" => inbox[i].about < job.about

InOrder == NotAhead /\ ToggleBehind

\* Every answer posted was there before.
NoNewAnswer ==
  \A i \in 1..Len(inbox') :
    inbox'[i].task = "mode" => \E k \in 1..Len(inbox) : inbox'[i] = inbox[k]

LEMMA Numbers ==
  ASSUME Shape
  PROVE  /\ ui.revision \in Nat
         /\ \A i \in 1..Len(jobs) : jobs[i].about \in Nat
         /\ \A i \in 1..Len(inbox) : inbox[i].about \in Nat
         /\ Busy => job.about \in Nat
<1>1. ui.revision \in Nat BY DEF Shape, UiShape
<1>2. jobs \in Seq(JobShape) /\ inbox \in Seq(TaskShape) BY DEF Shape, JobsShape, InboxShape
<1>3. \A i \in 1..Len(jobs) : jobs[i] \in JobShape BY <1>2
<1>4. \A i \in 1..Len(inbox) : inbox[i] \in TaskShape BY <1>2
<1>5. Busy => job \in JobShape BY DEF Shape, PumpShape
<1> QED BY <1>1, <1>3, <1>4, <1>5 DEF JobShape, TaskShape

LEMMA OrderFrame ==
  ASSUME Shape, Shape', InOrder, NoNewAnswer,
         UNCHANGED jobs \/ Len(jobs') = 0,
         ui'.revision >= ui.revision,
         Busy' => Busy /\ UNCHANGED job
  PROVE  InOrder'
<1>1. /\ ui.revision \in Nat /\ ui'.revision \in Nat
      /\ \A i \in 1..Len(jobs) : jobs[i].about \in Nat
      /\ \A i \in 1..Len(inbox) : inbox[i].about \in Nat
      /\ Busy => job.about \in Nat
  BY Numbers DEF Shape, UiShape
<1>2. \A i \in 1..Len(jobs') : i \in 1..Len(jobs) /\ jobs'[i] = jobs[i] OBVIOUS
<1>3. NotAhead'
  BY <1>1, <1>2 DEF InOrder, NotAhead, NoNewAnswer, AsksMode
<1>4. ToggleBehind'
  BY <1>2 DEF InOrder, ToggleBehind, AsksBefore, NoNewAnswer, AsksMode
<1> QED BY <1>3, <1>4 DEF InOrder

LEMMA OrderSubmitted ==
  ASSUME Shape, Shape', InOrder, NoNewAnswer, NEW new \in JobShape, ~stopping, Submit(new),
         AsksMode(new) => new.about = ui'.revision,
         ui'.revision >= ui.revision,
         new.kind = "toggle" => ui'.revision > ui.revision,
         UNCHANGED <<pump, job>>
  PROVE  InOrder'
<1>0. PICK m, at : Submitted(new, m, at) BY AfterSubmit DEF Shape
<1>1. /\ ui.revision \in Nat /\ ui'.revision \in Nat
      /\ \A i \in 1..Len(jobs) : jobs[i].about \in Nat
      /\ \A i \in 1..Len(inbox) : inbox[i].about \in Nat
      /\ Busy => job.about \in Nat
  BY Numbers DEF Shape, UiShape
<1>2. /\ \A i \in 1..m : jobs'[i] = jobs[at[i]] /\ at[i] \in 1..Len(jobs) /\ i \in 1..Len(jobs')
      /\ \A i \in 1..Len(jobs') : i \in 1..m \/ i = m + 1
      /\ jobs'[m + 1] = new /\ m \in Nat
      /\ \A i, k \in 1..m : i < k => at[i] < at[k]
  <2>1. /\ m \in Nat /\ Len(jobs') = m + 1 /\ at \in [1..m -> 1..Len(jobs)]
        /\ \A i, k \in 1..m : i < k => at[i] < at[k]
        /\ jobs'[m + 1] = new /\ \A i \in 1..m : jobs'[i] = jobs[at[i]]
    BY <1>0 DEF Submitted
  <2> QED BY <2>1
<1>3. Busy' <=> Busy BY DEF Busy
<1>4. NotAhead'
  <2>1. \A i \in 1..Len(jobs') : AsksMode(jobs'[i]) => jobs'[i].about <= ui'.revision
    <3> TAKE i \in 1..Len(jobs')
    <3>1. CASE i = m + 1 BY <1>1, <1>2, <3>1
    <3>2. CASE i \in 1..m
      <4>1. jobs'[i] = jobs[at[i]] /\ at[i] \in 1..Len(jobs) BY <1>2, <3>2
      <4>2. AsksMode(jobs[at[i]]) => jobs[at[i]].about <= ui.revision
        BY <4>1 DEF InOrder, NotAhead
      <4>3. jobs[at[i]].about \in Nat BY <1>1, <4>1
      <4> QED BY <1>1, <4>1, <4>2, <4>3
    <3> QED BY <1>2, <3>1, <3>2
  <2>2. Busy' /\ AsksMode(job') => job'.about <= ui'.revision
    BY <1>1, <1>3 DEF InOrder, NotAhead
  <2>3. \A i \in 1..Len(inbox') : inbox'[i].task = "mode" => inbox'[i].about <= ui'.revision
    BY <1>1 DEF InOrder, NotAhead, NoNewAnswer
  <2> QED BY <2>1, <2>2, <2>3 DEF NotAhead, AsksMode
<1>5. ToggleBehind'
  <2>1. ASSUME NEW k \in 1..Len(jobs'), jobs'[k].kind = "toggle" PROVE AsksBefore(k)'
    <3>1. CASE k = m + 1
      <4>1. jobs'[k].about = ui'.revision /\ ui'.revision > ui.revision
        BY <1>2, <2>1, <3>1 DEF AsksMode
      <4>2. ASSUME NEW i \in 1..Len(jobs'), i < k, AsksMode(jobs'[i])
            PROVE  jobs'[i].about < jobs'[k].about
        <5>1. i \in 1..m BY <1>2, <3>1, <4>2
        <5>2. jobs'[i] = jobs[at[i]] /\ at[i] \in 1..Len(jobs) BY <1>2, <5>1
        <5>3. jobs[at[i]].about <= ui.revision BY <4>2, <5>2 DEF InOrder, NotAhead
        <5>4. jobs[at[i]].about \in Nat BY <1>1, <5>2
        <5> QED BY <1>1, <4>1, <5>2, <5>3, <5>4
      <4>3. Busy' /\ AsksMode(job') => job'.about < jobs'[k].about
        BY <1>1, <1>3, <4>1 DEF InOrder, NotAhead
      <4>4. \A i \in 1..Len(inbox') : inbox'[i].task = "mode" => inbox'[i].about < jobs'[k].about
        BY <1>1, <4>1 DEF InOrder, NotAhead, NoNewAnswer
      <4> QED BY <4>2, <4>3, <4>4 DEF AsksBefore, AsksMode
    <3>2. CASE k \in 1..m
      <4>1. at[k] \in 1..Len(jobs) /\ jobs'[k] = jobs[at[k]] BY <1>2, <3>2
      <4>2. AsksBefore(at[k]) BY <2>1, <4>1 DEF InOrder, ToggleBehind
      <4>3. ASSUME NEW i \in 1..Len(jobs'), i < k, AsksMode(jobs'[i])
            PROVE  jobs'[i].about < jobs'[k].about
        <5>1. i \in 1..m BY <1>2, <3>2, <4>3
        <5>2. at[i] < at[k] /\ at[i] \in 1..Len(jobs) /\ jobs'[i] = jobs[at[i]]
          BY <1>2, <3>2, <4>3, <5>1
        <5> QED BY <4>1, <4>2, <4>3, <5>2 DEF AsksBefore
      <4>4. Busy' /\ AsksMode(job') => job'.about < jobs'[k].about
        BY <1>3, <4>1, <4>2 DEF AsksBefore
      <4>5. \A i \in 1..Len(inbox') : inbox'[i].task = "mode" => inbox'[i].about < jobs'[k].about
        BY <4>1, <4>2 DEF AsksBefore, NoNewAnswer
      <4> QED BY <4>3, <4>4, <4>5 DEF AsksBefore, AsksMode
    <3> QED BY <1>2, <3>1, <3>2
  <2>2. Busy' /\ job'.kind = "toggle" =>
          \A i \in 1..Len(inbox') : inbox'[i].task = "mode" => inbox'[i].about < job'.about
    BY <1>3 DEF InOrder, ToggleBehind, NoNewAnswer
  <2> QED BY <2>1, <2>2 DEF ToggleBehind
<1> QED BY <1>4, <1>5 DEF InOrder

\* The job under way is done, and its answer posted.
LEMMA OrderDone ==
  ASSUME Shape, Shape', InOrder, owner = "running", Busy, ~Busy', UNCHANGED <<ui, jobs>>,
         NEW p, NEW answer, Answers(answer), Post(Told(p, answer))
  PROVE  InOrder'
<1> DEFINE tasks == Told(p, answer)
<1>1. /\ inbox \in Seq(TaskShape) /\ inbox' \in Seq(TaskShape) /\ tasks \in Seq(TaskShape)
      /\ Len(inbox') = Len(inbox) + Len(tasks)
      /\ \A i \in 1..Len(inbox) : inbox'[i] = inbox[i]
      /\ \A i \in 1..Len(tasks) : inbox'[Len(inbox) + i] = tasks[i]
  BY ToldTasks, AfterPost DEF Shape, InboxShape
<1>2. \A i \in 1..Len(tasks) : tasks[i].task = "mode" => AsksMode(job) /\ tasks[i].about = job.about
  <2>1. CASE AsksMode(job)
    <3>1. Len(tasks) = 2 /\ tasks[1].task = "state" /\ tasks[2].about = job.about
      BY <2>1, ToldTasks DEF AsksMode
    <3> HIDE DEF tasks
    <3> QED BY <2>1, <3>1
  <2>2. CASE job.kind = "predict"
    <3>1. Len(tasks) = 2 /\ tasks[1].task = "state" /\ tasks[2].task = "result"
      BY <2>2, ToldTasks DEF AsksMode
    <3> HIDE DEF tasks
    <3> QED BY <3>1
  <2>3. CASE ~AsksMode(job) /\ job.kind # "predict"
    <3>1. Len(tasks) = 0 BY <2>3, ToldTasks
    <3> HIDE DEF tasks
    <3> QED BY <3>1
  <2> QED BY <2>1, <2>2, <2>3
<1> HIDE DEF tasks
<1>3. ASSUME NEW i \in 1..Len(inbox'), inbox'[i].task = "mode"
      PROVE  \/ i \in 1..Len(inbox) /\ inbox'[i] = inbox[i]
             \/ AsksMode(job) /\ inbox'[i].about = job.about
  <2>1. CASE i \in 1..Len(inbox) BY <1>1, <2>1
  <2>2. CASE i \notin 1..Len(inbox)
    <3>1. i - Len(inbox) \in 1..Len(tasks) /\ Len(inbox) + (i - Len(inbox)) = i BY <1>1, <2>2
    <3>2. inbox'[Len(inbox) + (i - Len(inbox))] = tasks[i - Len(inbox)] BY <1>1, <3>1
    <3> QED BY <1>2, <1>3, <3>1, <3>2
  <2> QED BY <2>1, <2>2
<1>4. NotAhead' BY <1>3 DEF InOrder, NotAhead, AsksMode
<1>5. ToggleBehind'
  BY <1>3 DEF InOrder, ToggleBehind, AsksBefore, AsksMode
<1> QED BY <1>4, <1>5 DEF InOrder

\* The next job is begun.
LEMMA OrderBegun ==
  ASSUME Shape, InOrder, ~Busy, jobs # <<>>, job' = Head(jobs), jobs' = Tail(jobs),
         UNCHANGED <<ui, inbox>>
  PROVE  InOrder'
<1>1. /\ Len(jobs) \in Nat /\ Len(jobs) > 0 /\ job' = jobs[1]
      /\ Len(jobs') = Len(jobs) - 1
      /\ \A i \in 1..Len(jobs') : i + 1 \in 1..Len(jobs) /\ jobs'[i] = jobs[i + 1]
  BY DEF Shape, JobsShape
<1>2. NotAhead' BY <1>1 DEF InOrder, NotAhead, AsksMode
<1>3. ToggleBehind'
  BY <1>1 DEF InOrder, ToggleBehind, AsksBefore, AsksMode
<1> QED BY <1>2, <1>3 DEF InOrder
LEMMA TakenBefore ==
  ASSUME Shape, NEW task, Take(task)
  PROVE  NoNewAnswer
BY AfterTake DEF Shape, InboxShape, NoNewAnswer

LEMMA PostedBefore ==
  ASSUME Shape, NEW t \in TaskShape, t.task # "mode", Post(<<t>>)
  PROVE  NoNewAnswer
<1> DEFINE tasks == <<t>>
<1>1. tasks \in Seq(TaskShape) /\ Len(tasks) = 1 /\ tasks[1] = t OBVIOUS
<1> HIDE DEF tasks
<1>2. Post(tasks) BY DEF tasks
<1>3. inbox \in Seq(TaskShape) BY DEF Shape, InboxShape
<1>4. /\ owner = "running" =>
           /\ Len(inbox') = Len(inbox) + 1
           /\ \A i \in 1..Len(inbox) : inbox'[i] = inbox[i]
           /\ inbox'[Len(inbox) + 1] = t
      /\ owner # "running" => inbox' = inbox
  <2>1. 1 \in 1..Len(tasks) BY <1>1
  <2> QED BY <1>1, <1>2, <1>3, <2>1, AfterPost
<1> QED BY <1>3, <1>4 DEF NoNewAnswer

LEMMA UiCallOrder ==
  ASSUME Shape, Shape', InOrder, UiCall
  PROVE  InOrder'
<1>1. CASE Close
  BY <1>1, Numbers, OrderFrame DEF Close, worker, NoNewAnswer, Busy
<1>2. ASSUME NEW operation, Call(operation), NEW new \in JobShape, Submit(new),
             AsksMode(new) => new.about = ui'.revision,
             ui'.revision >= ui.revision,
             new.kind = "toggle" => ui'.revision > ui.revision
      PROVE  InOrder'
  BY <1>2, CallFrame, OrderSubmitted DEF NoNewAnswer
<1>3. UNCHANGED ui => ui'.revision >= ui.revision BY Numbers
<1>4. CASE RefreshInputMode BY <1>2, <1>3, <1>4, QueryThere DEF RefreshInputMode
<1>5. CASE ToggleInputMode
  BY <1>5, <1>2, ToggleThere, Numbers DEF ToggleInputMode, Shape, UiShape
<1>6. CASE Ready
  BY PlainThere, <1>2, <1>3, <1>6 DEF Ready, AsksMode
<1>7. CASE Prefill
  BY PlainThere, <1>2, <1>3, <1>7 DEF Prefill, AsksMode
<1>8. CASE \E group \in Groups : Predict(group)
  <2>1. PICK group \in Groups : Predict(group) BY <1>8
  <2> DEFINE new == Job("predict", group, Len(requests) + 1)
  <2>2. new \in JobShape /\ new.kind = "predict"
    <3>1. "predict" \in Kinds /\ Len(requests) + 1 \in Nat
      BY KindsThere DEF Shape, RequestsShape
    <3> QED BY <3>1, JobsThere
  <2>3. Submit(new) /\ Call("predict") /\ UNCHANGED ui BY <2>1 DEF Predict
  <2> HIDE DEF new
  <2> QED BY <1>2, <1>3, <2>2, <2>3 DEF AsksMode
<1>9. CASE RecordCommit
  <2>1. "record" \in Kinds /\ commits + 1 \in Nat BY KindsThere DEF Shape, UiShape
  <2>2. /\ Job("record", 0, commits + 1) \in JobShape
        /\ Job("record", 0, commits + 1).kind = "record"
    BY <2>1, JobsThere
  <2> QED BY <1>2, <1>3, <1>9, <2>2 DEF RecordCommit, AsksMode
<1>10. CASE DiscardCommit
  <2>1. PICK token \in 1..commits : Submit(Job("discard", 0, token))
    BY <1>10 DEF DiscardCommit
  <2>2. "discard" \in Kinds /\ token \in Nat BY KindsThere DEF Shape, UiShape
  <2>3. /\ Job("discard", 0, token) \in JobShape /\ Job("discard", 0, token).kind = "discard"
    BY <2>2, JobsThere
  <2>4. Call("discard") /\ UNCHANGED ui BY <1>10 DEF DiscardCommit
  <2> QED BY <1>2, <1>3, <2>1, <2>3, <2>4 DEF AsksMode
<1> QED BY <1>1, <1>4, <1>5, <1>6, <1>7, <1>8, <1>9, <1>10 DEF UiCall

LEMMA UiStepOrder ==
  ASSUME Shape, Shape', InOrder, UiStep
  PROVE  InOrder'
<1>1. UNCHANGED ui => ui'.revision >= ui.revision BY Numbers
<1>2. CASE TellSuperseded
  <2>1. UNCHANGED <<ui, jobs, pump, job>> BY <1>2 DEF TellSuperseded, worker
  <2>2. PICK s \in untold : Post(<<ResultTask(s, "superseded")>>)
    BY <1>2 DEF TellSuperseded
  <2>3. s \in Nat BY DEF Shape, RequestsShape
  <2>4. /\ ResultTask(s, "superseded") \in TaskShape
        /\ ResultTask(s, "superseded").task = "result"
    BY <2>3 DEF ResultTask, TaskShape, Values, Backend!Results
  <2>5. NoNewAnswer BY <2>2, <2>4, PostedBefore
  <2> QED BY <1>1, <2>1, <2>5, OrderFrame DEF Busy
<1>3. CASE TakeState \/ TakeMode \/ TakeResult
  <2>1. PICK task : Take(task) BY <1>3 DEF TakeState, TakeMode, TakeResult
  <2>2. UNCHANGED jobs /\ ui'.revision \in {ui.revision, ui.revision + 1}
    BY <1>3 DEF TakeState, TakeMode, TakeResult, Shape, UiShape
  <2>3. UNCHANGED <<pump, job>> BY <2>1 DEF Take
  <2> QED BY <2>1, <2>2, <2>3, Numbers, TakenBefore, OrderFrame DEF Busy
<1>4. CASE TakeRetry
  BY <1>4, <1>1, QueryThere, TakenBefore, OrderSubmitted DEF TakeRetry, Take, UiFree, Shape,
     OwnerShape
<1>5. CASE Destroy \/ Join
  BY <1>5, <1>1, OrderFrame DEF Destroy, Join, worker, NoNewAnswer, Busy
<1> QED BY <1>2, <1>3, <1>4, <1>5 DEF UiStep

LEMMA OutsideOrder ==
  ASSUME Shape, Shape', CommitInv, InOrder, PumpStep \/ Complete \/ ServiceStarts \/ ServiceEnds
  PROVE  InOrder'
<1>1. UNCHANGED <<ui, owner>> /\ ui'.revision >= ui.revision BY OutsideFrame, Numbers
<1>2. CASE Start \/ Waken \/ Skip \/ Connect \/ Transfer \/ ServiceStarts \/ ServiceEnds
  <2>1. UNCHANGED <<inbox, jobs, job>>
    BY <1>2 DEF Start, Waken, Skip, Connect, Transfer, ServiceStarts, ServiceEnds, worker
  <2>2. Busy' => Busy
    BY <1>2 DEF Start, Waken, Skip, Connect, Transfer, ServiceStarts, ServiceEnds, worker, Busy
  <2>3. NoNewAnswer BY <2>1 DEF NoNewAnswer
  <2> QED BY <1>1, <2>1, <2>2, <2>3, OrderFrame
<1>3. CASE Check
  BY <1>3, <1>1, OrderBegun, OrderFrame DEF Check, NoNewAnswer, Busy
<1>4. CASE Probe
  BY <1>4, <1>1, PostedBefore, OrderFrame DEF Probe, Busy, RetryTask, TaskShape, Values
<1>5. ASSUME Busy, ~Busy', UNCHANGED jobs,
             NEW p, NEW answer, Answers(answer), Post(Told(p, answer))
      PROVE  InOrder'
  BY <1>1, <1>5, OrderDone, ToldTasks, AfterPost, OrderFrame DEF Shape, InboxShape,
     NoNewAnswer
<1>6. CASE CannotConnect
  BY <1>6, <1>5, FailureAnswers DEF CannotConnect, Busy
<1>7. CASE Complete
  BY <1>7, <1>5, SuccessAnswers DEF Complete, Busy
<1>8. CASE Fail
  BY <1>8, <1>5, FailureAnswers DEF Fail, Busy
<1> QED BY <1>2, <1>3, <1>4, <1>6, <1>7, <1>8 DEF PumpStep

LEMMA InitOrder == Init => InOrder
<1> SUFFICES ASSUME Init PROVE InOrder
  OBVIOUS
<1>1. /\ inbox = <<>> /\ jobs = <<Job("query", 0, 0)>> /\ ~Busy /\ ui.revision = 0
  BY DEF Init, Busy
<1>2. Job("query", 0, 0).kind = "query" /\ Job("query", 0, 0).about = 0 BY DEF Job
<1>3. Len(jobs) = 1 /\ jobs[1].kind = "query" /\ jobs[1].about = 0 BY <1>1, <1>2
<1> QED BY <1>1, <1>3 DEF InOrder, NotAhead, ToggleBehind

\* The order is kept by every step.
LEMMA NextOrder == AnswerInv /\ InOrder /\ [Next]_vars => InOrder'
<1> SUFFICES ASSUME AnswerInv, InOrder, [Next]_vars PROVE InOrder'
  OBVIOUS
<1>1. Shape /\ CommitInv /\ Shape' BY NextAnswer DEF AnswerInv
<1>2. CASE UNCHANGED vars
  BY <1>2, <1>1, Numbers, OrderFrame DEF vars, textService, worker, NoNewAnswer, Busy
<1>3. CASE Next BY <1>1, <1>3, UiCallOrder, UiStepOrder, OutsideOrder DEF Next
<1> QED BY <1>2, <1>3

\* The mode an answer changes was asked for by the last of them.
LEMMA TogglesStandStep ==
  ASSUME AnswerInv, InOrder, [Next]_vars,
         inbox # <<>>, inbox' = Tail(inbox), Head(inbox).task = "mode", ui'.mode # ui.mode
  PROVE  ~Toggling
<1>1. Shape BY DEF AnswerInv
<1>2. inbox \in Seq(TaskShape) BY <1>1 DEF Shape, InboxShape
<1>3. Len(inbox) > 0 /\ Head(inbox) = inbox[1] /\ Len(inbox') = Len(inbox) - 1 /\ Len(inbox) \in Nat
  BY <1>2
<1>4. TakeMode
  <2>1. CASE UNCHANGED vars BY <2>1 DEF vars, textService
  <2>2. CASE UiCall
    <3>1. CASE ToggleInputMode
      <4>1. UNCHANGED inbox BY <3>1, <1>1, CallFrame DEF ToggleInputMode
      <4> QED BY <1>3, <4>1
    <3>2. CASE ~ToggleInputMode
      BY <2>2, <3>2 DEF UiCall, RefreshInputMode, Ready, Prefill, Predict, RecordCommit,
         DiscardCommit, Close
    <3> QED BY <3>1, <3>2
  <2>3. CASE UiStep
    BY <2>3 DEF TakeState, Take, TakeResult, TellSuperseded, TakeRetry, Destroy, Join,
       UiStep
  <2>4. CASE PumpStep \/ Complete \/ ServiceStarts \/ ServiceEnds BY <1>1, <2>4, OutsideFrame
  <2> QED BY <2>1, <2>2, <2>3, <2>4 DEF Next
<1>5. inbox[1].task = "mode" /\ inbox[1].about = ui.revision BY <1>3, <1>4 DEF TakeMode
<1>6. 1 \in 1..Len(inbox) BY <1>3
<1>7. ASSUME NEW k \in 1..Len(jobs), jobs[k].kind = "toggle" PROVE FALSE
  BY <1>7, <1>5, <1>6, <1>1, Numbers DEF InOrder, NotAhead, AsksMode, ToggleBehind,
     AsksBefore
<1>8. ASSUME Busy, job.kind = "toggle" PROVE FALSE
  BY <1>8, <1>5, <1>6, <1>1, Numbers DEF InOrder, NotAhead, AsksMode, ToggleBehind
<1>9. DOMAIN jobs = 1..Len(jobs) BY <1>1 DEF Shape, JobsShape
<1> QED BY <1>7, <1>8, <1>9 DEF Toggling

\* An answer changes the mode only when no toggle is queued or under way: the
\* revision that toggle_input_mode counts up makes every older answer void.
THEOREM TogglesStandAlways == Spec => TogglesStand
<1> DEFINE Undone == /\ inbox # <<>> /\ inbox' = Tail(inbox) /\ Head(inbox).task = "mode"
                     /\ ui'.mode # ui.mode
<1>1. AnswerInv /\ InOrder /\ [Next]_vars => [Undone => ~Toggling]_vars
  BY TogglesStandStep
<1> QED BY <1>1, InitAnswer, NextAnswer, InitOrder, NextOrder, PTL DEF Spec, TogglesStand

-----------------------------------------------------------------------------
(***************************************************************************)
(* Probing for a service.                                                  *)
(***************************************************************************)

\* Without a connection the pump sleeps for good only when the next probe waits
\* for the text service.
WillProbe ==
  /\ pump = "sleep" /\ pipe = 0 => retryPosted \/ wake
  /\ retryPosted /\ owner = "running" => \E i \in 1..Len(inbox) : inbox[i].task = "retry"

LEMMA TasksStay ==
  ASSUME Shape, owner = "running", NEW tasks \in Seq(TaskShape), Post(tasks)
  PROVE  \A i \in 1..Len(inbox) : i \in 1..Len(inbox') /\ inbox'[i] = inbox[i]
BY AfterPost DEF Shape, InboxShape

LEMMA TakenStay ==
  ASSUME Shape, NEW task, Take(task)
  PROVE  \A i \in 1..Len(inbox) : i # 1 => i - 1 \in 1..Len(inbox') /\ inbox'[i - 1] = inbox[i]
<1>1. /\ Len(inbox) \in Nat /\ Len(inbox') = Len(inbox) - 1
      /\ \A i \in 1..Len(inbox') : inbox'[i] = inbox[i + 1]
  BY AfterTake DEF Shape, InboxShape
<1> TAKE i \in 1..Len(inbox)
<1> HAVE i # 1
<1>2. i - 1 \in 1..Len(inbox') /\ (i - 1) + 1 = i BY <1>1
<1>3. inbox'[i - 1] = inbox[(i - 1) + 1] BY <1>1, <1>2
<1> QED BY <1>2, <1>3

\* The probe that waits goes on waiting.
LEMMA ProbeWaits ==
  ASSUME WillProbe,
         UNCHANGED <<pump, pipe>> \/ pump' # "sleep",
         UNCHANGED retryPosted, wake' \/ UNCHANGED wake,
         owner' = "running" =>
           owner = "running" /\ \A i \in 1..Len(inbox) : inbox[i].task = "retry" =>
             \E k \in 1..Len(inbox') : inbox'[k] = inbox[i]
  PROVE  WillProbe'
<1>1. pump' = "sleep" /\ pipe' = 0 => retryPosted' \/ wake' BY DEF WillProbe
<1>2. ASSUME retryPosted', owner' = "running"
      PROVE  \E k \in 1..Len(inbox') : inbox'[k].task = "retry"
  <2>1. PICK i \in 1..Len(inbox) : inbox[i].task = "retry" BY <1>2 DEF WillProbe
  <2>2. PICK k \in 1..Len(inbox') : inbox'[k] = inbox[i] BY <1>2, <2>1
  <2> QED BY <2>1, <2>2
<1> QED BY <1>1, <1>2 DEF WillProbe

LEMMA UiProbe ==
  ASSUME Shape, WillProbe, UiCall \/ UiStep
  PROVE  WillProbe'
<1>1. ASSUME NEW operation, Call(operation), NEW new, Submit(new) PROVE WillProbe'
  BY <1>1, CallFrame, ProbeWaits DEF Submit
<1>2. CASE UiCall
  <2>1. CASE Close
    BY <2>1, ProbeWaits DEF Close, worker, transport
  <2>2. CASE ~Close
    <3>1. CASE DiscardCommit
      <4>1. PICK token \in 1..commits : Submit(Job("discard", 0, token))
        BY <3>1 DEF DiscardCommit
      <4> QED BY <1>1, <3>1, <4>1 DEF DiscardCommit
    <3>2. CASE \E group \in Groups : Predict(group)
      BY <1>1, <3>2 DEF Predict
    <3> QED
      BY <1>1, <1>2, <2>2, <3>1, <3>2 DEF UiCall, RefreshInputMode, ToggleInputMode, Ready,
                                          Prefill, RecordCommit
  <2> QED BY <2>1, <2>2
<1>3. CASE TellSuperseded
  <2>1. UNCHANGED <<pump, pipe, retryPosted, wake, owner>> /\ owner = "running"
    BY <1>3 DEF TellSuperseded, worker, transport
  <2>2. PICK s \in untold : Post(<<ResultTask(s, "superseded")>>)
    BY <1>3 DEF TellSuperseded
  <2> DEFINE tasks == <<ResultTask(s, "superseded")>>
  <2>3. tasks \in Seq(TaskShape)
    BY DEF Shape, RequestsShape, ResultTask, TaskShape, Values, Backend!Results
  <2> HIDE DEF tasks
  <2>4. Post(tasks) BY <2>2 DEF tasks
  <2> QED BY <2>1, <2>3, <2>4, TasksStay, ProbeWaits
<1>4. CASE TakeState \/ TakeMode \/ TakeResult
  <2>1. PICK task \in {"state", "mode", "result"} : Take(task)
    BY <1>4 DEF TakeState, TakeMode, TakeResult
  <2>2. UNCHANGED <<pump, pipe, retryPosted, wake, owner>> /\ owner = "running"
    BY <1>4 DEF TakeState, TakeMode, TakeResult, Take, UiFree, transport
  <2>3. inbox[1].task # "retry" BY <2>1, AfterTake DEF Shape, InboxShape
  <2>4. \A i \in 1..Len(inbox) : inbox[i].task = "retry" =>
          \E k \in 1..Len(inbox') : inbox'[k] = inbox[i]
    BY <2>1, <2>3, TakenStay
  <2> QED BY <2>2, <2>4, ProbeWaits
<1>5. CASE TakeRetry
  BY <1>5 DEF TakeRetry, Take, UiFree, Shape, OwnerShape, Submit, WillProbe
<1>6. CASE Destroy \/ Join
  BY <1>6, ProbeWaits DEF Destroy, Join, worker, transport
<1> QED BY <1>2, <1>3, <1>4, <1>5, <1>6 DEF UiStep

LEMMA OutsideProbe ==
  ASSUME Shape, CommitInv, WillProbe, PumpStep \/ Complete \/ ServiceStarts \/ ServiceEnds
  PROVE  WillProbe'
<1>1. UNCHANGED owner BY OutsideFrame
<1>2. CASE Start \/ Skip \/ Connect \/ Transfer
  BY <1>2, <1>1, ProbeWaits DEF Start, Skip, Connect, Transfer
<1>3. CASE ServiceStarts \/ ServiceEnds
  BY <1>3, <1>1, ProbeWaits DEF ServiceStarts, ServiceEnds, worker, transport
<1>4. CASE Waken
  BY <1>4, <1>1 DEF Waken, WillProbe
<1>5. CASE Check
  BY <1>5, <1>1 DEF Check, WillProbe
<1>6. CASE Probe
  <2>1. pump' = "check" /\ Post(<<RetryTask>>) BY <1>6 DEF Probe
  <2>2. owner = "running" => \E i \in 1..Len(inbox') : inbox'[i].task = "retry"
    <3> SUFFICES ASSUME owner = "running"
                 PROVE  \E i \in 1..Len(inbox') : inbox'[i].task = "retry"
      OBVIOUS
    <3> DEFINE tasks == <<RetryTask>>
    <3>1. RetryTask \in TaskShape /\ RetryTask.task = "retry"
      BY DEF RetryTask, TaskShape, Values
    <3>2. tasks \in Seq(TaskShape) /\ Len(tasks) = 1 /\ tasks[1].task = "retry" BY <3>1
    <3> HIDE DEF tasks
    <3>3. Post(tasks) BY <2>1 DEF tasks
    <3>4. inbox \in Seq(TaskShape) BY DEF Shape, InboxShape
    <3>5. Len(inbox') = Len(inbox) + 1 /\ inbox'[Len(inbox) + 1] = tasks[1]
      <4>1. 1 \in 1..Len(tasks) BY <3>2
      <4> QED BY <3>2, <3>3, <3>4, <4>1, AfterPost
    <3>6. Len(inbox) + 1 \in 1..Len(inbox') BY <3>4, <3>5
    <3> QED BY <3>2, <3>5, <3>6
  <2> QED BY <1>1, <2>1, <2>2 DEF WillProbe
<1>7. ASSUME Busy, UNCHANGED <<retryPosted, wake>>, pump' = "check",
             NEW p, NEW answer, Answers(answer), Post(Told(p, answer))
      PROVE  WillProbe'
  BY <1>7, ToldTasks, <1>1, TasksStay, ProbeWaits
<1>8. CASE CannotConnect
  BY <1>8, <1>7, FailureAnswers DEF CannotConnect, Busy
<1>9. CASE Complete
  BY <1>9, <1>7, SuccessAnswers DEF Complete, Busy
<1>10. CASE Fail
  BY <1>10, <1>7, FailureAnswers DEF Fail, Busy
<1> QED BY <1>2, <1>3, <1>4, <1>5, <1>6, <1>8, <1>9, <1>10 DEF PumpStep

LEMMA InitProbe == Init => WillProbe
  BY DEF Init, WillProbe

\* The pump probes on, whatever happens.
LEMMA NextProbe == AnswerInv /\ WillProbe /\ [Next]_vars => WillProbe'
<1> SUFFICES ASSUME AnswerInv, WillProbe, [Next]_vars PROVE WillProbe'
  OBVIOUS
<1>1. Shape /\ CommitInv BY DEF AnswerInv
<1>2. CASE UNCHANGED vars
  BY <1>2, ProbeWaits DEF vars, textService, worker, transport
<1>3. CASE Next BY <1>1, <1>3, UiProbe, OutsideProbe DEF Next
<1> QED BY <1>2, <1>3

-----------------------------------------------------------------------------
(***************************************************************************)
(* The service outside, and the uses the next part speaks of.              *)
(***************************************************************************)

\* A service process that runs has a number.
Outside == calls \in Use /\ (service.up => service.id # 0)

LEMMA InitOutside == Init => Outside
  BY UsesAssumption DEF Init, Outside

LEMMA NextOutside ==
  ASSUME AnswerInv, Outside, [Next]_vars
  PROVE  Outside' /\ calls'.among = calls.among
<1>1. /\ service = [up |-> service.up, id |-> service.id, mode |-> service.mode,
                    latest |-> service.latest]
      /\ service.id \in Nat
  BY DEF AnswerInv, CommitInv, IsState, Shape, ServiceShape
<1>2. calls' \in Use /\ calls'.among = calls.among
  <2>1. CASE UNCHANGED calls BY <2>1 DEF Outside
  <2>2. ASSUME NEW operation, Call(operation) PROVE calls' \in Use /\ calls'.among = calls.among
    BY <2>2 DEF Call, Outside, Use
  <2>3. CASE UiCall
    <3>1. UNCHANGED calls \/ \E operation : Call(operation)
      BY <2>3 DEF UiCall, RefreshInputMode, ToggleInputMode, Ready, Prefill, Predict,
                  RecordCommit, DiscardCommit, Close, outside
    <3> QED BY <2>1, <2>2, <3>1
  <2>4. CASE ServiceStarts BY <2>4 DEF ServiceStarts, Outside, Use
  <2>5. CASE UNCHANGED vars \/ UiStep \/ PumpStep \/ Complete \/ ServiceEnds
    <3>1. UNCHANGED calls
      BY <2>5 DEF vars, outside, UiStep, TellSuperseded, TakeState, TakeMode, TakeResult, TakeRetry,
                  Take, Destroy, Join, PumpStep, Start, Check, Waken, Probe, Skip, Connect,
                  CannotConnect, Transfer, Fail, Complete, ServiceEnds
    <3> QED BY <2>1, <3>1
  <2> QED BY <2>3, <2>4, <2>5 DEF Next
<1>3. service'.up => service'.id # 0
  <2>1. CASE UNCHANGED vars \/ UiCall \/ UiStep
    <3>1. UNCHANGED service
      BY <2>1 DEF vars, outside, UiCall, RefreshInputMode, ToggleInputMode, Ready, Prefill, Predict,
                  RecordCommit, DiscardCommit, Close, Call, UiStep, TellSuperseded, TakeState,
                  TakeMode, TakeResult, TakeRetry, Take, Destroy, Join
    <3> QED BY <3>1 DEF Outside
  <2>2. CASE PumpStep
    <3>1. UNCHANGED service \/ service' = [service EXCEPT !.latest = NoLatest]
      BY <2>2 DEF PumpStep, Start, Check, Waken, Probe, Skip, Connect, CannotConnect, Transfer,
                  Fail, outside
    <3> QED BY <1>1, <3>1 DEF Outside
  <2>3. CASE Complete
    BY <2>3, <1>1 DEF Complete, Served, Outside
  <2>4. CASE ServiceStarts
    BY <2>4, <1>1 DEF ServiceStarts
  <2>5. CASE ServiceEnds
    BY <1>1, <2>5 DEF ServiceEnds
  <2> QED BY <2>1, <2>2, <2>3, <2>4, <2>5 DEF Next
<1> QED BY <1>2, <1>3 DEF Outside

\* The uses in which the mode is only asked for and toggled.
OnlyMode == owner = "running" /\ calls.among \subseteq {"refresh", "toggle"}

Idle == jobs = <<>> /\ ~Busy

\* The last task of a kind.
LastOf(kind, i) ==
  /\ i \in 1..Len(inbox) /\ inbox[i].task = kind
  /\ \A k \in 1..Len(inbox) : k > i => inbox[k].task # kind
NoneOf(kind) == \A i \in 1..Len(inbox) : inbox[i].task # kind

\* Every job is a question for the mode.
OnlyAsked ==
  /\ \A i \in 1..Len(jobs) : AsksMode(jobs[i])
  /\ Busy => AsksMode(job)
  /\ untold = {} /\ NoneOf("result")

\* The last question was asked with the revision of now.
LastAsked ==
  /\ jobs # <<>> => jobs[Len(jobs)].about = ui.revision
  /\ jobs = <<>> /\ Busy => job.about = ui.revision

\* The last that is told of the connection, and of the mode.
StateTold ==
  \/ \E i : LastOf("state", i) /\ inbox[i].value = StateOf(pipe)
  \/ NoneOf("state") /\ ui.backend = StateOf(pipe)
ModeTold ==
  \/ \E i : /\ LastOf("mode", i) /\ inbox[i].about = ui.revision
            /\ Alive => inbox[i].value = service.mode
  \/ NoneOf("mode") /\ (Alive => ui.mode = service.mode)

LastTold == OnlyAsked /\ LastAsked /\ (Idle => StateTold /\ ModeTold)

\* What is told last is true, in those uses.
TruthToCome == OnlyMode => LastTold

\* Another task is taken: the last one is still the last.
LEMMA LastStays ==
  ASSUME Shape, NEW task, Take(task), NEW kind
  PROVE  /\ NoneOf(kind) => NoneOf(kind)'
         /\ \A i : LastOf(kind, i) /\ i # 1 => LastOf(kind, i - 1)' /\ inbox'[i - 1] = inbox[i]
         /\ LastOf(kind, 1) => NoneOf(kind)'
<1>1. /\ Len(inbox) \in Nat /\ Len(inbox') = Len(inbox) - 1
      /\ \A i \in 1..Len(inbox') : i + 1 \in 1..Len(inbox) /\ inbox'[i] = inbox[i + 1]
  BY AfterTake DEF Shape, InboxShape
<1>2. NoneOf(kind) => NoneOf(kind)' BY <1>1 DEF NoneOf
<1>3. ASSUME NEW i, LastOf(kind, i), i # 1
      PROVE  LastOf(kind, i - 1)' /\ inbox'[i - 1] = inbox[i]
  BY <1>3, TakenStay, <1>1 DEF LastOf
<1>4. LastOf(kind, 1) => NoneOf(kind)'
  <2> SUFFICES ASSUME LastOf(kind, 1), NEW i \in 1..Len(inbox') PROVE inbox'[i].task # kind
    BY DEF NoneOf
  <2>1. i + 1 \in 1..Len(inbox) /\ inbox'[i] = inbox[i + 1] /\ i + 1 > 1 BY <1>1
  <2> QED BY <2>1 DEF LastOf
<1> QED BY <1>2, <1>3, <1>4

LEMMA SubmitTold ==
  ASSUME Shape, LastTold, NEW new \in JobShape, AsksMode(new), new.about = ui'.revision,
         ~stopping, Submit(new), UNCHANGED <<pump, job>>, NoneOf("result")'
  PROVE  LastTold'
<1>0. PICK m, at : Submitted(new, m, at) BY AfterSubmit DEF Shape
<1>1. /\ m \in Nat /\ Len(jobs') = m + 1 /\ jobs'[m + 1] = new
      /\ \A i \in 1..m : jobs'[i] = jobs[at[i]] /\ at[i] \in 1..Len(jobs)
      /\ \A i \in 1..Len(jobs') : i \in 1..m \/ i = m + 1
  BY <1>0 DEF Submitted
<1>2. untold' = {}
  BY AfterSubmit DEF AsksMode, Shape
<1>3. \A i \in 1..Len(jobs') : AsksMode(jobs[i])'
  <2> TAKE i \in 1..Len(jobs')
  <2>1. CASE i = m + 1 BY <1>1, <2>1 DEF AsksMode
  <2>2. CASE i \in 1..m BY <1>1, <2>2 DEF LastTold, OnlyAsked, AsksMode
  <2> QED BY <1>1, <2>1, <2>2
<1>4. OnlyAsked' BY <1>2, <1>3 DEF LastTold, OnlyAsked, AsksMode, Busy
<1>5. jobs' # <<>>
  BY <1>1
<1>6. LastAsked' BY <1>1, <1>5 DEF LastAsked
<1> QED BY <1>4, <1>5, <1>6 DEF LastTold, Idle

LEMMA UiTold ==
  ASSUME Shape, Outside, TruthToCome, UiCall \/ UiStep, calls'.among = calls.among
  PROVE  TruthToCome'
<1> SUFFICES ASSUME OnlyMode' PROVE LastTold'
  BY DEF TruthToCome
<1>1. calls.among \subseteq {"refresh", "toggle"} /\ owner' = "running" BY DEF OnlyMode
<1>2. CASE UiCall
  <2>1. \/ RefreshInputMode \/ ToggleInputMode
        \/ \E operation \in {"ready", "prefill", "predict", "record", "discard"} : Call(operation)
        \/ Close
    BY <1>2 DEF UiCall, Ready, Prefill, Predict, RecordCommit, DiscardCommit
  <2>2. PICK operation : Call(operation) /\ operation \in {"refresh", "toggle"}
    BY <1>1, <2>1 DEF RefreshInputMode, ToggleInputMode, Close, Call
  <2>3. /\ UNCHANGED <<inbox, pump, job>> /\ ~stopping /\ owner = "running"
        /\ operation \in calls.among
    BY <2>2, CallFrame
  <2>4. LastTold BY <1>1, <2>3 DEF TruthToCome, OnlyMode
  <2>5. NoneOf("result")' BY <2>3, <2>4 DEF LastTold, OnlyAsked, NoneOf
  <2>6. CASE RefreshInputMode
    BY <2>3, <2>4, <2>5, <2>6, QueryThere, SubmitTold DEF RefreshInputMode, AsksMode
  <2>7. CASE ToggleInputMode
    BY <2>7, <2>3, <2>4, <2>5, ToggleThere, SubmitTold DEF ToggleInputMode, Shape, UiShape,
       AsksMode
  <2>8. ASSUME NEW other \in {"ready", "prefill", "predict", "record", "discard"}, Call(other)
        PROVE  FALSE
    BY <1>1, <2>8, CallFrame
  <2>9. ~Close BY <1>1 DEF Close
  <2> QED BY <2>1, <2>6, <2>7, <2>8, <2>9
<1>3. CASE UiStep
  <2>1. owner = "running" BY <1>1, <1>3 DEF UiStep, TellSuperseded, TakeState, TakeMode, TakeResult,
                                            TakeRetry, Take, UiFree, Destroy, Join
  <2>2. LastTold BY <1>1, <2>1 DEF TruthToCome, OnlyMode
  <2>3. ~stopping /\ ~Destroy /\ ~Join BY <1>1, <2>1 DEF Destroy, Join, Shape, OwnerShape
  <2>4. ~TellSuperseded BY <2>2 DEF TellSuperseded, LastTold, OnlyAsked
  <2>5. ASSUME NEW task, Take(task) PROVE UNCHANGED <<pump, job, pipe, service>> /\ NoneOf("result")'
    BY <2>2, <2>5, LastStays DEF Take, transport, outside, LastTold, OnlyAsked
  <2>6. CASE TakeRetry
    BY <2>2, <2>3, <2>5, <2>6, QueryThere, SubmitTold DEF TakeRetry, AsksMode
  <2>7. ~TakeResult
    BY AfterTake, <2>2 DEF TakeResult, Shape, InboxShape, LastTold, OnlyAsked, NoneOf
  <2>8. CASE TakeState
    <3>1. /\ Take("state") /\ UNCHANGED <<jobs, untold>> /\ inbox[1].task = "state"
          /\ ui' = [ui EXCEPT !.backend = inbox[1].value]
      BY <2>8, AfterTake DEF TakeState, Shape, InboxShape
    <3>2. UNCHANGED <<pump, job, pipe, service>> /\ NoneOf("result")' BY <2>5, <3>1
    <3>3. ui'.mode = ui.mode /\ ui'.revision = ui.revision /\ ui'.backend = inbox[1].value
      BY <3>1 DEF Shape, UiShape
    <3>4. OnlyAsked' /\ LastAsked' /\ (Idle' => Idle)
      BY <2>2, <3>1, <3>2, <3>3 DEF LastTold, OnlyAsked, LastAsked, Busy, AsksMode, Idle
    <3>5. StateTold => StateTold'
      <4>1. ASSUME NEW i, LastOf("state", i), inbox[i].value = StateOf(pipe) PROVE StateTold'
        BY <3>1, <3>3, <4>1, LastStays, <3>2 DEF StateTold, StateOf
      <4>2. ASSUME NoneOf("state") PROVE FALSE
        BY <3>1, AfterTake, <4>2 DEF Shape, InboxShape, NoneOf
      <4> QED BY <4>1, <4>2 DEF StateTold
    <3>6. ModeTold => ModeTold'
      <4>1. ASSUME NEW i, LastOf("mode", i), inbox[i].about = ui.revision,
                   Alive => inbox[i].value = service.mode
            PROVE  ModeTold'
        <5>1. i # 1 BY <3>1, <4>1 DEF LastOf
        <5>2. LastOf("mode", i - 1)' /\ inbox'[i - 1] = inbox[i] BY <3>1, <4>1, <5>1, LastStays
        <5> QED BY <3>2, <3>3, <4>1, <5>2 DEF ModeTold, Alive
      <4>2. ASSUME NoneOf("mode"), Alive => ui.mode = service.mode PROVE ModeTold'
        BY <3>1, <3>2, <3>3, <4>2, LastStays DEF ModeTold, Alive
      <4> QED BY <4>1, <4>2 DEF ModeTold
    <3> QED BY <2>2, <3>4, <3>5, <3>6 DEF LastTold
  <2>9. CASE TakeMode
    <3>1. /\ Take("mode") /\ UNCHANGED <<jobs, untold>> /\ inbox[1].task = "mode"
          /\ ui' = IF inbox[1].about = ui.revision THEN [ui EXCEPT !.mode = inbox[1].value] ELSE ui
      BY <2>9, AfterTake DEF TakeMode, Shape, InboxShape
    <3>2. UNCHANGED <<pump, job, pipe, service>> /\ NoneOf("result")' BY <2>5, <3>1
    <3>3. /\ ui'.revision = ui.revision /\ ui'.backend = ui.backend
          /\ inbox[1].about = ui.revision => ui'.mode = inbox[1].value
      BY <3>1 DEF Shape, UiShape
    <3>4. OnlyAsked' /\ LastAsked' /\ (Idle' => Idle)
      BY <2>2, <3>1, <3>2, <3>3 DEF LastTold, OnlyAsked, LastAsked, Busy, AsksMode, Idle
    <3>5. StateTold => StateTold'
      BY <3>1, LastStays, <3>2, <3>3 DEF LastOf, StateTold, StateOf
    <3>6. ModeTold => ModeTold'
      <4>1. ASSUME NEW i, LastOf("mode", i), inbox[i].about = ui.revision,
                   Alive => inbox[i].value = service.mode
            PROVE  ModeTold'
        BY <3>1, <3>3, <4>1, LastStays, <3>2 DEF ModeTold, Alive
      <4>2. ASSUME NoneOf("mode") PROVE FALSE
        BY <3>1, AfterTake, <4>2 DEF Shape, InboxShape, NoneOf
      <4> QED BY <4>1, <4>2 DEF ModeTold
    <3> QED BY <2>2, <3>4, <3>5, <3>6 DEF LastTold
  <2> QED BY <1>3, <2>3, <2>4, <2>6, <2>7, <2>8, <2>9 DEF UiStep
<1> QED BY <1>2, <1>3
\* The pump works on something else, or nothing of it is seen.
LEMMA ToldFrame ==
  ASSUME LastTold, UNCHANGED <<ui, untold, inbox, jobs, job>>,
         Busy' <=> Busy,
         pipe' = pipe \/ Busy,
         ~Busy => (Alive' => Alive /\ service'.mode = service.mode)
  PROVE  LastTold'
BY DEF LastTold, OnlyAsked, LastAsked, NoneOf, AsksMode, Idle, StateTold, LastOf, StateOf,
   ModeTold

\* The job under way is done: what is told of it is the last.
LEMMA DoneTold ==
  ASSUME Shape, LastTold, owner = "running", Busy, ~Busy', UNCHANGED <<ui, untold, jobs>>,
         NEW p, NEW answer, Answers(answer), Post(Told(p, answer)),
         StateOf(p) = StateOf(pipe'), Alive' => answer = service'.mode
  PROVE  LastTold'
<1> DEFINE tasks == Told(p, answer)
           n == Len(inbox)
<1>0. AsksMode(job) BY DEF LastTold, OnlyAsked
<1>1. /\ tasks \in Seq(TaskShape) /\ Len(tasks) = 2
      /\ tasks[1].task = "state" /\ tasks[1].value = StateOf(p)
      /\ tasks[2].task = "mode" /\ tasks[2].value = answer /\ tasks[2].about = job.about
  BY <1>0, ToldTasks DEF AsksMode
<1>2. inbox \in Seq(TaskShape) /\ n \in Nat BY DEF Shape, InboxShape
<1> HIDE DEF tasks
<1>3. /\ Len(inbox') = n + 2
      /\ \A i \in 1..n : inbox'[i] = inbox[i]
      /\ inbox'[n + 1] = tasks[1] /\ inbox'[n + 2] = tasks[2]
  <2>1. Post(tasks) BY DEF tasks
  <2>2. 1 \in 1..Len(tasks) /\ 2 \in 1..Len(tasks) BY <1>1
  <2> QED BY <1>1, <1>2, <2>1, <2>2, AfterPost
<1> HIDE DEF n
<1>4. /\ n + 1 \in 1..Len(inbox') /\ n + 2 \in 1..Len(inbox')
      /\ \A i \in 1..Len(inbox') : i \in 1..n \/ i = n + 1 \/ i = n + 2
  BY <1>2, <1>3
<1>5. NoneOf("result")'
  BY <1>1, <1>3, <1>4 DEF LastTold, OnlyAsked, NoneOf, n
<1>6. OnlyAsked' /\ LastAsked'
  BY <1>5 DEF LastTold, OnlyAsked, LastAsked, AsksMode
<1>7. StateTold'
  BY <1>1, <1>3, <1>2, <1>4 DEF StateOf, StateTold, LastOf
<1>8. Idle' => ModeTold'
  BY <1>1, <1>3, <1>2, <1>4 DEF Idle, LastTold, LastAsked, ModeTold, LastOf
<1> QED BY <1>6, <1>7, <1>8 DEF LastTold
LEMMA OutsideTold ==
  ASSUME Shape, Shape', CommitInv, Outside, TruthToCome,
         PumpStep \/ Complete \/ ServiceStarts \/ ServiceEnds, calls'.among = calls.among
  PROVE  TruthToCome'
<1> SUFFICES ASSUME OnlyMode' PROVE LastTold'
  BY DEF TruthToCome
<1>1. UNCHANGED <<ui, untold, owner, stopping, aborted>> BY OutsideFrame
<1>2. LastTold /\ owner = "running" /\ ~stopping /\ ~aborted
  BY <1>1 DEF TruthToCome, OnlyMode, Shape, OwnerShape
<1>3. /\ service = [up |-> service.up, id |-> service.id, mode |-> service.mode,
                    latest |-> service.latest]
      /\ service.id \in Nat /\ pipe \in 0..service.id
  BY DEF CommitInv, IsState, Shape, ServiceShape
<1>4. CASE Start \/ Waken
  BY <1>4, <1>1, <1>2, ToldFrame DEF Start, Waken, transport, outside, Busy, Alive
<1>5. CASE Check
  <2>1. UNCHANGED <<inbox, service>> /\ ~Busy BY <1>5 DEF Check, outside, Busy
  <2>2. CASE jobs = <<>>
    BY <1>2, <1>5, <2>2, <1>1, <2>1, ToldFrame DEF Check, Busy, Alive
  <2>3. CASE jobs # <<>>
    <3>1. job' = Head(jobs) /\ jobs' = Tail(jobs) /\ Busy'
      BY <1>2, <1>5, <2>3 DEF Check, Busy
    <3>2. /\ Len(jobs) \in Nat /\ Len(jobs) > 0 /\ job' = jobs[1] /\ Len(jobs') = Len(jobs) - 1
          /\ \A i \in 1..Len(jobs') : i + 1 \in 1..Len(jobs) /\ jobs'[i] = jobs[i + 1]
      BY <2>3, <3>1 DEF Shape, JobsShape
    <3>3. OnlyAsked'
      BY <1>2, <3>2, <1>1, <2>1 DEF LastTold, OnlyAsked, NoneOf, AsksMode
    <3>4. jobs[Len(jobs)].about = ui.revision BY <1>2, <2>3 DEF LastTold, LastAsked
    <3>5. jobs' # <<>> => jobs'[Len(jobs')].about = ui.revision
      <4> SUFFICES ASSUME jobs' # <<>> PROVE jobs'[Len(jobs')].about = ui.revision
        OBVIOUS
      <4>1. jobs' \in Seq(JobShape) BY DEF Shape, JobsShape
      <4>2. Len(jobs') \in 1..Len(jobs') BY <4>1
      <4>3. Len(jobs') + 1 = Len(jobs) BY <3>2
      <4>4. jobs'[Len(jobs')] = jobs[Len(jobs)] BY <3>2, <4>2, <4>3
      <4> QED BY <3>4, <4>4
    <3>6. jobs' = <<>> => job'.about = ui.revision
      <4> SUFFICES ASSUME jobs' = <<>> PROVE job'.about = ui.revision
        OBVIOUS
      <4>1. Len(jobs) = 1
        BY <3>2
      <4> QED BY <3>2, <3>4, <4>1
    <3> QED BY <1>1, <3>1, <3>3, <3>5, <3>6 DEF LastTold, LastAsked, Idle
  <2> QED BY <2>2, <2>3
<1>6. CASE Probe
  <2>1. /\ UNCHANGED <<jobs, job, pipe, service>> /\ ~Busy /\ ~Busy' /\ Post(<<RetryTask>>)
    BY <1>6 DEF Probe, transport, outside, Busy
  <2> DEFINE tasks == <<RetryTask>>
  <2>2. tasks \in Seq(TaskShape) /\ Len(tasks) = 1 /\ tasks[1].task = "retry"
    <3>1. RetryTask \in TaskShape /\ RetryTask.task = "retry"
      BY DEF RetryTask, TaskShape, Values
    <3> QED BY <3>1
  <2> HIDE DEF tasks
  <2>3. inbox \in Seq(TaskShape) BY DEF Shape, InboxShape
  <2>4. /\ Len(inbox') = Len(inbox) + 1 /\ inbox'[Len(inbox) + 1].task = "retry"
        /\ \A i \in 1..Len(inbox) : inbox'[i] = inbox[i]
    <3>1. Post(tasks) /\ 1 \in 1..Len(tasks) BY <2>1, <2>2 DEF tasks
    <3> QED BY <1>2, <2>2, <2>3, <3>1, AfterPost
  <2>5. \A i \in 1..Len(inbox) : i \in 1..Len(inbox') BY <2>3, <2>4
  <2>6. \A i \in 1..Len(inbox') : i \in 1..Len(inbox) \/ inbox'[i].task = "retry"
    BY <2>3, <2>4
  <2>7. ASSUME NEW kind, kind # "retry"
        PROVE  /\ NoneOf(kind) => NoneOf(kind)'
               /\ \A i : LastOf(kind, i) => LastOf(kind, i)' /\ inbox'[i] = inbox[i]
    BY <2>4, <2>5, <2>6, <2>7 DEF NoneOf, LastOf
  <2>8. OnlyAsked' /\ LastAsked' /\ (Idle' => Idle)
    BY <1>1, <1>2, <2>1, <2>7 DEF LastTold, OnlyAsked, LastAsked, AsksMode, Idle
  <2>9. StateTold => StateTold'
    BY <2>7, <2>1, <1>1 DEF StateTold, StateOf
  <2>10. ModeTold => ModeTold'
    BY <2>7, <1>1, <2>1 DEF ModeTold, Alive
  <2> QED BY <1>2, <2>8, <2>9, <2>10 DEF LastTold
<1>7. ~Skip
  BY <1>2 DEF Skip, Needless, Busy, LastTold, OnlyAsked, AsksMode
<1>8. CASE Connect \/ Transfer
  BY <1>8, <1>1, <1>2, ToldFrame DEF Connect, Transfer, Busy
<1>9. CASE CannotConnect
  BY <1>2, <1>9, <1>1, FailureAnswers, DoneTold DEF CannotConnect, transport, outside, Busy,
     Alive, Outside
<1>10. CASE Complete
  BY <1>10, <1>2, SuccessAnswers, <1>1, DoneTold DEF Complete, Busy, LastTold, OnlyAsked
<1>11. CASE Fail
  BY <1>11, <1>1, <1>2, FailureAnswers, DoneTold DEF Fail, outside, Busy, Alive, Outside
<1>12. CASE ServiceStarts \/ ServiceEnds
  BY <1>12, <1>3, <1>1, <1>2, ToldFrame DEF ServiceStarts, ServiceEnds, worker, transport,
     Alive, Busy
<1> QED BY <1>4, <1>5, <1>6, <1>7, <1>8, <1>9, <1>10, <1>11, <1>12 DEF PumpStep

\* The question the worker begins with is the last.
LEMMA InitTold == Init => TruthToCome
<1> SUFFICES ASSUME Init PROVE LastTold
  BY DEF TruthToCome
<1>1. /\ inbox = <<>> /\ jobs = <<Job("query", 0, 0)>> /\ ~Busy /\ ui.revision = 0 /\ untold = {}
  BY DEF Init, Busy
<1>2. Job("query", 0, 0).kind = "query" /\ Job("query", 0, 0).about = 0 BY DEF Job
<1>3. Len(jobs) = 1 /\ jobs[1].kind = "query" /\ jobs[1].about = 0 /\ jobs # <<>> BY <1>1, <1>2
<1> QED BY <1>1, <1>3 DEF LastTold, OnlyAsked, LastAsked, AsksMode, NoneOf, Idle

\* The inductive invariant of the settling.
SettleInv == AnswerInv /\ WillProbe /\ Outside /\ TruthToCome

\* Every part of the invariant is kept.
LEMMA NextSettle == SettleInv /\ [Next]_vars => SettleInv'
<1> SUFFICES ASSUME SettleInv, [Next]_vars PROVE SettleInv'
  OBVIOUS
<1>1. AnswerInv /\ WillProbe /\ Outside /\ TruthToCome BY DEF SettleInv
<1>2. AnswerInv' /\ WillProbe' /\ Outside' /\ calls'.among = calls.among
  BY <1>1, NextAnswer, NextProbe, NextOutside
<1>3. Shape /\ Shape' /\ CommitInv BY <1>1, <1>2 DEF AnswerInv
<1>4. TruthToCome'
  <2>1. CASE UNCHANGED vars
    <3>1. UNCHANGED <<ui, untold, owner, inbox, jobs, pump, job, pipe, service, calls>>
      BY <2>1 DEF vars, textService, worker, transport, outside
    <3>2. (Busy' <=> Busy) /\ (Alive' <=> Alive) BY <3>1 DEF Busy, Alive
    <3>3. OnlyMode' => LastTold BY <1>1, <3>1 DEF TruthToCome, OnlyMode
    <3> QED BY <3>1, <3>2, <3>3, ToldFrame DEF TruthToCome
  <2>2. CASE UiCall \/ UiStep BY <1>1, <1>2, <1>3, <2>2, UiTold
  <2>3. CASE PumpStep \/ Complete \/ ServiceStarts \/ ServiceEnds
    BY <1>1, <1>2, <1>3, <2>3, OutsideTold
  <2> QED BY <2>1, <2>2, <2>3 DEF Next
<1> QED BY <1>2, <1>4 DEF SettleInv

\* The pump never sleeps for good without a connection; and where the mode is only
\* asked for and toggled, the text service has the connection and the mode of the
\* service once everything is quiet, whatever ended, failed or was retried.
THEOREM SettlesOnTheServiceAlways == Spec => []SettlesOnTheService
<1>1. Init => SettleInv
  BY InitAnswer, InitProbe, InitOutside, InitTold DEF SettleInv
<1>2. SettleInv => SettlesOnTheService
  <2> SUFFICES ASSUME SettleInv, Quiet
               PROVE  /\ pipe # 0
                      /\ calls.among \subseteq {"refresh", "toggle"} =>
                           /\ ui.backend = StateOf(pipe)
                           /\ Alive => ui.mode = service.mode
    BY DEF SettlesOnTheService, KeepsProbing, ConnectionShown, ModeShown, StateOf
  <2>1. owner = "running" /\ Len(inbox) = 0 /\ pump = "sleep" /\ ~wake /\ Idle
    BY DEF Quiet, Idle, Busy
  <2>2. pipe # 0 BY <2>1 DEF SettleInv, WillProbe
  <2>3. ASSUME calls.among \subseteq {"refresh", "toggle"}
        PROVE  ui.backend = StateOf(pipe) /\ (Alive => ui.mode = service.mode)
    BY <2>1, <2>3 DEF SettleInv, TruthToCome, OnlyMode, LastTold, StateTold, ModeTold,
       LastOf
  <2> QED BY <2>2, <2>3
<1> QED BY <1>1, <1>2, NextSettle, PTL DEF Spec
=============================================================================
