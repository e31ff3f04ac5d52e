-------------------------- MODULE InferenceProofs ---------------------------
(***************************************************************************)
(* The boost processes keep the promise of ClockLease for any number of    *)
(* them, any number of attempts, and whatever the service does: it may     *)
(* stop waiting, be replaced or be killed at any step.                     *)
(*                                                                         *)
(* The service touches only events and shared memory, never what a process *)
(* knows of its duty; so a step of the service leaves the lease alone.  A  *)
(* process owns the mutex while it runs, hence one at most runs, and what  *)
(* it owes is what is owed.                                                *)
(*                                                                         *)
(* Below that: what the service keeps of the lease fits what the processes *)
(* do, and the contexts are tended.                                        *)
(***************************************************************************)
EXTENDS InferenceProperties, WellFoundedInduction, SequenceTheorems, FiniteSetTheorems,
        TLAPS

-----------------------------------------------------------------------------
(***************************************************************************)
(* Induction on numbers, in the form of the least element of a set.        *)
(***************************************************************************)
\* A set of numbers that is not empty has a least one.
LEMMA LeastNumber ==
  ASSUME NEW T, T \subseteq Nat, T # {}
  PROVE  \E x \in T : \A y \in T : x <= y
<1>1. IsWellFoundedOn(OpToRel(<, Nat), Nat) BY NatLessThanWellFounded
<1>2. PICK x \in T : \A y \in T : ~(<<y, x>> \in OpToRel(<, Nat)) BY <1>1, WFMin
<1>3. \A y \in T : ~(y < x) BY <1>2 DEF OpToRel
<1> QED BY <1>3

\* Induction over a set of numbers: it has all of them up to n if it has 0 and
\* with each number the next.
LEMMA UpTo ==
  ASSUME NEW n \in Nat, NEW Good, 0 \in Good,
         \A i \in 0..n : i \in Good /\ i # n => i + 1 \in Good
  PROVE  \A i \in 0..n : i \in Good
<1> DEFINE Bad == {i \in Nat : i <= n /\ i \notin Good}
<1> SUFFICES ASSUME Bad # {} PROVE FALSE
  OBVIOUS
<1>1. Bad \subseteq Nat OBVIOUS
<1>2. PICK x \in Bad : \A y \in Bad : x <= y
  <2> HIDE DEF Bad
  <2> QED BY <1>1, LeastNumber
<1>3. x \in 0..n /\ x \notin Good /\ x # 0 BY <1>2
<1>4. x - 1 \in 0..n /\ x - 1 # n /\ x - 1 + 1 = x BY <1>3
<1>5. x - 1 \in Good BY <1>2, <1>4
<1> QED BY <1>3, <1>4, <1>5

\* f begins with start and goes on with step.
Follows(f, V, start, n, step) ==
  f \in [0..n -> V] /\ f[0] = start /\ \A i \in 1..n : f[i] = step[i][f[i - 1]]

\* A value and a step from each value to the next define a function.
LEMMA Recursion ==
  ASSUME NEW V, NEW start \in V, NEW n \in Nat,
         NEW step, step \in [1..n -> [V -> V]]
  PROVE  \E f : Follows(f, V, start, n, step)
<1> DEFINE Good == {m \in 0..n : \E f : Follows(f, V, start, m, step)}
<1>1. 0 \in Good
  <2> DEFINE f == [i \in 0..0 |-> start]
  <2>1. Follows(f, V, start, 0, step) /\ 0 \in 0..n BY DEF Follows
  <2> HIDE DEF f
  <2> QED BY <2>1
<1>2. ASSUME NEW m \in 0..n, m \in Good, m # n PROVE m + 1 \in Good
  <2>1. PICK f : Follows(f, V, start, m, step)
    BY <1>2
  <2> DEFINE g == [i \in 0..(m + 1) |-> IF i = m + 1 THEN step[m + 1][f[m]] ELSE f[i]]
  <2>2. m + 1 \in 1..n /\ m + 1 \in 0..n BY <1>2
  <2>3. step[m + 1][f[m]] \in V BY <2>1, <2>2 DEF Follows
  <2>4. g \in [0..(m + 1) -> V] BY <2>1, <2>3 DEF Follows
  <2>5. g[0] = start BY <2>1 DEF Follows
  <2>6. ASSUME NEW i \in 1..(m + 1) PROVE g[i] = step[i][g[i - 1]]
    BY <2>1 DEF Follows
  <2>7. Follows(g, V, start, m + 1, step) BY <2>4, <2>5, <2>6 DEF Follows
  <2> HIDE DEF g
  <2> QED BY <2>2, <2>7
<1>3. \A i \in 0..n : i \in Good
  <2> HIDE DEF Good
  <2> QED BY <1>1, <1>2, UpTo
<1>4. n \in Good BY <1>3
<1> QED BY <1>4

-----------------------------------------------------------------------------
(***************************************************************************)
(* What Without leaves of a queue.  It is defined by recursion, so both    *)
(* that the recursion defines anything and what it computes are shown by   *)
(* induction on the length.                                                *)
(***************************************************************************)
\* The recursion of Without.
LEMMA ErasureStep ==
  ASSUME NEW S, NEW seq \in Seq(S), NEW gone
  PROVE  /\ Erasure(seq, gone) \in [0..Len(seq) -> Seq(S)]
         /\ Erasure(seq, gone)[0] = <<>>
         /\ \A i \in 1..Len(seq) :
              Erasure(seq, gone)[i] =
                IF seq[i] \in gone THEN Erasure(seq, gone)[i - 1]
                ELSE Append(Erasure(seq, gone)[i - 1], seq[i])
<1> DEFINE n == Len(seq)
           V == Seq(S)
           Longer(i, q) == IF seq[i] \in gone THEN q ELSE Append(q, seq[i])
           step == [i \in 1..n |-> [q \in V |-> Longer(i, q)]]
           Is(f) == f = [i \in 0..n |-> IF i = 0 THEN <<>>
                                        ELSE IF seq[i] \in gone THEN f[i - 1]
                                        ELSE Append(f[i - 1], seq[i])]
<1>1. n \in Nat /\ \A i \in 1..n : seq[i] \in S OBVIOUS
<1>2. \A i \in 1..n : \A q \in V : Longer(i, q) \in V BY <1>1
<1>3. <<>> \in V OBVIOUS
<1>4. \E f : Follows(f, V, <<>>, n, step)
  <2> HIDE DEF V, Longer, n, Is
  <2>1. step \in [1..n -> [V -> V]] BY <1>2
  <2> HIDE DEF step
  <2> QED BY <1>1, <1>3, <2>1, Recursion
<1>5. PICK f \in [0..n -> V] : f[0] = <<>> /\ \A i \in 1..n : f[i] = step[i][f[i - 1]]
  <2> HIDE DEF V, Longer, n, Is, step
  <2> QED BY <1>4 DEF Follows
<1>6. ASSUME NEW i \in 1..n PROVE f[i] = Longer(i, f[i - 1])
  <2>1. i - 1 \in 0..n BY <1>1
  <2>2. f[i - 1] \in V BY <1>5, <2>1
  <2> HIDE DEF V, Longer, n
  <2>3. step[i][f[i - 1]] = Longer(i, f[i - 1]) BY <2>2
  <2> QED BY <1>5, <2>3
<1>7. Is(f)
  <2>1. \A i \in 0..n : f[i] = IF i = 0 THEN <<>> ELSE Longer(i, f[i - 1])
    <3> HIDE DEF V, Longer
    <3> QED BY <1>1, <1>5, <1>6
  <2>2. f = [i \in 0..n |-> IF i = 0 THEN <<>> ELSE Longer(i, f[i - 1])]
    <3> HIDE DEF V, Longer
    <3> QED BY <1>5, <2>1
  <2> QED BY <2>2
<1>8. Is(Erasure(seq, gone)) BY <1>7 DEF Erasure
<1>9. ASSUME NEW g, Is(g) PROVE g = f
  <2> DEFINE Good == {m \in 0..n : g[m] = f[m]}
  <2>0. g = [i \in 0..n |-> IF i = 0 THEN <<>> ELSE Longer(i, g[i - 1])] BY <1>9
  <2> HIDE DEF Longer, V, Is, n
  <2>1. 0 \in Good BY <1>1, <1>5, <2>0
  <2>2. ASSUME NEW m \in 0..n, m \in Good, m # n PROVE m + 1 \in Good
    BY <1>1, <2>2, <2>0, <1>6
  <2>3. \A i \in 0..n : i \in Good
    <3> HIDE DEF Good
    <3> QED BY <1>1, <2>1, <2>2, UpTo
  <2> QED BY <1>5, <2>0, <2>3
<1>10. Erasure(seq, gone) = f BY <1>8, <1>9
<1> HIDE DEF Is
<1> QED BY <1>5, <1>6, <1>10

\* q holds what seq has up to n outside gone, in the same order: at tells where
\* each element was.
Left(q, at, seq, n, gone) ==
  /\ at \in [1..Len(q) -> 1..n]
  /\ \A i, k \in 1..Len(q) : i < k => at[i] < at[k]
  /\ \A i \in 1..Len(q) : q[i] = seq[at[i]] /\ seq[at[i]] \notin gone
  /\ \A k \in 1..n : seq[k] \notin gone => \E i \in 1..Len(q) : at[i] = k

\* One more element that goes, and one that stays.
LEMMA LeftGone ==
  ASSUME NEW S, NEW seq, NEW gone, NEW n \in Nat, NEW q \in Seq(S), NEW at,
         Left(q, at, seq, n, gone), seq[n + 1] \in gone
  PROVE  Left(q, at, seq, n + 1, gone)
<1>1. at \in [1..Len(q) -> 1..(n + 1)] BY DEF Left
<1>2. \A k \in 1..(n + 1) : seq[k] \notin gone => \E i \in 1..Len(q) : at[i] = k
  <2> TAKE k \in 1..(n + 1)
  <2> HAVE seq[k] \notin gone
  <2>1. k \in 1..n OBVIOUS
  <2> QED BY <2>1 DEF Left
<1> QED BY <1>1, <1>2 DEF Left

LEMMA LeftKept ==
  ASSUME NEW S, NEW seq, NEW gone, NEW n \in Nat, NEW q \in Seq(S), NEW at,
         Left(q, at, seq, n, gone), seq[n + 1] \notin gone, seq[n + 1] \in S
  PROVE  \E to : Left(Append(q, seq[n + 1]), to, seq, n + 1, gone)
<1> DEFINE m == Len(q)
           more == Append(q, seq[n + 1])
           to == [i \in 1..(m + 1) |-> IF i = m + 1 THEN n + 1 ELSE at[i]]
<1>1. m \in Nat /\ Len(more) = m + 1 OBVIOUS
<1>2. \A i \in 1..m : at[i] \in 1..n BY DEF Left
<1>3. /\ to \in [1..(m + 1) -> 1..(n + 1)]
      /\ to[m + 1] = n + 1 /\ \A i \in 1..m : to[i] = at[i]
  BY <1>1, <1>2
<1>4. more[m + 1] = seq[n + 1] /\ \A i \in 1..m : more[i] = q[i] OBVIOUS
<1> HIDE DEF to, more, m
<1>5. \A i, k \in 1..(m + 1) : i < k => to[i] < to[k]
  <2> TAKE i, k \in 1..(m + 1)
  <2> HAVE i < k
  <2>1. i \in 1..m BY <1>1
  <2>2. CASE k = m + 1 BY <1>2, <1>3, <2>1, <2>2
  <2>3. CASE k \in 1..m BY <1>1, <1>3, <2>1, <2>3 DEF Left, m
  <2> QED BY <1>1, <2>2, <2>3
<1>6. \A i \in 1..(m + 1) : more[i] = seq[to[i]] /\ seq[to[i]] \notin gone
  <2> TAKE i \in 1..(m + 1)
  <2>1. CASE i = m + 1 BY <1>3, <1>4, <2>1
  <2>2. CASE i \in 1..m BY <1>3, <1>4, <2>2 DEF Left, m
  <2> QED BY <1>1, <2>1, <2>2
<1>7. \A k \in 1..(n + 1) : seq[k] \notin gone => \E i \in 1..(m + 1) : to[i] = k
  <2> TAKE k \in 1..(n + 1)
  <2> HAVE seq[k] \notin gone
  <2>1. CASE k = n + 1 BY <1>1, <1>3, <2>1
  <2>2. CASE k \in 1..n
    <3>1. PICK i \in 1..m : at[i] = k BY <2>2 DEF Left, m
    <3> QED BY <1>1, <1>3, <3>1
  <2> QED BY <2>1, <2>2
<1>8. Left(more, to, seq, n + 1, gone) BY <1>1, <1>3, <1>5, <1>6, <1>7 DEF Left
<1> QED BY <1>8 DEF more

\* Without leaves the other elements, in their order, and nothing else.
LEMMA WithoutLeaves ==
  ASSUME NEW S, NEW seq \in Seq(S), NEW gone
  PROVE  /\ Without(seq, gone) \in Seq(S)
         /\ \E at : Left(Without(seq, gone), at, seq, Len(seq), gone)
<1> DEFINE e == Erasure(seq, gone)
           n == Len(seq)
           Good == {m \in 0..n : \E at : Left(e[m], at, seq, m, gone)}
<1>1. n \in Nat /\ \A i \in 1..n : seq[i] \in S OBVIOUS
<1>2. /\ e \in [0..n -> Seq(S)] /\ e[0] = <<>>
      /\ \A i \in 1..n : e[i] = IF seq[i] \in gone THEN e[i - 1] ELSE Append(e[i - 1], seq[i])
  BY ErasureStep
<1> HIDE DEF e, n
<1>3. 0 \in Good
  <2> DEFINE at == [i \in 1..0 |-> i]
  <2>1. Len(e[0]) = 0 BY <1>2
  <2>2. at \in [1..0 -> 1..0] OBVIOUS
  <2>3. Left(e[0], at, seq, 0, gone) BY <2>1, <2>2 DEF Left
  <2> HIDE DEF at
  <2> QED BY <1>1, <2>3
<1>4. ASSUME NEW m \in 0..n, m \in Good, m # n PROVE m + 1 \in Good
  <2>1. m \in Nat /\ m + 1 \in 1..n /\ m + 1 \in 0..n /\ m + 1 - 1 = m BY <1>1, <1>4
  <2>2. e[m] \in Seq(S) BY <1>2
  <2>3. PICK at : Left(e[m], at, seq, m, gone) BY <1>4
  <2>4. CASE seq[m + 1] \in gone
    <3>1. e[m + 1] = e[m] BY <1>2, <2>1, <2>4
    <3>2. Left(e[m + 1], at, seq, m + 1, gone) BY <2>1, <2>2, <2>3, <2>4, <3>1, LeftGone
    <3> QED BY <2>1, <3>2
  <2>5. CASE seq[m + 1] \notin gone
    <3>1. e[m + 1] = Append(e[m], seq[m + 1])
      <4>1. \A i \in 1..n : seq[i] \notin gone => e[i] = Append(e[i - 1], seq[i]) BY <1>2
      <4> QED BY <2>1, <2>5, <4>1
    <3>2. seq[m + 1] \in S BY <1>1, <2>1
    <3>3. \E to : Left(Append(e[m], seq[m + 1]), to, seq, m + 1, gone)
      BY <2>1, <2>2, <2>3, <2>5, <3>2, LeftKept
    <3> QED BY <2>1, <3>1, <3>3
  <2> QED BY <2>4, <2>5
<1>5. \A i \in 0..n : i \in Good
  <2> HIDE DEF Good
  <2> QED BY <1>1, <1>3, <1>4, UpTo
<1>6. n \in Good /\ e[n] \in Seq(S) BY <1>1, <1>2, <1>5
<1> QED BY <1>6 DEF Without, e, n

\* A sequence that has lost an element is shorter.
LEMMA LeftShorter ==
  ASSUME NEW S, NEW q \in Seq(S), NEW at, NEW seq, NEW n \in Nat, NEW gone,
         Left(q, at, seq, n, gone)
  PROVE  /\ Len(q) <= n
         /\ \A j \in 1..n : seq[j] \in gone => Len(q) < n
<1> DEFINE m == Len(q)
<1>0. m \in Nat OBVIOUS
<1>2. IsFiniteSet(1..n) /\ Cardinality(1..n) = n
  BY FS_Interval
<1>3. at \in [1..m -> 1..n] /\ \A i, k \in 1..m : at[i] = at[k] => i = k
  BY DEF Left
<1>4. \A i \in 1..m : seq[at[i]] \notin gone BY DEF Left
<1> HIDE DEF m
<1>1. IsFiniteSet(1..m) /\ Cardinality(1..m) = m
  BY <1>0, FS_Interval
<1>5. at \in Injection(1..m, 1..n) BY <1>3 DEF Injection, IsInjective
<1>6. m <= n BY <1>1, <1>2, <1>5, FS_Injection
<1>7. ASSUME NEW j \in 1..n, seq[j] \in gone PROVE m < n
  <2> DEFINE T == (1..n) \ {j}
  <2>1. IsFiniteSet(T) /\ Cardinality(T) = n - 1 BY <1>2, FS_RemoveElement
  <2>2. at \in [1..m -> T] BY <1>3, <1>4, <1>7
  <2> HIDE DEF T
  <2>3. at \in Injection(1..m, T) BY <1>3, <2>2 DEF Injection, IsInjective
  <2>4. Cardinality(1..m) <= Cardinality(T) BY <2>1, <2>3, FS_Injection
  <2> QED BY <1>0, <1>1, <2>1, <2>4
<1> QED BY <1>6, <1>7 DEF m

-----------------------------------------------------------------------------
(***************************************************************************)
(* The processes and the lease                                             *)
(***************************************************************************)
Process ==
  [at : Running \union {"none", "starting", "ended"}, enabled : BOOLEAN, request : BOOLEAN,
   stop : BOOLEAN, reply : Results, result : Results, pending : BOOLEAN, left : 0..Attempts]

Typed == processes \in [Workers -> Process] /\ clock \in {"default", "peak"}

\* What a process p has taken on, by the place where it is.
Dutiful(p) ==
  /\ p.at \in {"raising", "undoing"} => p.pending
  /\ p.at \in {"none", "starting"} => ~p.pending
  /\ p.at = "ended" /\ p.pending => p.left = 0

Duties == \A w \in Workers : Dutiful(processes[w]) /\ (processes[w].at \in Running => mutex = w)

PeakIsPending == clock = "peak" => \E w \in Workers : processes[w].pending

IInv == Typed /\ Duties /\ PeakIsPending

LEMMA InitInv == Init => IInv
  BY AttemptsAssumption, WorkersAssumption
  DEF Init, GpuInit, NoProcess, Blank, IInv, Typed, Process, Results, Running, Duties, Dutiful,
      PeakIsPending

-----------------------------------------------------------------------------
\* The part of a process the service has no say in.
Inner(p) == <<p.at, p.pending, p.left>>

\* What a step may do to the processes that leaves the lease alone: nothing to
\* the inner part of any, or the launch of one.
Outward ==
  /\ UNCHANGED <<mutex, clock>>
  /\ processes' \in [Workers -> Process]
  /\ \A v \in Workers :
       \/ Inner(processes'[v]) = Inner(processes[v])
       \/ /\ processes[v].at = "none"
          /\ Inner(processes'[v]) = <<"starting", FALSE, Attempts>>

LEMMA OutwardInv ==
  ASSUME IInv, Outward
  PROVE  IInv' /\ UNCHANGED <<clock, Owed, GaveUp>>
<1>1. \A v \in Workers :
        /\ processes'[v].pending = processes[v].pending
        /\ Dutiful(processes'[v])
        /\ processes'[v].at \in Running => processes[v].at \in Running
        /\ processes'[v].at \in Running /\ processes'[v].pending
             <=> processes[v].at \in Running /\ processes[v].pending
        /\ processes'[v].at = "ended" /\ processes'[v].pending
             <=> processes[v].at = "ended" /\ processes[v].pending
  BY DEF IInv, Outward, Inner, Duties, Dutiful, Running, Typed, Process
<1>2. IInv'
  BY <1>1 DEF IInv, Outward, Typed, Duties, PeakIsPending
<1>3. UNCHANGED <<clock, Owed, GaveUp>>
  BY <1>1 DEF Outward, Owed, GaveUp
<1> QED BY <1>2, <1>3

LEMMA BecomesIsOutward ==
  ASSUME IInv, UNCHANGED <<mutex, clock>>, NEW w, NEW p, Becomes(w, p),
         w \in Workers =>
           /\ p \in Process
           /\ \/ Inner(p) = Inner(processes[w])
              \/ processes[w].at = "none" /\ Inner(p) = <<"starting", FALSE, Attempts>>
  PROVE  Outward
BY DEF IInv, Typed, Becomes, Outward

LEMMA WordsAreOutward ==
  ASSUME IInv, UNCHANGED <<mutex, clock>>, NEW w,
         \/ UNCHANGED processes
         \/ \E on \in BOOLEAN : Asked(w, on)
         \/ Stopped(w) \/ ReplyTaken(w)
         \/ w \in Workers /\ processes[w].at = "none" /\ Launched(w)
  PROVE  Outward
<1>0. w \in Workers => processes[w] \in Process
  BY DEF IInv, Typed
<1>1. CASE UNCHANGED processes
  BY <1>1 DEF IInv, Typed, Outward, Inner
<1>2. CASE \E on \in BOOLEAN : Asked(w, on)
  <2>1. PICK on \in BOOLEAN : Asked(w, on)
    BY <1>2
  <2> DEFINE p == [processes[w] EXCEPT !.enabled = on, !.request = TRUE]
  <2>2. w \in Workers => p \in Process /\ Inner(p) = Inner(processes[w])
    BY <1>0 DEF Process, Inner
  <2> HIDE DEF p
  <2>3. Becomes(w, p)
    BY <2>1 DEF Asked, p
  <2> QED BY <2>2, <2>3, BecomesIsOutward
<1>3. CASE Stopped(w)
  <2> DEFINE p == [processes[w] EXCEPT !.stop = TRUE]
  <2>1. w \in Workers => p \in Process /\ Inner(p) = Inner(processes[w])
    BY <1>0 DEF Process, Inner
  <2> HIDE DEF p
  <2>2. Becomes(w, p)
    BY <1>3 DEF Stopped, p
  <2> QED BY <2>1, <2>2, BecomesIsOutward
<1>4. CASE ReplyTaken(w)
  <2> DEFINE p == [processes[w] EXCEPT !.reply = "none"]
  <2>1. w \in Workers => p \in Process /\ Inner(p) = Inner(processes[w])
    BY <1>0 DEF Process, Inner, Results
  <2> HIDE DEF p
  <2>2. Becomes(w, p)
    BY <1>4 DEF ReplyTaken, p
  <2> QED BY <2>1, <2>2, BecomesIsOutward
<1>5. CASE w \in Workers /\ processes[w].at = "none" /\ Launched(w)
  <2>1. Attempts \in 0..Attempts
    BY AttemptsAssumption
  <2>2. Blank("starting") \in Process /\ Inner(Blank("starting")) = <<"starting", FALSE, Attempts>>
    BY <2>1 DEF Process, Inner, Results, Blank
  <2> QED BY <1>5, <2>2, BecomesIsOutward DEF Launched
<1> QED BY <1>1, <1>2, <1>3, <1>4, <1>5

\* Every step of the service, and of its clients and settings, is outward.
LEMMA AnswerIsOutward ==
  ASSUME IInv, NEW w, NEW result, Answer(w, result)
  PROVE  Outward
  BY WordsAreOutward DEF Answer

LEMMA AskIsOutward ==
  ASSUME IInv, NEW w, NEW on \in BOOLEAN, Ask(w, on), UNCHANGED <<mutex, clock>>
  PROVE  Outward
  BY WordsAreOutward DEF Ask

LEMMA QuietIsOutward ==
  ASSUME IInv, UNCHANGED <<processes, mutex, clock>>
  PROVE  Outward
  BY WordsAreOutward

LEMMA InferenceIsOutward ==
  ASSUME IInv, Inference
  PROVE  Outward
<1>1. CASE TakeCommand
  BY <1>1, AskIsOutward, QuietIsOutward DEF TakeCommand, Take, Activate
<1>2. CASE TakeTimer
  BY <1>2, AskIsOutward, QuietIsOutward DEF TakeTimer, Take, TimerExpired
<1>3. CASE TakeRelease \/ TakeEnable \/ TakeReplace \/ TakeReplaceFails \/ TakeErase
  BY <1>3, QuietIsOutward
  DEF TakeRelease, TakeEnable, TakeReplace, TakeReplaceFails, TakeErase, Take
<1>4. CASE FinishReady \/ FinishUse \/ FinishUseFails \/ FinishReplace \/ FinishOther
  BY <1>4, QuietIsOutward
  DEF FinishReady, FinishUse, FinishUseFails, FinishReplace, FinishOther, Working, boost
<1>5. CASE Activated \/ NotYet \/ Unavailable \/ Released \/ NotReleased \/ Lowering
  BY <1>5, AnswerIsOutward DEF Activated, NotYet, Unavailable, Released, NotReleased, Lowering
<1>6. CASE Reset
  BY <1>6, AskIsOutward, QuietIsOutward DEF Reset
<1>7. CASE Close
  BY <1>7, WordsAreOutward DEF Close, Dismissed
<1>8. CASE Closed \/ NoBoost
  BY <1>8, QuietIsOutward DEF Closed, NoBoost, boost
<1>9. CASE Launch
  BY <1>9, WordsAreOutward DEF Launch, NotLaunched
<1>10. CASE Boosted \/ NotBoosted
  BY <1>10, AnswerIsOutward DEF Boosted, NotBoosted
<1> QED BY <1>1, <1>2, <1>3, <1>4, <1>5, <1>6, <1>7, <1>8, <1>9, <1>10 DEF Inference

LEMMA OthersAreOutward ==
  ASSUME IInv, Environment \/ ReloadReturns \/ Exit \/ Tick \/ Expire
  PROVE  Outward
  BY QuietIsOutward
  DEF Environment, Ready, Use, Request, Disconnect, Enable, Reload, Stop, Kill, ReloadReturns,
      Exit, Tick, Expire, boost

-----------------------------------------------------------------------------
\* What a running process w does, becoming q: it goes on or ends, and takes on,
\* uses, fulfils or gives up its duty.  It is the only one that runs.
LEMMA RunningStep ==
  ASSUME IInv, NEW w \in Workers, processes[w].at \in Running,
         NEW q \in Process, Becomes(w, q), Dutiful(q), clock' \in {"default", "peak"},
         \/ q.at \in Running /\ mutex' = mutex
         \/ /\ q.at = "ended" /\ mutex' = 0
            /\ clock' = clock /\ q.pending = processes[w].pending,
         \/ clock' = clock /\ (q.pending = processes[w].pending \/ q.pending)
         \/ processes[w].pending /\ q.pending /\ clock' = "peak"
         \/ processes[w].pending /\ ~q.pending /\ clock' = "default"
  PROVE  IInv' /\ [Lease!Next]_<<clock, Owed, GaveUp>>
<1> DEFINE p == processes[w]
<1>1. /\ processes \in [Workers -> Process] /\ processes' \in [Workers -> Process]
      /\ \A v \in Workers : processes'[v] = IF v = w THEN q ELSE processes[v]
  BY DEF IInv, Typed, Becomes
<1>2. \A v \in Workers : v # w => processes[v].at \notin Running
  BY DEF IInv, Duties
<1>3. IInv'
  BY <1>1, <1>2 DEF Typed, IInv, Duties, Running, PeakIsPending
<1>4. (Owed <=> p.pending) /\ (Owed' <=> q.at \in Running /\ q.pending)
  BY <1>1, <1>2 DEF Owed
<1>5. p.at # "ended"
  BY DEF Running
<1>6. GaveUp' <=> GaveUp \/ (q.at = "ended" /\ q.pending)
  BY <1>1, <1>5 DEF GaveUp
<1>7. q.at \in Running => q.at # "ended"
  BY DEF Running
<1>8. Owed \in BOOLEAN /\ GaveUp \in BOOLEAN /\ Owed' \in BOOLEAN /\ GaveUp' \in BOOLEAN
  BY DEF Owed, GaveUp
<1>9. p.pending \in BOOLEAN /\ q.pending \in BOOLEAN
  BY <1>1 DEF Process
<1>10. CASE q.at \in Running
  BY <1>4, <1>6, <1>7, <1>8, <1>10, <1>3, <1>9 DEF Lease!Next, Lease!Borrow, Lease!Raise,
     Lease!Return
<1>11. CASE q.at = "ended" /\ clock' = clock /\ q.pending = p.pending
  BY <1>7, <1>11, <1>4, <1>6, <1>8, <1>3 DEF Lease!GiveUp, Lease!Next
<1> QED BY <1>10, <1>11

\* The processes that start run for the first time, or never.
LEMMA StartingStep ==
  ASSUME IInv, NEW w \in Workers, Begin(w) \/ Decline(w)
  PROVE  IInv' /\ UNCHANGED <<clock, Owed, GaveUp>>
<1> DEFINE p == processes[w]
<1>1. p \in Process /\ p.at = "starting" /\ ~p.pending
  BY DEF IInv, Typed, Duties, Dutiful, Begin, Decline
<1>2. PICK q \in Process :
        /\ Becomes(w, q) /\ ~q.pending /\ UNCHANGED clock
        /\ \/ q.at = "waiting" /\ mutex = 0 /\ mutex' = w
           \/ q.at = "ended" /\ mutex' = mutex
  <2>1. CASE Begin(w)
    <3> DEFINE q == [p EXCEPT !.at = "waiting", !.reply = "success"]
    <3>1. q \in Process /\ ~q.pending /\ q.at = "waiting"
      BY <1>1 DEF Process, Results, Running
    <3> QED BY <2>1, <3>1 DEF Begin, Lock
  <2>2. CASE Decline(w)
    <3> DEFINE q == [p EXCEPT !.at = "ended", !.reply = "unavailable"]
    <3>1. q \in Process /\ ~q.pending /\ q.at = "ended"
      BY <1>1 DEF Process, Results
    <3> QED BY <2>2, <3>1 DEF Decline
  <2> QED BY <2>1, <2>2
<1>3. /\ processes \in [Workers -> Process] /\ processes' \in [Workers -> Process]
      /\ \A v \in Workers : processes'[v] = IF v = w THEN q ELSE processes[v]
  BY <1>2 DEF IInv, Typed, Becomes
<1>4. \A v \in Workers : v # 0
  BY WorkersAssumption
<1>5. IInv'
  BY <1>2, <1>3, <1>4, <1>1 DEF IInv, Duties, Dutiful, Running, PeakIsPending, Typed
<1>6. \A v \in Workers : processes'[v].pending <=> processes[v].pending
  BY <1>1, <1>2, <1>3
<1>7. \A v \in Workers :
        processes'[v].pending =>
          /\ processes'[v].at = processes[v].at
          /\ processes[v].pending
  BY <1>1, <1>2, <1>3
<1>8. \A v \in Workers : processes[v].pending => processes'[v].at = processes[v].at
  BY <1>1, <1>3
<1> QED BY <1>2, <1>5, <1>6, <1>7, <1>8 DEF Owed, GaveUp

LEMMA WorkInv ==
  ASSUME IInv, NEW w \in Workers, Work(w)
  PROVE  IInv' /\ [Lease!Next]_<<clock, Owed, GaveUp>>
<1>0. /\ processes[w] \in Process /\ Dutiful(processes[w]) /\ clock \in {"default", "peak"}
      /\ processes[w].at \in Running => mutex = w
  BY DEF IInv, Typed, Duties
<1>1. CASE Begin(w) \/ Decline(w)
  BY <1>1, StartingStep
<1>2. CASE Leave(w)
  <2> DEFINE q == [processes[w] EXCEPT !.at = "restoring"]
  <2>1. q \in Process /\ Dutiful(q) /\ Becomes(w, q)
    BY <1>0, <1>2 DEF Leave, Process, Results, Running, Dutiful
  <2> QED BY <1>0, <1>2, <2>1, RunningStep DEF Leave, Process, Running
<1>3. CASE Receive(w)
  <2> DEFINE q == [processes[w] EXCEPT !.request = FALSE, !.pending = Owe(processes[w]),
                   !.at = IF processes[w].enabled THEN "raising" ELSE "lowering"]
  <2>1. q \in Process /\ Dutiful(q) /\ Becomes(w, q)
    BY <1>0, <1>3 DEF Receive, Process, Results, Running, Dutiful, Owe
  <2> QED BY <1>0, <1>3, <2>1, RunningStep DEF Receive, Process, Running, Owe
<1>4. CASE Peak(w)
  <2> DEFINE q == Answered(processes[w], "success")
  <2>1. q \in Process /\ Dutiful(q) /\ Becomes(w, q)
    BY <1>0, <1>4 DEF Peak, Process, Results, Running, Dutiful, Answered
  <2>2. q.at = "waiting" /\ q.pending /\ processes[w].pending /\ clock' = "peak"
    BY <1>0, <1>4 DEF Peak, Process, Dutiful, Answered
  <2> HIDE DEF q
  <2> QED BY <1>0, <1>4, <2>1, <2>2, RunningStep DEF Peak, Running
<1>5. CASE PeakFails(w)
  <2>1. PICK result \in {"retry_later", "unavailable"} :
          Becomes(w, [processes[w] EXCEPT !.at = "undoing", !.result = result])
    BY <1>5 DEF PeakFails
  <2> DEFINE q == [processes[w] EXCEPT !.at = "undoing", !.result = result]
  <2>2. q \in Process /\ Dutiful(q) /\ Becomes(w, q)
    BY <1>0, <1>5, <2>1 DEF PeakFails, Process, Results, Running, Dutiful
  <2>3. q.at = "undoing" /\ q.pending /\ processes[w].pending /\ clock' \in {clock, "peak"}
    BY <1>0, <1>5 DEF PeakFails, Process, Dutiful
  <2> HIDE DEF q
  <2> QED BY <1>0, <1>5, <2>2, <2>3, RunningStep DEF PeakFails, Running
<1>6. CASE Undo(w)
  <2> DEFINE q == Answered([processes[w] EXCEPT !.pending = FALSE, !.result = "none"],
                      processes[w].result)
  <2>1. q \in Process /\ Dutiful(q) /\ Becomes(w, q)
    BY <1>0, <1>6 DEF Undo, Process, Results, Running, Dutiful, Answered, UndoClock, Lowered
  <2>2. q.at = "waiting" /\ ~q.pending /\ processes[w].pending /\ clock' = "default"
    BY <1>0, <1>6 DEF Undo, Process, Dutiful, Answered, UndoClock, Lowered
  <2> HIDE DEF q
  <2> QED BY <1>0, <1>6, <2>1, <2>2, RunningStep DEF Undo, Running
<1>7. CASE UndoFails(w)
  <2> DEFINE q == [processes[w] EXCEPT !.at = "restoring", !.result = "none",
                   !.reply = "unavailable"]
  <2>1. q \in Process /\ Dutiful(q) /\ Becomes(w, q)
    BY <1>0, <1>7 DEF UndoFails, Process, Results, Running, Dutiful, Refused
  <2> QED BY <1>0, <1>7, <2>1, RunningStep DEF UndoFails, Process, Running, Refused
<1>8. CASE Lower(w)
  <2> DEFINE q == Answered([processes[w] EXCEPT !.pending = FALSE], "success")
  <2>1. q \in Process /\ Dutiful(q) /\ Becomes(w, q)
    BY <1>0, <1>8 DEF Lower, Process, Results, Running, Dutiful, Answered, Lowered
  <2>2. /\ q.at = "waiting" /\ ~q.pending
        /\ \/ processes[w].pending /\ clock' = "default"
           \/ q.pending = processes[w].pending /\ clock' = clock
    BY <1>0, <1>8 DEF Lower, Process, Dutiful, Answered, Lowered
  <2> HIDE DEF q
  <2> QED BY <1>0, <1>8, <2>1, <2>2, RunningStep DEF Lower, Running
<1>9. CASE LowerFails(w)
  <2> DEFINE q == Answered(processes[w], "retry_later")
  <2>1. q \in Process /\ Dutiful(q) /\ Becomes(w, q)
    BY <1>0, <1>9 DEF LowerFails, Process, Results, Running, Dutiful, Answered, Refused
  <2> QED BY <1>0, <1>9, <2>1, RunningStep DEF LowerFails, Process, Running, Answered, Refused
<1>10. CASE Restore(w)
  <2> DEFINE q == [processes[w] EXCEPT !.pending = FALSE]
  <2>1. q \in Process /\ Dutiful(q) /\ Becomes(w, q)
    BY <1>0, <1>10 DEF Restore, Process, Results, Running, Dutiful, Lowered
  <2> QED BY <1>0, <1>10, <2>1, RunningStep DEF Restore, Process, Running, Lowered
<1>11. CASE RestoreFails(w)
  <2> DEFINE q == [processes[w] EXCEPT !.left = @ - 1]
  <2>1. q \in Process /\ Dutiful(q) /\ Becomes(w, q)
    BY <1>0, <1>11, AttemptsAssumption DEF RestoreFails, Process, Results, Running, Dutiful, Refused
  <2> QED BY <1>0, <1>11, <2>1, RunningStep DEF RestoreFails, Process, Running, Refused
<1>12. CASE End(w)
  <2> DEFINE q == [processes[w] EXCEPT !.at = "ended"]
  <2>1. q \in Process /\ Dutiful(q) /\ Becomes(w, q)
    BY <1>0, <1>12 DEF End, Process, Results, Running, Dutiful, Done
  <2> QED BY <1>0, <1>12, <2>1, RunningStep DEF End, Process, Running, Done
<1> QED BY <1>1, <1>2, <1>3, <1>4, <1>5, <1>6, <1>7, <1>8, <1>9, <1>10, <1>11, <1>12 DEF Work

-----------------------------------------------------------------------------
LEMMA NextInv ==
  ASSUME IInv, [Next]_vars
  PROVE  IInv' /\ [Lease!Next]_<<clock, Owed, GaveUp>>
BY InferenceIsOutward, OthersAreOutward, OutwardInv, WorkInv, QuietIsOutward DEF Processes,
   vars, boost, Next

\* A raised clock has a process that is bound to lower it, or one that has made
\* all its attempts: in every reachable state of the inference server.
THEOREM RaisedClockIsOwed == Spec => []RaisedIsOwed
<1>1. IInv => RaisedIsOwed
  <2> SUFFICES ASSUME IInv, clock = "peak"
               PROVE  \/ Owed
                      \/ \E w \in Workers : processes[w].pending /\ processes[w].left = 0
    BY DEF RaisedIsOwed
  <2>1. PICK w \in Workers : processes[w].pending
    BY DEF IInv, PeakIsPending
  <2>2. processes[w] \in Process /\ Dutiful(processes[w])
    BY DEF IInv, Typed, Duties
  <2>3. CASE processes[w].at \in Running
    BY <2>1, <2>3 DEF Owed
  <2>4. CASE processes[w].at = "ended"
    BY <2>1, <2>2, <2>4 DEF Dutiful
  <2> QED BY <2>1, <2>2, <2>3, <2>4 DEF Dutiful, Process
<1> QED BY <1>1, InitInv, NextInv, PTL DEF Spec

\* The inference server with its boost processes implements the clock lease: a
\* clock is moved only while one process owes its restoration.
THEOREM ServerLendsTheClock == Spec => ClockIsLent
<1>1. Init => Lease!Init
  BY DEF Init, GpuInit, NoProcess, Blank, Running, Lease!Init, Owed, GaveUp
<1>2. Spec => []IInv
  BY InitInv, NextInv, PTL DEF Spec
<1>3. IInv /\ [Next]_vars => [Lease!Next]_<<clock, Owed, GaveUp>>
  BY NextInv
<1>4. [][Lease!Next]_<<clock, Owed, GaveUp>> => [][Lease!Next]_(Lease!vars)
  BY PTL DEF Lease!vars
<1> QED BY <1>1, <1>2, <1>3, <1>4, PTL DEF Spec, ClockIsLent, Lease!Spec

-----------------------------------------------------------------------------
(***************************************************************************)
(* LeaseIsKept.  The thread is in one call at a time; what it asks of a    *)
(* process and where that process can be is told by the place of the       *)
(* thread.  So the invariant says where the process stands that the lease  *)
(* or the thread holds, and that every other is told to end.  A job of the *)
(* timer is of the lease as it is only if the timer is not armed, so there *)
(* is one at most and the lease is active when it comes.                   *)
(***************************************************************************)
JobKinds == {"none", "ready", "use", "erase", "enable", "replace", "release", "timer"}
JobShape == [kind : JobKinds, client : Clients \union {0}, on : BOOLEAN, generation : Nat]
Ticks    == 0..(IdleTimeout + RetryDelay)
LeaseRecord ==
  [backend : Workers \union {0}, active : BOOLEAN, enabled : BOOLEAN, releasing : BOOLEAN,
   failures : 0..Failures, retry : Nat, deadline : Ticks, armed : BOOLEAN, timer : Ticks,
   generation : Nat]
Places ==
  {"free", "job", "on", "off", "reset", "lowering", "close", "closing", "make", "launching"}
ThreadRecord ==
  [at : Places, job : JobShape, w : Workers \union {0}, next : {"free", "job", "make"}]

\* A lease that is active, or being released, is that of a process.
LeaseFits ==
  /\ lease.active => lease.backend # 0
  /\ lease.releasing => lease.active
  /\ lease.failures > 0 => lease.releasing
\* The calls of the inference thread, and whose process they ask.
CallsFit ==
  /\ thread.at \in {"on", "off", "lowering", "close", "closing", "launching"} => thread.w # 0
  /\ thread.at \in {"on", "off"} => thread.w = lease.backend
  /\ thread.at \in {"lowering", "close", "closing", "make", "launching"} => lease.backend = 0
  /\ thread.at \in {"reset", "lowering", "close", "closing"} => thread.next # "free"
  /\ thread.at = "on" => ~lease.active /\ thread.next = "job"
  /\ thread.at = "off" => lease.active /\ lease.releasing
  /\ ~initialized /\ thread.at # "reset" => lease.backend = 0
  /\ thread.at \in {"make", "launching"} \/ thread.next = "make" => initialized
Records ==
  /\ lease \in LeaseRecord /\ thread \in ThreadRecord /\ jobs \in Seq(JobShape)
  /\ {up, initialized, accepting} \subseteq BOOLEAN /\ mutex \in Workers \union {0}
  /\ clients \in [Clients -> {"gone", "reading", "waiting"}]
  /\ reload \in {"no", "waiting", "done"}
LeaseInv == Records /\ LeaseFits /\ CallsFit

\* The times and the number of attempts are numbers above 0.
LEMMA Times ==
  /\ IdleTimeout \in Nat /\ RetryDelay \in Nat /\ Failures \in Nat
  /\ IdleTimeout # 0 /\ RetryDelay # 0 /\ Failures # 0
  /\ IdleTimeout \in Ticks /\ RetryDelay \in Ticks /\ 0 \in Ticks /\ 0 \in 0..Failures
  BY TimesAssumption DEF Ticks

\* What is posted is a job.
LEMMA JobMade ==
  ASSUME NEW kind \in JobKinds, NEW c \in Clients \union {0}, NEW on \in BOOLEAN, NEW g \in Nat
  PROVE  Job(kind, c, on, g) \in JobShape
  BY DEF Job, JobShape

\* The first job is taken.
LEMMA JobTaken ==
  ASSUME LeaseInv, NEW kind, Take(kind)
  PROVE  /\ Head(jobs) \in JobShape /\ jobs' \in Seq(JobShape) /\ Head(jobs).kind = kind
         /\ Len(jobs) \in Nat /\ Len(jobs) > 0 /\ Len(jobs') = Len(jobs) - 1
         /\ Head(jobs) = jobs[1] /\ \A i \in 1..Len(jobs') : jobs'[i] = jobs[i + 1]
         /\ up /\ thread.at = "free" /\ UNCHANGED <<up, mutex, clients, failed, reload, accepting, calls>>
  BY DEF LeaseInv, Records, Take

\* A job is posted: the others stay where they are.
LEMMA JobPosted ==
  ASSUME LeaseInv, NEW job \in JobShape, Post(job)
  PROVE  /\ jobs' \in Seq(JobShape) /\ Len(jobs) \in Nat /\ Len(jobs') = Len(jobs) + 1
         /\ jobs'[Len(jobs) + 1] = job /\ \A i \in 1..Len(jobs) : jobs'[i] = jobs[i]
  BY DEF LeaseInv, Records, Post

\* The fields of the lease.
LEMMA LeaseOf == ASSUME LeaseInv PROVE
  /\ lease.backend \in Workers \union {0} /\ lease.active \in BOOLEAN /\ lease.enabled \in BOOLEAN
  /\ lease.releasing \in BOOLEAN /\ lease.failures \in 0..Failures /\ lease.retry \in Nat
  /\ lease.deadline \in Ticks /\ lease.armed \in BOOLEAN /\ lease.timer \in Ticks
  /\ lease.generation \in Nat
  BY DEF LeaseInv, Records, LeaseRecord

\* The fields of what the thread does.
LEMMA ThreadOf == ASSUME LeaseInv PROVE
  /\ thread.at \in Places /\ thread.job \in JobShape /\ thread.w \in Workers \union {0}
  /\ thread.next \in {"free", "job", "make"}
  BY DEF LeaseInv, Records, ThreadRecord

\* What the thread turns to.
LEMMA DoingMade ==
  ASSUME NEW at \in Places, NEW job \in JobShape, NEW w \in Workers \union {0},
         NEW next \in {"free", "job", "make"}
  PROVE  /\ Doing(at, job, w, next) \in ThreadRecord
         /\ Doing(at, job, w, next).at = at /\ Doing(at, job, w, next).job = job
         /\ Doing(at, job, w, next).w = w /\ Doing(at, job, w, next).next = next
  BY DEF Doing, ThreadRecord

\* A thread that is done.
LEMMA FreeMade == Free \in ThreadRecord /\ Free.at = "free" /\ Free.w = 0
<1>1. NoJob \in JobShape BY DEF NoJob, Job, JobShape, JobKinds
<1> QED BY <1>1, DoingMade DEF Free, Places

\* A thread that goes on with its job elsewhere.
LEMMA GoesTo ==
  ASSUME LeaseInv, NEW at \in Places
  PROVE  /\ Goes(at) \in ThreadRecord /\ Goes(at).at = at /\ Goes(at).job = thread.job
         /\ Goes(at).w = thread.w /\ Goes(at).next = thread.next
  BY ThreadOf DEF Goes, LeaseInv, Records, ThreadRecord

\* A lease that is reset is nobody's, and the timer's jobs are of an earlier one.
LEMMA FreshLease ==
  ASSUME LeaseInv
  PROVE  /\ Fresh(lease) \in LeaseRecord
         /\ Fresh(lease).backend = 0 /\ ~Fresh(lease).active /\ ~Fresh(lease).releasing
         /\ Fresh(lease).failures = 0 /\ ~Fresh(lease).armed
         /\ Fresh(lease).generation = lease.generation + 1
         /\ Fresh(lease).enabled = lease.enabled
<1>1. lease \in LeaseRecord BY DEF LeaseInv, Records
<1>2. PICK g \in Nat : g = lease.generation + 1 BY <1>1 DEF LeaseRecord
<1>3. Fresh(lease) = [lease EXCEPT !.backend = 0, !.active = FALSE, !.releasing = FALSE,
                        !.failures = 0, !.retry = 0, !.armed = FALSE, !.timer = 0,
                        !.generation = g] BY <1>2 DEF Fresh
<1>4. lease.deadline \in Ticks /\ lease.enabled \in BOOLEAN BY <1>1 DEF LeaseRecord
<1>5. PICK d \in Ticks, e \in BOOLEAN : d = lease.deadline /\ e = lease.enabled BY <1>4
<1>6. Fresh(lease) =
        [backend |-> 0, active |-> FALSE, enabled |-> e, releasing |-> FALSE, failures |-> 0,
         retry |-> 0, deadline |-> d, armed |-> FALSE, timer |-> 0, generation |-> g]
  BY <1>1, <1>3, <1>5 DEF LeaseRecord
<1> QED BY <1>2, <1>5, <1>6, Times DEF LeaseRecord

\* The clients' calls leave the lease alone,
LEMMA CallLease ==
  ASSUME LeaseInv, \E c \in Clients : Ready(c) \/ Use(c) \/ Disconnect(c)
  PROVE  LeaseInv'
<1>1. UNCHANGED <<lease, thread, up, initialized, accepting, mutex, reload>>
  BY DEF Ready, Use, Request, Disconnect, boost
<1>2. PICK c \in Clients : Ready(c) \/ Use(c) \/ Disconnect(c) OBVIOUS
<1>3. \E kind \in {"ready", "use", "erase"} : Post(Job(kind, c, FALSE, 0))
  BY <1>2 DEF Ready, Use, Request, Disconnect, Leaves
<1>4. jobs' \in Seq(JobShape) BY <1>3, JobMade, JobPosted DEF JobKinds
<1>5. clients' \in [Clients -> {"gone", "reading", "waiting"}]
  BY <1>2 DEF Ready, Use, Request, Disconnect, LeaseInv, Records
<1> QED BY <1>1, <1>4, <1>5 DEF LeaseInv, Records, LeaseFits, CallsFit

\* and so do the calls of the settings.
LEMMA SettingLease ==
  ASSUME LeaseInv, (\E on \in BOOLEAN : Enable(on)) \/ Reload \/ Stop \/ Kill \/ ReloadReturns \/ Exit
  PROVE  LeaseInv'
<1>1. UNCHANGED <<lease, thread, initialized, mutex, clients>>
  BY DEF Enable, Reload, Stop, Kill, ReloadReturns, Exit, boost, service
<1>2. {up', accepting'} \subseteq BOOLEAN /\ reload' \in {"no", "waiting", "done"}
  BY DEF Enable, Reload, Stop, Kill, ReloadReturns, Exit, boost, service, LeaseInv, Records
<1>3. \/ UNCHANGED jobs
      \/ \E kind \in {"enable", "replace", "release"}, on \in BOOLEAN : Post(Job(kind, 0, on, 0))
  BY DEF Enable, Reload, Stop, Kill, ReloadReturns, Exit, boost, service
<1>4. jobs' \in Seq(JobShape)
  BY <1>3, JobMade, JobPosted DEF JobKinds, LeaseInv, Records
<1> QED BY <1>1, <1>2, <1>4 DEF LeaseInv, Records, LeaseFits, CallsFit

\* Time moves the deadline and the timer only.
LEMMA TimeLease ==
  ASSUME LeaseInv, Tick \/ Expire
  PROVE  /\ LeaseInv'
         /\ lease'.backend = lease.backend /\ lease'.active = lease.active
         /\ lease'.enabled = lease.enabled /\ lease'.releasing = lease.releasing
         /\ lease'.failures = lease.failures /\ lease'.generation = lease.generation
         /\ \/ lease'.armed = lease.armed /\ UNCHANGED jobs
            \/ lease.armed /\ ~lease'.armed /\ Post(Job("timer", 0, FALSE, lease.generation))
<1>1. UNCHANGED <<thread, up, initialized, accepting, mutex, clients, reload>>
  BY DEF Tick, Expire, boost
<1>2. ASSUME NEW t \in Ticks PROVE Less(t) \in Ticks
  BY Times DEF Less, Ticks
<1>3. Less(lease.retry) \in Nat BY LeaseOf DEF Less
<1>4. lease \in LeaseRecord BY DEF LeaseInv, Records
<1>5. /\ lease' \in LeaseRecord
      /\ lease'.backend = lease.backend /\ lease'.active = lease.active
      /\ lease'.enabled = lease.enabled /\ lease'.releasing = lease.releasing
      /\ lease'.failures = lease.failures /\ lease'.generation = lease.generation
      /\ \/ lease'.armed = lease.armed /\ UNCHANGED jobs
         \/ lease.armed /\ ~lease'.armed /\ Post(Job("timer", 0, FALSE, lease.generation))
  <2>1. CASE Tick
    <3>1. PICK d \in Ticks : d = Less(lease.deadline) BY <1>2, LeaseOf
    <3>2. PICK r \in Nat : r = Less(lease.retry) BY <1>3
    <3>3. PICK t \in Ticks : t = Less(lease.timer) BY <1>2, LeaseOf
    <3>4. lease' = [lease EXCEPT !.deadline = d, !.retry = r, !.timer = t] /\ UNCHANGED jobs
      BY <2>1, <3>1, <3>2, <3>3 DEF Tick
    <3> QED BY <1>4, <3>4 DEF LeaseRecord
  <2>2. CASE Expire
    BY <2>2, <1>4 DEF Expire, LeaseRecord
  <2> QED BY <2>1, <2>2
<1>6. jobs' \in Seq(JobShape)
  BY <1>5, LeaseOf, JobMade, JobPosted DEF JobKinds, LeaseInv, Records
<1> QED BY <1>1, <1>5, <1>6 DEF LeaseInv, Records, LeaseFits, CallsFit

-----------------------------------------------------------------------------
\* What becomes of the lease, and of the thread.
LeaseGoes(backend, active, releasing, failures, armed, generation) ==
  /\ lease' \in LeaseRecord
  /\ lease'.backend = backend /\ lease'.active = active /\ lease'.releasing = releasing
  /\ lease'.failures = failures /\ lease'.armed = armed /\ lease'.generation = generation
LeaseStays ==
  LeaseGoes(lease.backend, lease.active, lease.releasing, lease.failures, lease.armed,
            lease.generation)
LeaseAnew == LeaseGoes(0, FALSE, FALSE, 0, FALSE, lease.generation + 1)
ThreadGoes(at, job, w, next) ==
  /\ thread' \in ThreadRecord
  /\ thread'.at = at /\ thread'.job = job /\ thread'.w = w /\ thread'.next = next
ThreadEnds == ThreadGoes("free", NoJob, 0, "free")
ThreadMoves(at) == ThreadGoes(at, thread.job, thread.w, thread.next)

\* The summaries of an action that leaves one of the two alone.
LEMMA Still ==
  ASSUME LeaseInv
  PROVE  /\ UNCHANGED lease => LeaseStays
         /\ thread' = Free => ThreadEnds
         /\ \A at \in Places : thread' = Goes(at) => ThreadMoves(at)
         /\ lease' = Fresh(lease) => LeaseAnew
         /\ \A at \in Places, job \in JobShape, w \in Workers \union {0},
               next \in {"free", "job", "make"} :
              thread' = Doing(at, job, w, next) => ThreadGoes(at, job, w, next)
<1>1. UNCHANGED lease => LeaseStays BY DEF LeaseInv, Records, LeaseStays, LeaseGoes
<1>2. thread' = Free => ThreadEnds BY FreeMade DEF ThreadEnds, ThreadGoes, Free, Doing
<1>3. \A at \in Places : thread' = Goes(at) => ThreadMoves(at)
  BY GoesTo DEF ThreadMoves, ThreadGoes
<1>4. lease' = Fresh(lease) => LeaseAnew BY FreshLease DEF LeaseAnew, LeaseGoes
<1>5. \A at \in Places, job \in JobShape, w \in Workers \union {0},
          next \in {"free", "job", "make"} :
        thread' = Doing(at, job, w, next) => ThreadGoes(at, job, w, next)
  BY DoingMade DEF ThreadGoes
<1> QED BY <1>1, <1>2, <1>3, <1>4, <1>5

\* The timer is set.
LEMMA ArmedLease ==
  ASSUME NEW l \in LeaseRecord
  PROVE  /\ Armed(l) \in LeaseRecord /\ Armed(l).armed /\ Armed(l).backend = l.backend
         /\ Armed(l).active = l.active /\ Armed(l).releasing = l.releasing
         /\ Armed(l).failures = l.failures /\ Armed(l).generation = l.generation
<1>1. PICK d \in Ticks : d = l.deadline BY DEF LeaseRecord
<1>2. Armed(l) = [l EXCEPT !.armed = TRUE, !.timer = d] BY <1>1 DEF Armed
<1> QED BY <1>1, <1>2 DEF LeaseRecord

\* A command renews the lease, and may ask for the clock.
LEMMA TakeCommandDoes ==
  ASSUME LeaseInv, TakeCommand
  PROVE  /\ Head(jobs).kind \in {"ready", "use"} /\ Take(Head(jobs).kind) /\ LeaseStays
         /\ UNCHANGED initialized
         /\ \/ /\ ThreadGoes("on", Head(jobs), lease.backend, "job")
               /\ Ask(lease.backend, TRUE) /\ lease.backend # 0 /\ ~lease.active
            \/ ThreadGoes("job", Head(jobs), 0, "job") /\ UNCHANGED processes
<1>1. /\ Head(jobs).kind \in {"ready", "use"} /\ Take(Head(jobs).kind)
      /\ Activate(Head(jobs)) /\ UNCHANGED initialized
  BY DEF TakeCommand, Take
<1>2. lease \in LeaseRecord /\ Head(jobs) \in JobShape /\ lease.backend \in Workers \union {0}
  BY <1>1, JobTaken, LeaseOf DEF LeaseInv, Records
<1>3. LeaseStays
  BY <1>1, <1>2, Times, Still DEF Activate, LeaseStays, LeaseGoes, LeaseRecord
<1>4. CASE Renewable /\ ~lease.active
  BY <1>1, <1>2, <1>3, <1>4, Still DEF Activate, Renewable, Places
<1>5. CASE ~(Renewable /\ ~lease.active)
  BY <1>1, <1>2, <1>3, <1>5, Still DEF Activate, Places
<1> QED BY <1>4, <1>5

\* The timer's job asks to lower the clock, or waits on, or is void.
LEMMA TakeTimerDoes ==
  ASSUME LeaseInv, TakeTimer
  PROVE  /\ Take("timer") /\ UNCHANGED initialized
         /\ \/ /\ Current(Head(jobs)) /\ ThreadGoes("off", Head(jobs), lease.backend, "free")
               /\ LeaseGoes(lease.backend, lease.active, TRUE, lease.failures, lease.armed,
                            lease.generation)
               /\ Ask(lease.backend, FALSE)
            \/ /\ Current(Head(jobs)) /\ ThreadEnds /\ UNCHANGED processes
               /\ LeaseGoes(lease.backend, lease.active, lease.releasing, lease.failures, TRUE,
                            lease.generation)
            \/ ~Current(Head(jobs)) /\ ThreadEnds /\ LeaseStays /\ UNCHANGED processes
<1>1. Take("timer") /\ TimerExpired(Head(jobs)) /\ UNCHANGED initialized
  BY DEF TakeTimer
<1>2. lease \in LeaseRecord /\ Head(jobs) \in JobShape /\ lease.backend \in Workers \union {0}
  BY <1>1, JobTaken, LeaseOf DEF LeaseInv, Records
<1>3. CASE Current(Head(jobs)) /\ lease.deadline = 0
  BY <1>1, <1>3, <1>2, Still DEF TimerExpired, LeaseGoes, LeaseRecord, Places
<1>4. CASE ~(Current(Head(jobs)) /\ lease.deadline = 0)
  BY <1>1, <1>4, <1>2, ArmedLease, Still DEF TimerExpired, LeaseGoes, Armed
<1> QED BY <1>3, <1>4

\* The other jobs that are taken.
LEMMA TakeOtherDoes ==
  ASSUME LeaseInv,
         TakeRelease \/ TakeEnable \/ TakeReplace \/ TakeReplaceFails \/ TakeErase
  PROVE  /\ \E kind : Take(kind) /\ kind \notin {"timer", "ready", "use"}
         /\ LeaseStays /\ UNCHANGED processes
         /\ initialized' \in BOOLEAN
         /\ \/ ThreadGoes("reset", Head(jobs), 0, "job") /\ UNCHANGED initialized
            \/ ThreadGoes("reset", Head(jobs), 0, "job")
            \/ ThreadGoes("reset", Head(jobs), 0, "make") /\ initialized'
            \/ /\ ThreadGoes("job", Head(jobs), 0, "job")
               /\ UNCHANGED initialized
            \/ ThreadGoes("make", Head(jobs), 0, "job") /\ ~initialized /\ initialized'
            \/ ThreadEnds /\ UNCHANGED initialized
<1>1. PICK kind \in {"release", "enable", "replace", "erase"} : Take(kind)
  BY DEF TakeRelease, TakeEnable, TakeReplace, TakeReplaceFails, TakeErase
<1>2. Head(jobs) \in JobShape /\ 0 \in Workers \union {0} BY <1>1, JobTaken
<1>3. UNCHANGED processes
  BY DEF TakeRelease, TakeEnable, TakeReplace, TakeReplaceFails, TakeErase
<1>4. initialized \in BOOLEAN /\ lease.enabled \in BOOLEAN /\ lease \in LeaseRecord
  BY LeaseOf DEF LeaseInv, Records
<1>5. CASE TakeRelease
  BY <1>5, <1>2, Still, <1>1, <1>3, <1>4 DEF TakeRelease, Places
<1>6. CASE TakeEnable
  <2>1. PICK on \in BOOLEAN : on = Head(jobs).on BY <1>2 DEF JobShape
  <2>2. /\ lease' = [lease EXCEPT !.enabled = on] /\ initialized' = (initialized \/ on)
        /\ thread' = Doing(IF initialized' = initialized THEN "job" ELSE "make", Head(jobs), 0,
                           "job")
    BY <1>6, <2>1 DEF TakeEnable
  <2>3. LeaseStays BY <1>4, <2>1, <2>2 DEF LeaseStays, LeaseGoes, LeaseRecord
  <2>4. CASE initialized' = initialized
    BY <1>2, <2>2, <2>4, Still, <1>1, <1>3, <1>4, <2>3 DEF Places
  <2>5. CASE initialized' # initialized
    BY <1>2, <2>2, <2>5, Still, <1>4, <2>1, <1>1, <1>3, <2>3 DEF Places
  <2> QED BY <2>4, <2>5
<1>7. CASE TakeReplace
  BY <1>7, Still, <1>2, <1>1, <1>3, <1>4 DEF TakeReplace, Places
<1>8. CASE TakeReplaceFails
  BY <1>8, <1>2, Still, <1>1, <1>3, <1>4 DEF TakeReplaceFails, Places
<1>9. CASE TakeErase
  BY <1>9, Still, <1>1, <1>3, <1>4 DEF TakeErase
<1> QED BY <1>5, <1>6, <1>7, <1>8, <1>9

\* The work of a job itself is done.
LEMMA FinishDoes ==
  ASSUME LeaseInv, FinishReady \/ FinishUse \/ FinishUseFails \/ FinishReplace \/ FinishOther
  PROVE  /\ LeaseStays /\ ThreadEnds /\ thread.at = "job" /\ up
         /\ UNCHANGED <<up, boost, jobs, failed, initialized, accepting, calls, lease>>
         /\ clients' \in [Clients -> {"gone", "reading", "waiting"}]
         /\ reload' \in {"no", "waiting", "done"}
BY Still DEF FinishReady, FinishUse, FinishUseFails, FinishReplace, FinishOther,
   HandlerGoesOn, LeaseInv, Records, Working

\* The calls to a process that are answered.
LEMMA ActivatedDoes ==
  ASSUME LeaseInv, Activated \/ NotYet \/ Unavailable
  PROVE  /\ up /\ thread.at = "on" /\ UNCHANGED <<Rest, mutex, jobs>>
         /\ \/ /\ Answer(thread.w, "success") /\ ThreadMoves("job")
               /\ LeaseGoes(lease.backend, TRUE, lease.releasing, lease.failures, TRUE,
                            lease.generation)
            \/ Answer(thread.w, "retry_later") /\ ThreadMoves("job") /\ LeaseStays
            \/ Answer(thread.w, "unavailable") /\ ThreadMoves("reset") /\ LeaseStays
<1>1. up /\ thread.at = "on" /\ UNCHANGED <<Rest, mutex, jobs>>
  BY DEF Activated, NotYet, Unavailable, Answer
<1>2. lease \in LeaseRecord /\ {"job", "reset"} \subseteq Places
  BY DEF LeaseInv, Records, Places
<1>3. CASE Activated
  <2> DEFINE l == [lease EXCEPT !.active = TRUE]
  <2>1. /\ l \in LeaseRecord /\ l.active /\ l.backend = lease.backend
        /\ l.releasing = lease.releasing /\ l.failures = lease.failures
        /\ l.generation = lease.generation
    BY <1>2 DEF LeaseRecord
  <2>2. lease' = Armed(l) /\ thread' = Goes("job") /\ Answer(thread.w, "success")
    BY <1>3 DEF Activated
  <2> HIDE DEF l
  <2>3. LeaseGoes(lease.backend, TRUE, lease.releasing, lease.failures, TRUE, lease.generation)
    BY <2>1, <2>2, ArmedLease, LeaseOf DEF LeaseGoes, LeaseRecord, Armed
  <2> QED BY <1>1, <1>2, <2>2, <2>3, Still
<1>4. CASE NotYet
  BY <1>4, <1>2, Times, <1>1, Still DEF NotYet, LeaseStays, LeaseGoes, LeaseRecord
<1>5. CASE Unavailable
  BY <1>5, <1>1, <1>2, Still DEF Unavailable
<1> QED BY <1>3, <1>4, <1>5

\* The timer's call returns: the lease is free, or another attempt is due, or none.
LEMMA ReleasedDoes ==
  ASSUME LeaseInv, Released \/ NotReleased, lease.failures < Failures
  PROVE  /\ up /\ thread.at = "off" /\ UNCHANGED <<Rest, mutex, jobs>> /\ ThreadEnds
         /\ \/ /\ Answer(thread.w, "success")
               /\ LeaseGoes(lease.backend, FALSE, FALSE, 0, lease.armed, lease.generation)
            \/ /\ \E result \in {"retry_later", "unavailable"} : Answer(thread.w, result)
               /\ \/ /\ lease.failures + 1 < Failures
                     /\ LeaseGoes(lease.backend, lease.active, lease.releasing,
                                  lease.failures + 1, TRUE, lease.generation)
                  \/ LeaseGoes(lease.backend, lease.active, lease.releasing,
                               lease.failures + 1, lease.armed, lease.generation)
<1>1. up /\ thread.at = "off" /\ UNCHANGED <<Rest, mutex, jobs>> /\ thread' = Free
  BY DEF Released, NotReleased, Answer
<1>2. ThreadEnds /\ lease \in LeaseRecord BY <1>1, Still DEF LeaseInv, Records
<1>3. CASE Released
  BY <1>3, <1>2, Times, <1>1 DEF Released, LeaseGoes, LeaseRecord
<1>4. CASE NotReleased
  <2>1. PICK n \in 0..Failures : n = lease.failures + 1 BY LeaseOf, Times
  <2> DEFINE l == [lease EXCEPT !.failures = n]
  <2>2. /\ l \in LeaseRecord /\ l.active = lease.active /\ l.backend = lease.backend
        /\ l.releasing = lease.releasing /\ l.failures = n /\ l.armed = lease.armed
        /\ l.generation = lease.generation
    BY <1>2 DEF LeaseRecord
  <2>3. /\ lease' = Retried(l)
        /\ \E result \in {"retry_later", "unavailable"} : Answer(thread.w, result)
    BY <1>4, <2>1 DEF NotReleased
  <2> HIDE DEF l
  <2>4. CASE n < Failures
    <3> DEFINE m == [l EXCEPT !.deadline = RetryDelay]
    <3>1. /\ m \in LeaseRecord /\ m.active = lease.active /\ m.backend = lease.backend
          /\ m.releasing = lease.releasing /\ m.failures = n /\ m.armed = lease.armed
          /\ m.generation = lease.generation
      BY <2>2, Times DEF LeaseRecord
    <3>2. lease' = Armed(m) BY <2>2, <2>3, <2>4 DEF Retried
    <3> HIDE DEF m
    <3>3. LeaseGoes(lease.backend, lease.active, lease.releasing, n, TRUE, lease.generation)
      BY <3>1, <3>2, ArmedLease DEF LeaseGoes, Armed
    <3> QED BY <1>1, <1>2, <2>1, <2>3, <2>4, <3>3
  <2>5. CASE ~(n < Failures)
    BY <2>2, <2>3, <2>5, <1>1, <1>2, <2>1 DEF Retried, LeaseGoes
  <2> QED BY <2>4, <2>5
<1> QED BY <1>3, <1>4

\* A backend is given up, after it was asked to lower the clock if it is active.
LEMMA ResetDoes ==
  ASSUME LeaseInv, Reset
  PROVE  /\ up /\ thread.at = "reset" /\ LeaseAnew
         /\ UNCHANGED <<Rest, mutex, clock, jobs, failed, calls>>
         /\ \/ /\ lease.backend = 0 /\ UNCHANGED processes
               /\ ThreadGoes(thread.next, thread.job, 0, thread.next)
            \/ /\ lease.backend # 0 /\ lease.active /\ Ask(lease.backend, FALSE)
               /\ ThreadGoes("lowering", thread.job, lease.backend, thread.next)
            \/ /\ lease.backend # 0 /\ ~lease.active /\ UNCHANGED processes
               /\ ThreadGoes("close", thread.job, lease.backend, thread.next)
BY Still, LeaseOf, ThreadOf DEF Reset, LeaseInv, LeaseFits, Records, Places, ThreadGoes,
   ThreadRecord

\* Its client is destroyed: the process is told to end, and is waited for.
LEMMA ClosingDoes ==
  ASSUME LeaseInv, Lowering \/ Close \/ Closed
  PROVE  /\ up /\ LeaseStays /\ UNCHANGED <<Rest, mutex, jobs>>
         /\ \/ /\ thread.at = "lowering" /\ ThreadMoves("close")
               /\ \E result \in {"success", "retry_later", "unavailable"} :
                    Answer(thread.w, result)
            \/ /\ thread.at = "close" /\ ThreadMoves("closing")
               /\ Stopped(thread.w) /\ UNCHANGED <<clock, failed>>
            \/ /\ thread.at = "closing" /\ ThreadMoves(thread.next)
               /\ UNCHANGED <<processes, clock, failed>>
BY ThreadOf, Still DEF Places, Lowering, Close, Closed, boost, Answer, Dismissed

\* The boost is made for the core's GPU.
LEMMA MakeDoes ==
  ASSUME LeaseInv, NoBoost \/ Launch \/ Boosted \/ NotBoosted
  PROVE  /\ up /\ UNCHANGED <<Rest, mutex, jobs>>
         /\ \/ /\ thread.at = "make" /\ LeaseAnew /\ ThreadMoves("job")
               /\ UNCHANGED <<processes, clock, failed>>
            \/ /\ thread.at = "make" /\ LeaseStays /\ UNCHANGED <<clock, failed>>
               /\ \E w \in Workers :
                    /\ processes[w].at = "none" /\ Launched(w)
                    /\ ThreadGoes("launching", thread.job, w, thread.next)
            \/ /\ thread.at = "launching" /\ Answer(thread.w, "success") /\ ThreadMoves("job")
               /\ LeaseGoes(thread.w, FALSE, FALSE, 0, FALSE, lease.generation + 1)
            \/ /\ thread.at = "launching" /\ Answer(thread.w, "unavailable")
               /\ ThreadMoves("job") /\ LeaseAnew
<1>1. {"job", "launching"} \subseteq Places BY DEF Places
<1>2. UNCHANGED <<Rest, mutex, jobs>> /\ up
  BY DEF NoBoost, Launch, Boosted, NotBoosted, boost, Answer
<1>3. CASE NoBoost BY <1>1, <1>2, <1>3, Still DEF NoBoost, boost
<1>4. CASE Launch
  <2>1. PICK w \in NotLaunched : Launched(w) /\ thread' = [thread EXCEPT !.at = "launching", !.w = w]
    BY <1>4 DEF Launch
  <2>2. thread.at = "make" /\ UNCHANGED <<lease, clock, failed>> BY <1>4 DEF Launch
  <2>3. w \in Workers /\ processes[w].at = "none" BY <2>1 DEF NotLaunched
  <2>4. ThreadGoes("launching", thread.job, w, thread.next)
    BY <1>1, <2>1, <2>3 DEF ThreadGoes, ThreadRecord, LeaseInv, Records
  <2> QED BY <1>2, <2>1, <2>2, <2>3, <2>4, Still
<1>5. CASE Boosted
  <2> DEFINE l == Fresh(lease)
  <2>1. /\ l \in LeaseRecord /\ ~l.active /\ ~l.releasing /\ l.failures = 0 /\ ~l.armed
        /\ l.generation = lease.generation + 1
    BY FreshLease
  <2>2. /\ lease' = [l EXCEPT !.backend = thread.w] /\ thread' = Goes("job")
        /\ thread.at = "launching" /\ Answer(thread.w, "success")
    BY <1>5 DEF Boosted
  <2> HIDE DEF l
  <2>3. LeaseGoes(thread.w, FALSE, FALSE, 0, FALSE, lease.generation + 1)
    BY <2>1, <2>2, ThreadOf DEF LeaseGoes, LeaseRecord
  <2> QED BY <1>1, <1>2, <2>2, <2>3, Still
<1>6. CASE NotBoosted BY <1>1, <1>2, <1>6, Still DEF NotBoosted
<1> QED BY <1>3, <1>4, <1>5, <1>6

-----------------------------------------------------------------------------

\* What is left to show of a step of the inference thread.
LEMMA LeaseKeeps ==
  ASSUME LeaseInv, lease' \in LeaseRecord, thread' \in ThreadRecord, jobs' \in Seq(JobShape),
         UNCHANGED <<up, accepting, mutex>>, initialized' \in BOOLEAN,
         clients' \in [Clients -> {"gone", "reading", "waiting"}],
         reload' \in {"no", "waiting", "done"}, LeaseFits', CallsFit'
  PROVE  LeaseInv'
  BY DEF LeaseInv, Records

\* Every step of the inference thread keeps the shape; what is needed of the
\* timer is that it does not fire once the attempts are used up.
LEMMA InferenceLease ==
  ASSUME LeaseInv, Inference, thread.at = "off" => lease.failures < Failures,
         TakeTimer /\ Current(Head(jobs)) => lease.active
  PROVE  LeaseInv'
<1>0. /\ LeaseFits /\ CallsFit /\ initialized \in BOOLEAN /\ jobs \in Seq(JobShape)
      /\ clients \in [Clients -> {"gone", "reading", "waiting"}]
      /\ reload \in {"no", "waiting", "done"}
  BY DEF LeaseInv, Records
<1>1. CASE TakeCommand
  BY <1>1, TakeCommandDoes, JobTaken, <1>0, LeaseKeeps DEF LeaseFits, CallsFit, LeaseStays,
     LeaseGoes, ThreadGoes
<1>2. CASE TakeTimer
  BY <1>2, TakeTimerDoes, JobTaken, <1>0, LeaseKeeps DEF LeaseFits, CallsFit, LeaseStays,
     LeaseGoes, ThreadGoes, ThreadEnds
<1>3. CASE TakeRelease \/ TakeEnable \/ TakeReplace \/ TakeReplaceFails \/ TakeErase
  BY <1>3, TakeOtherDoes, JobTaken, <1>0, LeaseKeeps DEF LeaseFits, CallsFit, LeaseStays,
     LeaseGoes, ThreadGoes, ThreadEnds
<1>4. CASE FinishReady \/ FinishUse \/ FinishUseFails \/ FinishReplace \/ FinishOther
  BY <1>4, FinishDoes, <1>0, LeaseKeeps DEF boost, LeaseFits, CallsFit, LeaseStays,
     LeaseGoes, ThreadGoes, ThreadEnds
<1>5. CASE Activated \/ NotYet \/ Unavailable
  BY <1>5, ActivatedDoes, <1>0, LeaseKeeps DEF Rest, LeaseFits, CallsFit, LeaseStays,
     LeaseGoes, ThreadGoes, ThreadMoves
<1>6. CASE Released \/ NotReleased
  <2>0. thread.at = "off" BY <1>6 DEF Released, NotReleased
  <2>1. /\ UNCHANGED <<up, mutex, clients, reload, accepting, initialized, jobs>> /\ ThreadEnds
        /\ \/ LeaseGoes(lease.backend, FALSE, FALSE, 0, lease.armed, lease.generation)
           \/ \E armed : LeaseGoes(lease.backend, lease.active, lease.releasing,
                                   lease.failures + 1, armed, lease.generation)
    BY <1>6, <2>0, ReleasedDoes DEF Rest
  <2>2. LeaseFits' /\ CallsFit'
    BY <1>0, <2>0, <2>1 DEF LeaseFits, CallsFit, LeaseGoes, ThreadGoes, ThreadEnds
  <2> QED BY <1>0, <2>1, <2>2, LeaseKeeps DEF LeaseGoes, ThreadGoes, ThreadEnds
<1>7. CASE Reset
  <2>1. /\ UNCHANGED <<up, mutex, clients, reload, accepting, initialized, jobs>> /\ LeaseAnew
        /\ thread.at = "reset"
        /\ \/ ThreadGoes(thread.next, thread.job, 0, thread.next)
           \/ /\ lease.backend # 0
              /\ ThreadGoes("lowering", thread.job, lease.backend, thread.next)
           \/ /\ lease.backend # 0
              /\ ThreadGoes("close", thread.job, lease.backend, thread.next)
    BY <1>7, ResetDoes DEF Rest
  <2>2. thread.next \in {"job", "make"} BY <1>0, <2>1, ThreadOf DEF CallsFit
  <2>3. LeaseFits' /\ CallsFit'
    BY <1>0, <2>1, <2>2 DEF LeaseFits, CallsFit, LeaseAnew, LeaseGoes, ThreadGoes
  <2> QED BY <1>0, <2>1, <2>3, LeaseKeeps DEF LeaseAnew, LeaseGoes, ThreadGoes
<1>8. CASE Lowering \/ Close \/ Closed
  <2>1. /\ UNCHANGED <<up, mutex, clients, reload, accepting, initialized, jobs>> /\ LeaseStays
        /\ \/ thread.at = "lowering" /\ ThreadMoves("close")
           \/ thread.at = "close" /\ ThreadMoves("closing")
           \/ thread.at = "closing" /\ ThreadMoves(thread.next)
    BY <1>8, ClosingDoes DEF Rest
  <2>2. thread.next \in {"job", "make"} BY <1>0, <2>1, ThreadOf DEF CallsFit
  <2>3. LeaseFits' /\ CallsFit'
    BY <1>0, <2>1, <2>2 DEF LeaseFits, CallsFit, LeaseStays, LeaseGoes, ThreadGoes, ThreadMoves
  <2> QED BY <1>0, <2>1, <2>3, LeaseKeeps DEF LeaseStays, LeaseGoes, ThreadGoes, ThreadMoves
<1>9. CASE NoBoost \/ Launch \/ Boosted \/ NotBoosted
  <2>1. /\ UNCHANGED <<up, mutex, clients, reload, accepting, initialized, jobs>>
        /\ \/ thread.at = "make" /\ LeaseAnew /\ ThreadMoves("job")
           \/ /\ thread.at = "make" /\ LeaseStays
              /\ \E w \in Workers : ThreadGoes("launching", thread.job, w, thread.next)
           \/ /\ thread.at = "launching" /\ ThreadMoves("job")
              /\ LeaseGoes(thread.w, FALSE, FALSE, 0, FALSE, lease.generation + 1)
           \/ thread.at = "launching" /\ ThreadMoves("job") /\ LeaseAnew
    BY <1>9, MakeDoes DEF Rest
  <2>2. \A w \in Workers : w # 0 BY WorkersAssumption
  <2>3. LeaseFits' /\ CallsFit'
    BY <1>0, <2>1, <2>2
       DEF LeaseFits, CallsFit, LeaseStays, LeaseAnew, LeaseGoes, ThreadGoes, ThreadMoves
  <2> QED
    BY <1>0, <2>1, <2>3, LeaseKeeps DEF LeaseStays, LeaseAnew, LeaseGoes, ThreadGoes, ThreadMoves
<1> QED BY <1>1, <1>2, <1>3, <1>4, <1>5, <1>6, <1>7, <1>8, <1>9 DEF Inference

-----------------------------------------------------------------------------
\* The timer: armed, or its job queued, or its job waiting for the process.
IsCurrent(i) == jobs[i].kind = "timer" /\ Current(jobs[i])
NoneCurrent  == \A i \in 1..Len(jobs) : ~IsCurrent(i)
NoneAhead    ==
  \A i \in 1..Len(jobs) : jobs[i].kind = "timer" => jobs[i].generation <= lease.generation
OneCurrent   == \A i, k \in 1..Len(jobs) : IsCurrent(i) /\ IsCurrent(k) => i = k
TimerOnce ==
  /\ NoneAhead /\ OneCurrent
  /\ lease.armed \/ thread.at = "off" => NoneCurrent
  /\ lease.armed => thread.at # "off"
  /\ lease.armed \/ thread.at = "off" \/ ~NoneCurrent =>
       lease.active /\ lease.failures < Failures

\* The timer jobs left are those there were.
LEMMA TimersCarried ==
  ASSUME TimerOnce, NEW d \in {0, 1}, jobs \in Seq(JobShape), jobs' \in Seq(JobShape),
         lease'.generation = lease.generation,
         \A i \in 1..Len(jobs') :
           jobs'[i].kind = "timer" => i + d \in 1..Len(jobs) /\ jobs'[i] = jobs[i + d]
  PROVE  NoneAhead' /\ OneCurrent' /\ (NoneCurrent => NoneCurrent')
<1>1. Len(jobs) \in Nat /\ Len(jobs') \in Nat OBVIOUS
<1>2. ASSUME NEW i \in 1..Len(jobs'), IsCurrent(i)'
      PROVE  i + d \in 1..Len(jobs) /\ IsCurrent(i + d)
  BY <1>2 DEF IsCurrent, Current
<1>3. NoneAhead'
  <2> SUFFICES ASSUME NEW i \in 1..Len(jobs'), jobs'[i].kind = "timer"
               PROVE  jobs'[i].generation <= lease'.generation
    BY DEF NoneAhead
  <2>1. i + d \in 1..Len(jobs) /\ jobs'[i] = jobs[i + d] OBVIOUS
  <2> QED BY <2>1 DEF TimerOnce, NoneAhead
<1>4. OneCurrent'
  <2> SUFFICES ASSUME NEW i \in 1..Len(jobs'), NEW k \in 1..Len(jobs'),
                      IsCurrent(i)', IsCurrent(k)'
               PROVE  i = k
    BY DEF OneCurrent
  <2>1. i + d = k + d BY <1>2 DEF TimerOnce, OneCurrent
  <2> QED BY <1>1, <2>1
<1>5. NoneCurrent => NoneCurrent' BY <1>2 DEF NoneCurrent
<1> QED BY <1>3, <1>4, <1>5

\* The same jobs, or one more or one less.
LEMMA JobsCarried ==
  ASSUME TimerOnce, LeaseInv, lease'.generation = lease.generation,
         \/ UNCHANGED jobs
         \/ \E job \in JobShape : job.kind # "timer" /\ Post(job)
         \/ \E kind : Take(kind)
  PROVE  NoneAhead' /\ OneCurrent' /\ (NoneCurrent => NoneCurrent')
<1>0. jobs \in Seq(JobShape) BY DEF LeaseInv, Records
<1>1. CASE UNCHANGED jobs
  BY <1>0, <1>1, TimersCarried
<1>2. CASE \E job \in JobShape : job.kind # "timer" /\ Post(job)
  <2>1. PICK job \in JobShape : job.kind # "timer" /\ Post(job) BY <1>2
  <2>2. /\ jobs' \in Seq(JobShape) /\ Len(jobs) \in Nat /\ Len(jobs') = Len(jobs) + 1
        /\ jobs'[Len(jobs) + 1] = job /\ \A i \in 1..Len(jobs) : jobs'[i] = jobs[i]
    BY <2>1, JobPosted
  <2>3. \A i \in 1..Len(jobs') :
          jobs'[i].kind = "timer" => i + 0 \in 1..Len(jobs) /\ jobs'[i] = jobs[i + 0]
    BY <2>1, <2>2
  <2> QED BY <1>0, <2>2, <2>3, TimersCarried
<1>3. CASE \E kind : Take(kind)
  <2>1. PICK kind : Take(kind) BY <1>3
  <2>2. /\ jobs' \in Seq(JobShape) /\ Len(jobs) \in Nat /\ Len(jobs') = Len(jobs) - 1
        /\ Len(jobs) > 0 /\ \A i \in 1..Len(jobs') : jobs'[i] = jobs[i + 1]
    BY <2>1, JobTaken
  <2>3. \A i \in 1..Len(jobs') : i + 1 \in 1..Len(jobs) /\ jobs'[i] = jobs[i + 1]
    BY <2>2
  <2> QED BY <1>0, <2>2, <2>3, TimersCarried
<1> QED BY <1>1, <1>2, <1>3

\* A new generation: what is queued is void.
LEMMA TimersVoid ==
  ASSUME TimerOnce, LeaseInv, UNCHANGED jobs, lease'.generation = lease.generation + 1,
         ~lease'.armed, thread'.at # "off"
  PROVE  TimerOnce'
<1>1. \A i \in 1..Len(jobs) : jobs[i].kind = "timer" =>
        jobs[i].generation < lease'.generation /\ jobs[i].generation <= lease'.generation
  <2> TAKE i \in 1..Len(jobs)
  <2>1. jobs[i] \in JobShape BY DEF LeaseInv, Records
  <2> QED BY <2>1, LeaseOf DEF TimerOnce, NoneAhead, JobShape
<1>2. \A i \in 1..Len(jobs') : ~IsCurrent(i)'
  <2> TAKE i \in 1..Len(jobs')
  <2>1. jobs[i] \in JobShape BY DEF LeaseInv, Records
  <2> QED BY <1>1, <2>1, LeaseOf DEF IsCurrent, Current, JobShape
<1>3. NoneAhead' BY <1>1 DEF NoneAhead
<1> QED BY <1>2, <1>3 DEF TimerOnce, OneCurrent, NoneCurrent

\* The timer's job is taken: no other is current.
LEMMA TimerTaken ==
  ASSUME TimerOnce, LeaseInv, Take("timer"), Current(Head(jobs)),
         lease'.generation = lease.generation
  PROVE  NoneCurrent' /\ ~NoneCurrent
<1>1. /\ jobs' \in Seq(JobShape) /\ Len(jobs) \in Nat /\ Len(jobs') = Len(jobs) - 1
      /\ Len(jobs) > 0 /\ \A i \in 1..Len(jobs') : jobs'[i] = jobs[i + 1]
      /\ Head(jobs) = jobs[1] /\ Head(jobs).kind = "timer"
  BY JobTaken
<1>2. 1 \in 1..Len(jobs) /\ IsCurrent(1) BY <1>1 DEF IsCurrent
<1>3. ASSUME NEW i \in 1..Len(jobs'), IsCurrent(i)' PROVE FALSE
  BY <1>1, <1>3, <1>2 DEF IsCurrent, Current, TimerOnce, OneCurrent
<1> QED BY <1>2, <1>3 DEF NoneCurrent

\* Only Expire posts a job of the timer, and it takes the alarm for it.
LEMMA OthersTimer ==
  ASSUME TimerOnce, LeaseInv,
         Environment \/ ReloadReturns \/ Exit \/ Tick \/ Expire
  PROVE  TimerOnce'
<1>1. CASE Environment \/ ReloadReturns \/ Exit
  <2>1. UNCHANGED <<lease, thread>>
    BY <1>1 DEF Environment, Ready, Use, Request, Disconnect, Enable, Reload, Stop, Kill,
                ReloadReturns, Exit, service
  <2>2. \/ UNCHANGED jobs
        \/ \E kind \in {"ready", "use", "erase", "enable", "replace", "release"},
              c \in Clients \union {0}, on \in BOOLEAN : Post(Job(kind, c, on, 0))
    BY <1>1 DEF Environment, Ready, Use, Request, Disconnect, Leaves, Enable, Reload, Stop, Kill,
                ReloadReturns, Exit, service
  <2>3. UNCHANGED jobs \/ \E job \in JobShape : job.kind # "timer" /\ Post(job)
    BY JobMade, <2>2 DEF Job, JobKinds
  <2>4. NoneAhead' /\ OneCurrent' /\ (NoneCurrent => NoneCurrent') BY <2>1, <2>3, JobsCarried
  <2> QED BY <2>1, <2>4 DEF TimerOnce
<1>2. CASE Tick \/ Expire
  <2>1. UNCHANGED thread BY <1>2 DEF Tick, Expire
  <2>2. /\ lease'.active = lease.active /\ lease'.failures = lease.failures
        /\ lease'.generation = lease.generation
    BY <1>2, TimeLease
  <2>3. CASE lease'.armed = lease.armed /\ UNCHANGED jobs
    BY <2>2, <2>3, JobsCarried, <2>1 DEF TimerOnce
  <2>4. CASE lease.armed /\ ~lease'.armed /\ Post(Job("timer", 0, FALSE, lease.generation))
    <3>1. Job("timer", 0, FALSE, lease.generation) \in JobShape
      BY LeaseOf, JobMade DEF JobKinds
    <3>2. /\ Len(jobs) \in Nat /\ Len(jobs') = Len(jobs) + 1
          /\ jobs'[Len(jobs) + 1] = Job("timer", 0, FALSE, lease.generation)
          /\ \A i \in 1..Len(jobs) : jobs'[i] = jobs[i]
      BY <2>4, <3>1, JobPosted
    <3>3. NoneCurrent /\ lease.active /\ lease.failures < Failures /\ thread.at # "off"
      BY <2>4 DEF TimerOnce
    <3>4. ASSUME NEW i \in 1..Len(jobs'), IsCurrent(i)' PROVE i = Len(jobs) + 1
      BY <2>2, <3>2, <3>4, <3>3 DEF IsCurrent, Current, NoneCurrent
    <3>5. NoneAhead'
      <4> SUFFICES ASSUME NEW i \in 1..Len(jobs'), jobs'[i].kind = "timer"
                   PROVE  jobs'[i].generation <= lease.generation
        BY <2>2 DEF NoneAhead
      <4>1. CASE i \in 1..Len(jobs) BY <3>2, <4>1 DEF TimerOnce, NoneAhead
      <4>2. CASE i = Len(jobs) + 1 BY <3>2, <4>2, LeaseOf DEF Job
      <4> QED BY <3>2, <4>1, <4>2
    <3>6. OneCurrent' BY <3>4 DEF OneCurrent
    <3> QED BY <2>1, <2>2, <2>4, <3>3, <3>5, <3>6 DEF TimerOnce
  <2> QED BY <1>2, <2>3, <2>4, TimeLease
<1> QED BY <1>1, <1>2

\* Every step of the inference thread keeps the timer's job the only one.
LEMMA InferenceTimer ==
  ASSUME TimerOnce, LeaseInv, Inference
  PROVE  TimerOnce'
<1>0. /\ lease.failures \in 0..Failures /\ Failures \in Nat /\ Failures # 0
      /\ lease.active \in BOOLEAN /\ lease.armed \in BOOLEAN /\ lease.releasing \in BOOLEAN
  BY LeaseOf, Times
<1>1. CASE TakeCommand \/ TakeRelease \/ TakeEnable \/ TakeReplace \/ TakeReplaceFails \/ TakeErase
  BY <1>1, TakeCommandDoes, TakeOtherDoes, JobsCarried DEF ThreadGoes, ThreadEnds,
     LeaseStays, LeaseGoes, TimerOnce
<1>2. CASE TakeTimer
  BY <1>2, TakeTimerDoes, JobsCarried, TimerTaken, <1>0 DEF ThreadGoes, ThreadEnds,
     LeaseStays, LeaseGoes, TimerOnce
<1>3. CASE \/ FinishReady \/ FinishUse \/ FinishUseFails \/ FinishReplace \/ FinishOther
           \/ Lowering \/ Close \/ Closed \/ Launch
  <2>1. UNCHANGED jobs /\ LeaseStays /\ thread'.at # "off"
    BY FinishDoes, ClosingDoes, ThreadOf, MakeDoes, Still, <1>3 DEF ThreadGoes, ThreadEnds,
       ThreadMoves, Launch
  <2>2. NoneAhead' /\ OneCurrent' /\ (NoneCurrent => NoneCurrent')
    BY <2>1, JobsCarried DEF LeaseStays, LeaseGoes
  <2> QED BY <2>1, <2>2 DEF TimerOnce, LeaseStays, LeaseGoes
<1>4. CASE Activated \/ NotYet \/ Unavailable
  <2>1. /\ UNCHANGED jobs /\ thread.at = "on" /\ thread'.at # "off"
        /\ \/ LeaseGoes(lease.backend, TRUE, lease.releasing, lease.failures, TRUE,
                        lease.generation)
           \/ LeaseStays
    BY <1>4, ActivatedDoes DEF ThreadGoes, ThreadMoves
  <2>2. NoneAhead' /\ OneCurrent' /\ (NoneCurrent => NoneCurrent')
    BY <2>1, JobsCarried DEF LeaseStays, LeaseGoes
  <2>3. ~lease.active /\ lease.failures < Failures
    BY <1>0, <2>1 DEF LeaseInv, LeaseFits, CallsFit
  <2>4. NoneCurrent BY <2>3 DEF TimerOnce
  <2> QED BY <2>1, <2>2, <2>3, <2>4 DEF TimerOnce, LeaseStays, LeaseGoes
<1>5. CASE Released \/ NotReleased
  BY <1>5, ReleasedDoes, JobsCarried DEF Released, NotReleased, TimerOnce, ThreadGoes,
     ThreadEnds, LeaseGoes
<1>6. CASE Reset
  BY <1>6, ResetDoes, ThreadOf, TimersVoid DEF ThreadGoes, LeaseAnew, LeaseGoes
<1>7. CASE NoBoost \/ Boosted \/ NotBoosted
  BY <1>7, MakeDoes, GoesTo, Still, TimersVoid DEF NoBoost, Boosted, NotBoosted, Places,
     LeaseAnew, LeaseGoes
<1> QED BY <1>1, <1>2, <1>3, <1>4, <1>5, <1>6, <1>7 DEF Inference

-----------------------------------------------------------------------------
\* A process that was not told to end and is asked nothing.
Settled(p) == p.at = "waiting" /\ ~p.request /\ p.reply = "none"

\* One that is asked to raise the clock, up to its answer.
Raises(p) ==
  \/ p.at = "waiting" /\ p.request /\ p.enabled /\ p.reply = "none"
  \/ p.at = "raising" /\ ~p.request /\ p.reply = "none"
  \/ /\ p.at = "undoing" /\ ~p.request /\ p.reply = "none"
     /\ p.result \in {"retry_later", "unavailable"}
  \/ p.at = "waiting" /\ ~p.request /\ p.reply = "success"
  \/ p.at = "waiting" /\ ~p.request /\ p.reply \in {"retry_later", "unavailable"} /\ ~p.pending
  \/ p.at \in {"restoring", "ended"} /\ p.reply = "unavailable"

\* One that is asked to lower it.
Lowers(p) ==
  \/ p.at = "waiting" /\ p.request /\ ~p.enabled /\ p.reply = "none"
  \/ p.at = "lowering" /\ ~p.request /\ p.reply = "none"
  \/ p.at = "waiting" /\ ~p.request /\ p.reply = "success" /\ ~p.pending
  \/ p.at = "waiting" /\ ~p.request /\ p.reply = "retry_later"

\* One that is being launched.
Starts(p) ==
  \/ p.at = "starting" /\ ~p.request /\ p.reply = "none"
  \/ p.at = "waiting" /\ ~p.request /\ p.reply = "success" /\ ~p.pending
  \/ p.at = "ended" /\ p.reply = "unavailable"

\* The one process the service still has to do with, 0 for none.
Bound == IF thread.at \in {"launching", "lowering", "close"} THEN thread.w ELSE lease.backend

Phase(p) ==
  \/ thread.at \in {"free", "job"} /\ Settled(p) /\ (p.pending => lease.active)
  \/ thread.at = "on" /\ Raises(p)
  \/ thread.at = "off" /\ Lowers(p)
  \/ thread.at = "launching" /\ Starts(p)
  \/ thread.at \in {"reset", "lowering", "close"}

Stands(p) == p.at # "none" /\ (p.stop \/ Phase(p))
Apart(p)  == p.at = "none" \/ p.stop

Known ==
  /\ up => \A w \in Workers : IF w = Bound THEN Stands(processes[w]) ELSE Apart(processes[w])
  /\ \A w \in failed : w \in Workers /\ processes[w].at # "none" /\ processes[w].stop

\* What a process does by itself, p becoming q, while the service runs.
OnItsOwn(p, q) ==
  /\ p.at # "none" /\ q.at # "none" /\ q.stop = p.stop
  /\ up /\ ~p.stop =>
       /\ ~Settled(p)
       /\ Raises(p) => Raises(q)
       /\ Lowers(p) => Lowers(q)
       /\ Starts(p) => Starts(q)

\* A process that works goes on by itself as OnItsOwn says.
LEMMA WorkDoes ==
  ASSUME IInv, NEW w \in Workers, Work(w)
  PROVE  \E q : Becomes(w, q) /\ OnItsOwn(processes[w], q)
<1> DEFINE p == processes[w]
<1>0. p \in Process /\ Dutiful(p) BY DEF IInv, Typed, Duties
<1> USE DEF OnItsOwn, Settled, Raises, Lowers, Starts
<1>1. CASE Begin(w)
  <2> DEFINE q == [p EXCEPT !.at = "waiting", !.reply = "success"]
  <2>1. Becomes(w, q) /\ p.at = "starting" /\ ~p.pending
    BY <1>0, <1>1 DEF Begin, Dutiful
  <2>2. OnItsOwn(p, q) BY <1>0, <2>1 DEF Process
  <2> QED BY <2>1, <2>2
<1>2. CASE Decline(w)
  <2> DEFINE q == [p EXCEPT !.at = "ended", !.reply = "unavailable"]
  <2>1. Becomes(w, q) /\ p.at = "starting" BY <1>2 DEF Decline
  <2>2. OnItsOwn(p, q) BY <1>0, <2>1 DEF Process
  <2> QED BY <2>1, <2>2
<1>3. CASE Leave(w)
  <2> DEFINE q == [p EXCEPT !.at = "restoring"]
  <2>1. Becomes(w, q) /\ p.at = "waiting" /\ (up => p.stop) BY <1>3 DEF Leave, Signalled
  <2>2. OnItsOwn(p, q) BY <1>0, <2>1 DEF Process
  <2> QED BY <2>1, <2>2
<1>4. CASE Receive(w)
  <2> DEFINE q == [p EXCEPT !.request = FALSE, !.pending = Owe(p),
                     !.at = IF p.enabled THEN "raising" ELSE "lowering"]
  <2>1. Becomes(w, q) /\ p.at = "waiting" /\ p.request BY <1>4 DEF Receive
  <2>2. OnItsOwn(p, q) BY <1>0, <2>1 DEF Process
  <2> QED BY <2>1, <2>2
<1>5. CASE Peak(w)
  <2> DEFINE q == Answered(p, "success")
  <2>1. Becomes(w, q) /\ p.at = "raising" BY <1>5 DEF Peak
  <2>2. OnItsOwn(p, q) BY <1>0, <2>1 DEF Process, Answered
  <2> QED BY <2>1, <2>2
<1>6. CASE PeakFails(w)
  <2>1. PICK result \in {"retry_later", "unavailable"} :
          Becomes(w, [p EXCEPT !.at = "undoing", !.result = result])
    BY <1>6 DEF PeakFails
  <2> DEFINE q == [p EXCEPT !.at = "undoing", !.result = result]
  <2>2. p.at = "raising" BY <1>6 DEF PeakFails
  <2>3. OnItsOwn(p, q) BY <1>0, <2>2 DEF Process
  <2> QED BY <2>1, <2>3
<1>7. CASE Undo(w)
  <2> DEFINE q == Answered([p EXCEPT !.pending = FALSE, !.result = "none"], p.result)
  <2>1. Becomes(w, q) /\ p.at = "undoing" BY <1>7 DEF Undo
  <2>2. OnItsOwn(p, q) BY <1>0, <2>1 DEF Process, Answered
  <2> QED BY <2>1, <2>2
<1>8. CASE UndoFails(w)
  <2> DEFINE q == [p EXCEPT !.at = "restoring", !.result = "none", !.reply = "unavailable"]
  <2>1. Becomes(w, q) /\ p.at = "undoing" BY <1>8 DEF UndoFails
  <2>2. OnItsOwn(p, q) BY <1>0, <2>1 DEF Process
  <2> QED BY <2>1, <2>2
<1>9. CASE Lower(w)
  <2> DEFINE q == Answered([p EXCEPT !.pending = FALSE], "success")
  <2>1. Becomes(w, q) /\ p.at = "lowering" BY <1>9 DEF Lower
  <2>2. OnItsOwn(p, q) BY <1>0, <2>1 DEF Process, Answered
  <2> QED BY <2>1, <2>2
<1>10. CASE LowerFails(w)
  <2> DEFINE q == Answered(p, "retry_later")
  <2>1. Becomes(w, q) /\ p.at = "lowering" BY <1>10 DEF LowerFails
  <2>2. OnItsOwn(p, q) BY <1>0, <2>1 DEF Process, Answered
  <2> QED BY <2>1, <2>2
<1>11. CASE Restore(w)
  <2> DEFINE q == [p EXCEPT !.pending = FALSE]
  <2>1. Becomes(w, q) /\ p.at = "restoring" BY <1>11 DEF Restore
  <2>2. OnItsOwn(p, q) BY <1>0, <2>1 DEF Process
  <2> QED BY <2>1, <2>2
<1>12. CASE RestoreFails(w)
  <2> DEFINE q == [p EXCEPT !.left = @ - 1]
  <2>1. Becomes(w, q) /\ p.at = "restoring" BY <1>12 DEF RestoreFails
  <2>2. OnItsOwn(p, q) BY <1>0, <2>1 DEF Process
  <2> QED BY <2>1, <2>2
<1>13. CASE End(w)
  <2> DEFINE q == [p EXCEPT !.at = "ended"]
  <2>1. Becomes(w, q) /\ p.at = "restoring" BY <1>13 DEF End
  <2>2. OnItsOwn(p, q) BY <1>0, <2>1 DEF Process
  <2> QED BY <2>1, <2>2
<1> QED
  BY <1>1, <1>2, <1>3, <1>4, <1>5, <1>6, <1>7, <1>8, <1>9, <1>10, <1>11, <1>12, <1>13 DEF Work

\* What the processes are.
LEMMA ProcessesTyped == ASSUME IInv PROVE processes \in [Workers -> Process]
  BY DEF IInv, Typed

\* A process that works stands where the service believes it.
LEMMA WorkKnown ==
  ASSUME IInv, Known, NEW w \in Workers, Work(w), UNCHANGED service
  PROVE  Known'
<1>1. UNCHANGED <<up, thread, lease, failed>>
  BY DEF service, Work, Begin, Decline, Leave, Receive, Peak, PeakFails, Undo, UndoFails,
         Lower, LowerFails, Restore, RestoreFails, End
<1>2. processes[w].at # "none" /\ \E q : Becomes(w, q) /\ q.at # "none" /\ q.stop = processes[w].stop
  BY WorkDoes DEF OnItsOwn
<1>3. \A v \in failed' : v \in Workers /\ processes'[v].at # "none" /\ processes'[v].stop
  BY <1>1, <1>2, ProcessesTyped DEF Known, Becomes
<1>4. ASSUME up'
      PROVE  \A v \in Workers :
               IF v = Bound' THEN Stands(processes[v])' ELSE Apart(processes[v])'
  <2>1. PICK q : Becomes(w, q) /\ OnItsOwn(processes[w], q) BY WorkDoes
  <2>2. Bound' = Bound BY <1>1 DEF Bound
  <2>3. \A v \in Workers : processes'[v] = IF v = w THEN q ELSE processes[v]
    BY <2>1, ProcessesTyped DEF Becomes
  <2>4. ASSUME NEW v \in Workers, v # w
        PROVE  IF v = Bound' THEN Stands(processes[v])' ELSE Apart(processes[v])'
    BY <1>1, <1>4, <2>2, <2>3, <2>4 DEF Known, Stands, Apart, Phase
  <2>5. IF w = Bound' THEN Stands(processes[w])' ELSE Apart(processes[w])'
    BY <2>3, <1>1, <1>4, <2>1, <2>2 DEF Known, Stands, Phase, OnItsOwn, Apart
  <2> QED BY <2>4, <2>5
<1> QED BY <1>3, <1>4 DEF Known

\* What is done with the one process: it still stands, or was told to end.
LEMMA BoundStep ==
  ASSUME Known, IInv, up, UNCHANGED up, NEW b, b = Bound, Bound' \in {b, 0},
         processes' \in [Workers -> Process],
         \A v \in Workers : v # b => processes'[v] = processes[v],
         b \in Workers =>
           /\ processes[b].at # "none" => processes'[b].at # "none"
           /\ processes[b].stop => processes'[b].stop
           /\ ~processes[b].stop /\ Phase(processes[b]) =>
                processes'[b].stop \/ (Bound' = b /\ Phase(processes[b])'),
         \/ UNCHANGED failed
         \/ failed' = failed \union {b} /\ b \in Workers /\ processes'[b].stop
  PROVE  Known'
BY WorkersAssumption DEF Known, Apart, Stands

\* A process is asked: it is raising or lowering from now on, or told to end.
LEMMA AskDoes ==
  ASSUME IInv, NEW w \in Workers, NEW on \in BOOLEAN, Ask(w, on)
  PROVE  /\ \A v \in Workers : v # w => processes'[v] = processes[v]
         /\ \/ w \in failed /\ processes'[w] = processes[w]
            \/ /\ processes'[w].at = processes[w].at /\ processes'[w].stop = processes[w].stop
               /\ processes'[w].reply = processes[w].reply /\ processes'[w].request
               /\ processes'[w].enabled = on
<1>1. processes \in [Workers -> Process] BY ProcessesTyped
<1>2. CASE w \in failed BY <1>1, <1>2 DEF Ask
<1>3. CASE w \notin failed
  <2> DEFINE q == [processes[w] EXCEPT !.enabled = on, !.request = TRUE]
  <2>1. processes' = [processes EXCEPT ![w] = q] BY <1>3 DEF Ask, Asked, Becomes
  <2>2. /\ q.at = processes[w].at /\ q.stop = processes[w].stop
        /\ q.reply = processes[w].reply /\ q.request /\ q.enabled = on
    BY <1>1 DEF Process
  <2> HIDE DEF q
  <2> QED BY <1>1, <2>1, <2>2
<1> QED BY <1>2, <1>3

\* A reply is taken, or none comes and the process is told to end.
LEMMA AnswerDoes ==
  ASSUME IInv, NEW w \in Workers, NEW result, Answer(w, result)
  PROVE  /\ \A v \in Workers : v # w => processes'[v] = processes[v]
         /\ processes'[w].at = processes[w].at /\ processes'[w].pending = processes[w].pending
         /\ processes'[w].request = processes[w].request
         /\ \/ /\ w \notin failed /\ processes[w].at # "ended" /\ processes[w].reply = result
               /\ processes'[w].stop = processes[w].stop /\ processes'[w].reply = "none"
               /\ UNCHANGED failed
            \/ result = "unavailable" /\ failed' = failed \union {w} /\ processes'[w].stop
<1>1. processes \in [Workers -> Process] BY ProcessesTyped
<1>2. CASE w \notin failed /\ processes[w].at # "ended" /\ processes[w].reply = result
           /\ ReplyTaken(w) /\ UNCHANGED failed
  <2> DEFINE q == [processes[w] EXCEPT !.reply = "none"]
  <2>1. processes' = [processes EXCEPT ![w] = q] BY <1>2 DEF ReplyTaken, Becomes
  <2>2. /\ q.at = processes[w].at /\ q.stop = processes[w].stop
        /\ q.reply = "none" /\ q.request = processes[w].request
        /\ q.pending = processes[w].pending
    BY <1>1 DEF Process
  <2> HIDE DEF q
  <2> QED BY <1>1, <1>2, <2>1, <2>2
<1>3. CASE result = "unavailable" /\ failed' = failed \union {w} /\ Stopped(w)
  <2> DEFINE q == [processes[w] EXCEPT !.stop = TRUE]
  <2>1. processes' = [processes EXCEPT ![w] = q] BY <1>3 DEF Stopped, Becomes
  <2>2. /\ q.at = processes[w].at /\ q.stop /\ q.request = processes[w].request
        /\ q.pending = processes[w].pending
    BY <1>1 DEF Process
  <2> HIDE DEF q
  <2> QED BY <1>1, <1>3, <2>1, <2>2
<1> QED BY <1>2, <1>3 DEF Answer

\* Nobody else touches the processes, the thread or the lease's backend.
LEMMA OthersKnown ==
  ASSUME Known, LeaseInv, Environment \/ ReloadReturns \/ Exit \/ Tick \/ Expire
  PROVE  Known'
<1>1. /\ UNCHANGED <<processes, thread, failed>> /\ (UNCHANGED up \/ ~up')
      /\ (UNCHANGED lease \/ Tick \/ Expire)
  <2>1. CASE Environment
    <3>1. CASE Kill BY <3>1 DEF Kill, Called, boost
    <3>2. CASE \E c \in Clients : Ready(c) \/ Use(c) \/ Disconnect(c)
      BY <3>2 DEF Ready, Use, Request, Disconnect, boost
    <3>3. CASE (\E on \in BOOLEAN : Enable(on)) \/ Reload \/ Stop
      BY <3>3 DEF Enable, Reload, Stop, boost
    <3> QED BY <2>1, <3>1, <3>2, <3>3 DEF Environment
  <2>2. CASE ReloadReturns \/ Tick \/ Expire BY <2>2 DEF ReloadReturns, Tick, Expire, boost
  <2>3. CASE Exit BY <2>3 DEF Exit, service, boost
  <2> QED BY <2>1, <2>2, <2>3
<1>2. lease'.backend = lease.backend /\ lease'.active = lease.active BY <1>1, TimeLease
<1>3. Bound' = Bound BY <1>1, <1>2 DEF Bound
<1> QED BY <1>1, <1>2, <1>3 DEF Known, Stands, Apart, Phase

\* Nothing is asked of a process.
LEMMA QuietKnown ==
  ASSUME Known, IInv, up, UNCHANGED <<up, processes, failed>>, NEW b, b = Bound,
         Bound' \in {b, 0},
         b \in Workers /\ Phase(processes[b]) => Bound' = b /\ Phase(processes[b])'
  PROVE  Known'
BY ProcessesTyped, BoundStep

\* Every step of the inference thread knows where its processes stand.
LEMMA InferenceKnown ==
  ASSUME Known, IInv, LeaseInv, LeaseInv', Inference
  PROVE  Known'
<1>0. /\ processes' \in [Workers -> Process] /\ up /\ UNCHANGED up
  <2>1. Outward BY InferenceIsOutward
  <2>2. up /\ UNCHANGED up
    BY DEF Inference, TakeCommand, TakeTimer, TakeRelease, TakeEnable, TakeReplace,
           TakeReplaceFails, TakeErase, Take, FinishReady, FinishUse, FinishUseFails,
           FinishReplace, FinishOther, Working, Activated, NotYet, Unavailable, Released,
           NotReleased, Reset, Lowering, Close, Closed, NoBoost, Launch, Boosted, NotBoosted, Rest
  <2> QED BY <2>1, <2>2 DEF Outward
<1>1. LeaseFits /\ CallsFit BY DEF LeaseInv
<1>2. /\ lease.backend \in Workers \union {0} /\ thread.w \in Workers \union {0}
      /\ lease.active \in BOOLEAN /\ \A v \in Workers : v # 0
  BY LeaseOf, ThreadOf, WorkersAssumption
<1>3. PICK b : b = Bound OBVIOUS
<1> USE DEF LeaseStays, LeaseAnew, LeaseGoes, ThreadGoes, ThreadMoves, ThreadEnds
<1>4. CASE TakeCommand
  <2>1. /\ thread.at = "free" /\ LeaseStays /\ UNCHANGED failed /\ b = lease.backend
        /\ \/ /\ ThreadGoes("on", Head(jobs), lease.backend, "job")
              /\ Ask(lease.backend, TRUE) /\ lease.backend # 0 /\ ~lease.active
           \/ ThreadGoes("job", Head(jobs), 0, "job") /\ UNCHANGED processes
    BY <1>3, <1>4, TakeCommandDoes, JobTaken DEF Bound
  <2>2. Bound' = b BY <2>1 DEF Bound
  <2>3. CASE ThreadGoes("job", Head(jobs), 0, "job") /\ UNCHANGED processes
    BY <2>1, <2>3, <1>0, <1>3, <2>2, QuietKnown DEF Phase
  <2>4. CASE /\ ThreadGoes("on", Head(jobs), lease.backend, "job")
             /\ Ask(lease.backend, TRUE) /\ lease.backend # 0
    <3>1. b \in Workers /\ Ask(b, TRUE) BY <1>2, <2>1, <2>4
    <3>2. b \in failed => processes[b].stop BY DEF Known
    <3>3. ~processes[b].stop /\ Phase(processes[b]) => Phase(processes[b])'
      BY <2>1, <2>4, <3>1, <3>2, AskDoes DEF Phase, Settled, Raises
    <3>4. /\ \A v \in Workers : v # b => processes'[v] = processes[v]
          /\ processes'[b].at = processes[b].at
          /\ processes[b].stop => processes'[b].stop
      BY <3>1, AskDoes
    <3> QED BY <1>0, <1>3, <2>1, <2>2, <3>1, <3>3, <3>4, BoundStep
  <2> QED BY <2>1, <2>3, <2>4
<1>5. CASE TakeTimer
  <2>1. /\ thread.at = "free" /\ UNCHANGED failed /\ b = lease.backend
        /\ lease'.backend = lease.backend /\ lease'.active = lease.active
        /\ \/ /\ ThreadGoes("off", Head(jobs), lease.backend, "free")
              /\ Ask(lease.backend, FALSE)
           \/ ThreadEnds /\ UNCHANGED processes
    BY <1>3, <1>5, TakeTimerDoes, JobTaken DEF Bound
  <2>2. Bound' = b BY <2>1 DEF Bound
  <2>3. CASE ThreadEnds /\ UNCHANGED processes
    BY <2>1, <2>3, <1>0, <1>3, <2>2, QuietKnown DEF Phase
  <2>4. CASE /\ ThreadGoes("off", Head(jobs), lease.backend, "free")
             /\ Ask(lease.backend, FALSE)
    <3>0. lease.backend # 0 BY <2>1, <2>4 DEF LeaseInv, CallsFit
    <3>1. b \in Workers /\ Ask(b, FALSE) BY <1>2, <2>1, <2>4, <3>0
    <3>2. b \in failed => processes[b].stop BY DEF Known
    <3>3. ~processes[b].stop /\ Phase(processes[b]) => Phase(processes[b])'
      BY <2>1, <2>4, <3>1, <3>2, AskDoes DEF Phase, Settled, Lowers
    <3>4. /\ \A v \in Workers : v # b => processes'[v] = processes[v]
          /\ processes'[b].at = processes[b].at
          /\ processes[b].stop => processes'[b].stop
      BY <3>1, AskDoes
    <3> QED BY <1>0, <1>3, <2>1, <2>2, <3>1, <3>3, <3>4, BoundStep
  <2> QED BY <2>1, <2>3, <2>4
<1>6. CASE TakeRelease \/ TakeEnable \/ TakeReplace \/ TakeReplaceFails \/ TakeErase
  BY <1>3, <1>6, TakeOtherDoes, JobTaken, <1>1, <1>2, <1>0, QuietKnown DEF Bound, CallsFit,
     Phase
<1>7. CASE FinishReady \/ FinishUse \/ FinishUseFails \/ FinishReplace \/ FinishOther
  BY <1>3, <1>7, FinishDoes, <1>0, QuietKnown DEF Bound, boost, Phase
<1>8. CASE Activated \/ NotYet \/ Unavailable
  <2>1. /\ thread.at = "on" /\ b = lease.backend /\ b = thread.w /\ b \in Workers
        /\ \/ /\ Answer(b, "success") /\ thread'.at = "job"
              /\ lease'.backend = b /\ lease'.active
           \/ Answer(b, "retry_later") /\ thread'.at = "job" /\ LeaseStays
           \/ Answer(b, "unavailable") /\ thread'.at = "reset" /\ LeaseStays
    BY <1>1, <1>2, <1>3, <1>8, ActivatedDoes DEF Bound, CallsFit
  <2>2. Bound' = b BY <2>1 DEF Bound
  <2>3. PICK result \in {"success", "retry_later", "unavailable"} : Answer(b, result)
             /\ \/ result = "success" /\ thread'.at = "job" /\ lease'.active
                \/ result = "retry_later" /\ thread'.at = "job"
                \/ result = "unavailable" /\ thread'.at = "reset"
    BY <2>1
  <2>4. /\ \A v \in Workers : v # b => processes'[v] = processes[v]
        /\ processes'[b].at = processes[b].at /\ processes'[b].pending = processes[b].pending
        /\ processes'[b].request = processes[b].request
        /\ \/ /\ b \notin failed /\ processes[b].at # "ended" /\ processes[b].reply = result
              /\ processes'[b].stop = processes[b].stop /\ processes'[b].reply = "none"
              /\ UNCHANGED failed
           \/ result = "unavailable" /\ failed' = failed \union {b} /\ processes'[b].stop
    BY <2>1, <2>3, AnswerDoes
  <2>5. ~processes[b].stop /\ Phase(processes[b]) =>
          processes'[b].stop \/ Phase(processes[b])'
    BY <2>1, <2>3, <2>4 DEF Phase, Raises, Settled
  <2>6. /\ processes[b].stop => processes'[b].stop
        /\ UNCHANGED failed \/ (failed' = failed \union {b} /\ processes'[b].stop)
    BY <2>4
  <2> QED BY <1>0, <1>3, <2>1, <2>2, <2>4, <2>5, <2>6, BoundStep
<1>9. CASE Released \/ NotReleased
  <2>1. /\ thread.at = "off" /\ thread' = Free
        /\ b = lease.backend /\ b = thread.w /\ b \in Workers
        /\ \/ Answer(b, "success") /\ lease'.backend = b
           \/ /\ \E result \in {"retry_later", "unavailable"} : Answer(b, result)
              /\ lease'.backend = b /\ lease'.active = lease.active /\ lease.active
    <3>1. /\ thread.at = "off" /\ thread' = Free
          /\ b = lease.backend /\ b = thread.w /\ b \in Workers /\ lease.active
      BY <1>1, <1>2, <1>3, <1>9 DEF Bound, CallsFit, Released, NotReleased
    <3>2. lease \in LeaseRecord BY DEF LeaseInv, Records
    <3>3. CASE Released
      BY <3>1, <3>3, <3>2 DEF Released, LeaseRecord
    <3>4. CASE NotReleased
      BY <3>1, <3>4, <3>2 DEF NotReleased, LeaseRecord, Retried, Armed
    <3> QED BY <1>9, <3>3, <3>4
  <2>2. thread'.at = "free" /\ Bound' = b BY <2>1, FreeMade DEF Bound
  <2>3. PICK result \in {"success", "retry_later", "unavailable"} : Answer(b, result)
             /\ (result # "success" => lease'.active)
    BY <2>1
  <2>4. /\ \A v \in Workers : v # b => processes'[v] = processes[v]
        /\ processes'[b].at = processes[b].at /\ processes'[b].pending = processes[b].pending
        /\ processes'[b].request = processes[b].request
        /\ \/ /\ b \notin failed /\ processes[b].at # "ended" /\ processes[b].reply = result
              /\ processes'[b].stop = processes[b].stop /\ processes'[b].reply = "none"
              /\ UNCHANGED failed
           \/ result = "unavailable" /\ failed' = failed \union {b} /\ processes'[b].stop
    BY <2>1, <2>3, AnswerDoes
  <2>5. ~processes[b].stop /\ Phase(processes[b]) =>
          processes'[b].stop \/ Phase(processes[b])'
    BY <2>1, <2>2, <2>3, <2>4 DEF Phase, Lowers, Settled
  <2>6. /\ processes[b].stop => processes'[b].stop
        /\ UNCHANGED failed \/ (failed' = failed \union {b} /\ processes'[b].stop)
    BY <2>4
  <2> QED BY <1>0, <1>3, <2>1, <2>2, <2>4, <2>5, <2>6, BoundStep
<1>10. CASE Reset
  <2>1. /\ thread.at = "reset" /\ b = lease.backend /\ UNCHANGED failed /\ lease'.backend = 0
        /\ \/ b = 0 /\ UNCHANGED processes /\ thread'.at = thread.next
           \/ /\ b # 0 /\ thread'.w = b /\ thread'.at \in {"lowering", "close"}
              /\ Ask(b, FALSE) \/ UNCHANGED processes
    BY <1>3, <1>10, ResetDoes DEF Bound
  <2>2. CASE b = 0
    BY <1>1, <2>1, <2>2, ThreadOf, <1>0, <1>2, <1>3, QuietKnown DEF Bound, CallsFit
  <2>3. CASE b # 0 /\ thread'.w = b /\ thread'.at \in {"lowering", "close"}
    <3>1. Bound' = b /\ b \in Workers BY <1>2, <2>1, <2>3 DEF Bound
    <3>2. Phase(processes[b])' BY <2>3 DEF Phase
    <3>3. CASE UNCHANGED processes BY <1>0, <1>3, <2>1, <3>1, <3>2, <3>3, QuietKnown
    <3>4. CASE Ask(b, FALSE)
      <4>1. /\ \A v \in Workers : v # b => processes'[v] = processes[v]
            /\ processes'[b].at = processes[b].at
            /\ processes[b].stop => processes'[b].stop
        BY <3>1, <3>4, AskDoes
      <4> QED BY <1>0, <1>3, <2>1, <3>1, <3>2, <4>1, BoundStep
    <3> QED BY <2>1, <2>3, <3>3, <3>4
  <2> QED BY <2>1, <2>2, <2>3
<1>11. CASE Lowering
  <2>1. /\ thread.at = "lowering" /\ thread'.at = "close" /\ thread'.w = thread.w
        /\ \E result : Answer(thread.w, result)
    BY <1>11, GoesTo DEF Lowering, Places
  <2>2. b = thread.w /\ Bound' = b /\ b \in Workers /\ Phase(processes[b])'
    BY <1>1, <1>2, <1>3, <2>1 DEF Bound, Phase, CallsFit
  <2>3. PICK result : Answer(b, result) BY <2>1, <2>2
  <2>4. /\ \A v \in Workers : v # b => processes'[v] = processes[v]
        /\ processes'[b].at = processes[b].at
        /\ processes[b].stop => processes'[b].stop
        /\ UNCHANGED failed \/ (failed' = failed \union {b} /\ processes'[b].stop)
    BY <2>2, <2>3, AnswerDoes
  <2> QED BY <1>0, <1>3, <2>2, <2>4, BoundStep
<1>12. CASE Close
  <2>1. /\ thread.at = "close" /\ thread'.at = "closing" /\ lease' = lease /\ UNCHANGED failed
        /\ Stopped(thread.w)
    BY <1>12, GoesTo DEF Close, Places, Dismissed
  <2>2. b = thread.w /\ Bound' = 0 /\ b \in Workers
    BY <1>1, <1>2, <1>3, <2>1 DEF Bound, CallsFit
  <2> DEFINE q == [processes[b] EXCEPT !.stop = TRUE]
  <2>3. processes' = [processes EXCEPT ![b] = q] BY <2>1, <2>2 DEF Stopped, Becomes
  <2>4. q.stop /\ q.at = processes[b].at BY <2>2, ProcessesTyped DEF Process
  <2> HIDE DEF q
  <2>5. /\ \A v \in Workers : v # b => processes'[v] = processes[v]
        /\ processes'[b].at = processes[b].at /\ processes'[b].stop
    BY <2>2, <2>3, <2>4, ProcessesTyped
  <2> QED BY <1>0, <1>3, <2>1, <2>2, <2>5, BoundStep
<1>13. CASE Closed
  <2>1. /\ thread.at = "closing" /\ thread'.at = thread.next /\ lease' = lease
        /\ UNCHANGED <<failed, processes>>
    BY <1>13, GoesTo, ThreadOf DEF Closed, Places, boost
  <2>2. b = 0 /\ Bound' = 0 BY <1>1, <1>3, <2>1, ThreadOf DEF Bound, CallsFit
  <2> QED BY <1>0, <1>2, <1>3, <2>1, <2>2, QuietKnown
<1>14. CASE NoBoost
  <2>1. thread.at = "make" /\ thread'.at = "job" /\ lease'.backend = 0 /\ UNCHANGED <<failed, processes>>
    BY <1>14, GoesTo, FreshLease DEF NoBoost, Places, boost
  <2>2. b = 0 /\ Bound' = 0 BY <1>1, <1>3, <2>1 DEF Bound, CallsFit
  <2> QED BY <1>0, <1>2, <1>3, <2>1, <2>2, QuietKnown
<1>15. CASE Launch
  <2>1. PICK w \in Workers :
          /\ processes[w].at = "none" /\ Launched(w) /\ thread'.at = "launching" /\ thread'.w = w
    <3>1. PICK w \in NotLaunched : Launched(w) /\ thread' = [thread EXCEPT !.at = "launching", !.w = w]
      BY <1>15 DEF Launch
    <3>2. thread \in ThreadRecord BY DEF LeaseInv, Records
    <3> QED BY <3>1, <3>2 DEF NotLaunched, ThreadRecord
  <2>2. thread.at = "make" /\ UNCHANGED <<lease, failed>> BY <1>15 DEF Launch
  <2>3. b = 0 /\ Bound' = w BY <1>1, <1>3, <2>1, <2>2 DEF Bound, CallsFit
  <2>4. /\ \A v \in Workers : v # w => processes'[v] = processes[v]
        /\ processes'[w] = Blank("starting")
    BY <2>1, ProcessesTyped DEF Launched, Becomes
  <2>5. Stands(processes[w])' BY <2>1, <2>4 DEF Stands, Phase, Starts, Blank
  <2>6. \A v \in Workers : Apart(processes[v]) BY <1>0, <1>2, <1>3, <2>3 DEF Known
  <2>7. \A v \in Workers : IF v = Bound' THEN Stands(processes[v])' ELSE Apart(processes[v])'
    BY <2>3, <2>4, <2>5, <2>6 DEF Apart
  <2>8. w \notin failed BY <2>1 DEF Known
  <2>9. \A v \in failed' : v \in Workers /\ processes'[v].at # "none" /\ processes'[v].stop
    BY <2>2, <2>4, <2>8 DEF Known
  <2> QED BY <2>7, <2>9 DEF Known
<1>16. CASE Boosted \/ NotBoosted
  <2>1. /\ thread.at = "launching" /\ thread'.at = "job"
        /\ \/ Answer(thread.w, "success") /\ lease'.backend = thread.w
           \/ Answer(thread.w, "unavailable") /\ lease'.backend = 0
    BY <1>16, GoesTo, FreshLease DEF Boosted, NotBoosted, Places, LeaseRecord
  <2>2. b = thread.w /\ b \in Workers BY <1>1, <1>2, <1>3, <2>1 DEF Bound, CallsFit
  <2>3. PICK result : /\ Answer(b, result)
                      /\ \/ result = "success" /\ Bound' = b
                         \/ result = "unavailable" /\ Bound' = 0
    BY <2>1, <2>2 DEF Bound
  <2>4. /\ \A v \in Workers : v # b => processes'[v] = processes[v]
        /\ processes'[b].at = processes[b].at /\ processes'[b].pending = processes[b].pending
        /\ processes'[b].request = processes[b].request
        /\ \/ /\ b \notin failed /\ processes[b].at # "ended" /\ processes[b].reply = result
              /\ processes'[b].stop = processes[b].stop /\ processes'[b].reply = "none"
              /\ UNCHANGED failed
           \/ result = "unavailable" /\ failed' = failed \union {b} /\ processes'[b].stop
    BY <2>2, <2>3, AnswerDoes
  <2>5. ~processes[b].stop /\ Phase(processes[b]) =>
          processes'[b].stop \/ (Bound' = b /\ Phase(processes[b])')
    BY <2>1, <2>3, <2>4 DEF Phase, Starts, Settled
  <2>6. /\ processes[b].stop => processes'[b].stop
        /\ UNCHANGED failed \/ (failed' = failed \union {b} /\ processes'[b].stop)
    BY <2>4
  <2> QED BY <1>0, <1>3, <2>2, <2>3, <2>4, <2>5, <2>6, BoundStep
<1> QED
  BY <1>4, <1>5, <1>6, <1>7, <1>8, <1>9, <1>10, <1>11, <1>12, <1>13, <1>14, <1>15, <1>16
     DEF Inference

\* The inductive invariant of the lease.
LeasingInv == IInv /\ LeaseInv /\ TimerOnce /\ Known

\* All of it holds at first,
LEMMA InitLeasing == Init => LeasingInv
<1> SUFFICES ASSUME Init PROVE LeasingInv
  OBVIOUS
<1>1. PICK use \in Uses :
        /\ lease = NoLease(use.boost) /\ initialized = use.boost
        /\ thread = IF use.boost THEN Doing("make", Job("enable", 0, TRUE, 0), 0, "job") ELSE Free
  BY DEF Init
<1>2. use.boost \in BOOLEAN BY UsesAssumption
<1>3. /\ lease \in LeaseRecord /\ lease.backend = 0 /\ ~lease.active /\ ~lease.releasing
      /\ lease.failures = 0 /\ ~lease.armed
  BY <1>1, <1>2, Times DEF NoLease, LeaseRecord
<1>4. /\ thread \in ThreadRecord
      /\ \/ thread.at = "make" /\ thread.next = "job" /\ initialized
         \/ thread.at = "free" /\ thread.next = "free"
  <2>1. CASE use.boost
    <3>1. Job("enable", 0, TRUE, 0) \in JobShape BY JobMade DEF JobKinds
    <3>2. "make" \in Places /\ 0 \in Workers \union {0} /\ "job" \in {"free", "job", "make"}
      BY DEF Places
    <3>3. thread = Doing("make", Job("enable", 0, TRUE, 0), 0, "job") /\ initialized
      BY <1>1, <2>1
    <3>4. Doing("make", Job("enable", 0, TRUE, 0), 0, "job") \in ThreadRecord
      BY <3>1, <3>2, DoingMade
    <3>5. thread.at = "make" /\ thread.next = "job" BY <3>3 DEF Doing
    <3> QED BY <3>3, <3>4, <3>5
  <2>2. CASE ~use.boost
    BY <1>1, <2>2, FreeMade DEF Free, Doing
  <2> QED BY <2>1, <2>2
<1>5. /\ jobs = <<>> /\ up = TRUE /\ accepting = TRUE /\ mutex = 0 /\ reload = "no" /\ failed = {}
      /\ clients = [c \in Clients |-> "reading"] /\ processes = [w \in Workers |-> NoProcess]
  BY DEF Init, GpuInit
<1>6. LeaseInv
  <2>1. /\ {up, initialized, accepting} \subseteq BOOLEAN
        /\ mutex \in Workers \union {0}
        /\ clients \in [Clients -> {"gone", "reading", "waiting"}]
        /\ reload \in {"no", "waiting", "done"}
        /\ jobs \in Seq(JobShape)
    BY <1>1, <1>2, <1>5
  <2>2. Records BY <1>3, <1>4, <2>1 DEF Records
  <2>3. LeaseFits BY <1>3, <1>4 DEF LeaseFits
  <2>4. CallsFit BY <1>3, <1>4 DEF CallsFit
  <2> QED BY <2>2, <2>3, <2>4 DEF LeaseInv
<1>7. TimerOnce BY <1>3, <1>4, <1>5 DEF TimerOnce, NoneAhead, OneCurrent, NoneCurrent
<1>8. Known
  BY <1>3, <1>4, <1>5, WorkersAssumption DEF Bound, NoProcess, Blank, Known, Apart
<1> QED BY <1>6, <1>7, <1>8, InitInv DEF LeasingInv

\* and every step keeps it.
LEMMA NextLeasing == LeasingInv /\ [Next]_vars => LeasingInv'
<1> SUFFICES ASSUME LeasingInv, [Next]_vars PROVE LeasingInv'
  OBVIOUS
<1>1. IInv /\ LeaseInv /\ TimerOnce /\ Known /\ IInv' BY NextInv DEF LeasingInv
<1>2. CASE Inference
  BY <1>1, JobTaken, <1>2, InferenceLease, InferenceTimer, InferenceKnown DEF TimerOnce,
     TakeTimer, IsCurrent, NoneCurrent, LeasingInv
<1>3. CASE Environment \/ ReloadReturns \/ Exit \/ Tick \/ Expire
  BY <1>1, <1>3, CallLease, SettingLease, TimeLease, OthersTimer, OthersKnown DEF
     Environment, LeasingInv
<1>4. CASE Processes
  <2>1. PICK w \in Workers : Work(w) /\ UNCHANGED service BY <1>4 DEF Processes
  <2>2. UNCHANGED up /\ mutex' \in Workers \union {0}
    <3>1. mutex \in Workers \union {0} BY <1>1 DEF LeaseInv, Records
    <3>2. UNCHANGED up /\ mutex' \in {mutex, w, 0}
      BY <2>1 DEF Work, Begin, Lock, Decline, Leave, Receive, Peak, PeakFails, Undo, UndoFails,
             Lower, LowerFails, Restore, RestoreFails, End
    <3> QED BY <3>1, <3>2
  <2>3. LeaseInv'
    BY <1>1, <2>1, <2>2 DEF service, LeaseInv, Records, LeaseFits, CallsFit
  <2>4. TimerOnce'
    BY <1>1, <2>1 DEF service, TimerOnce, NoneAhead, OneCurrent, NoneCurrent, IsCurrent, Current
  <2> QED BY <1>1, <2>1, <2>3, <2>4, WorkKnown DEF LeasingInv
<1>5. CASE UNCHANGED vars
  <2>1. LeaseInv'
    BY <1>1, <1>5 DEF vars, boost, service, LeaseInv, Records, LeaseFits, CallsFit
  <2>2. TimerOnce'
    BY <1>1, <1>5
       DEF vars, service, TimerOnce, NoneAhead, OneCurrent, NoneCurrent, IsCurrent, Current
  <2>3. Known'
    BY <1>1, <1>5 DEF vars, boost, service, Known, Bound, Stands, Apart, Phase
  <2> QED BY <1>1, <2>1, <2>2, <2>3 DEF LeasingInv
<1> QED BY <1>2, <1>3, <1>4, <1>5 DEF Next

\* What the service, its timer and the processes keep of the lease fits
\* together: while the inference thread is in no call a duty to lower the clock
\* is that of the backend with an active lease, or of a process told to end;
\* and the timer's job never asks a backend that is gone.
THEOREM LeaseAlwaysKept == Spec => []LeaseIsKept
<1>1. LeasingInv => InferenceTypeOK /\ DutyIsKnown /\ TimerHasBackend
  <2> SUFFICES ASSUME LeasingInv PROVE InferenceTypeOK /\ DutyIsKnown /\ TimerHasBackend
    OBVIOUS
  <2>1. IInv /\ LeaseInv /\ Known BY DEF LeasingInv
  <2>2. InferenceTypeOK
    BY <2>1, ProcessesTyped, LeaseOf DEF Process, IInv, Typed, LeaseInv, Records,
       InferenceTypeOK, Ticks
  <2>3. DutyIsKnown
    <3> SUFFICES ASSUME up, thread.at \in {"free", "job"}, NEW w \in Workers,
                        processes[w].pending, processes[w].at \in Running \ {"restoring"},
                        ~processes[w].stop
                 PROVE  lease.backend = w /\ lease.active
      BY DEF DutyIsKnown
    <3>1. processes[w].at # "none" BY DEF Running
    <3>2. w = Bound /\ Stands(processes[w]) BY <2>1, <3>1 DEF Known, Apart
    <3> QED BY <3>2 DEF Stands, Phase, Bound
  <2>4. TimerHasBackend BY <2>1 DEF LeaseInv, CallsFit, TimerHasBackend
  <2> QED BY <2>2, <2>3, <2>4
<1> QED
  BY <1>1, InitLeasing, NextLeasing, RaisedClockIsOwed, PTL DEF Spec, LeaseIsKept

-----------------------------------------------------------------------------
(***************************************************************************)
(* ContextsAreTended.  A client has one command under way, and it waits    *)
(* for it: so nobody who has left gets a context, and one who leaves gives *)
(* it back with the job that is posted then.                               *)
(***************************************************************************)
EntryShape == [client : Clients, core : Nat]

\* The contexts: each client has one at most, they are of the core that is
\* loaded, and there are not too many of them.
ContextShape ==
  /\ core \in Nat /\ recency \in Seq(EntryShape) /\ idle \in Seq(Nat)
  /\ \A i, k \in 1..Len(recency) : recency[i].client = recency[k].client => i = k
  /\ Len(recency) + Len(idle) <= Capacity
  /\ \A i \in 1..Len(recency) : recency[i].core = core
  /\ \A i \in 1..Len(idle) : idle[i] = core

\* A command is asked for by a client that waits, and it is the only one of it.
Commands  == {"ready", "use"}
Command(i) == jobs[i].kind \in Commands
AskedNow  == thread.at # "free" /\ thread.job.kind \in Commands

CommandsWait ==
  /\ \A i \in 1..Len(jobs) :
       Command(i) => jobs[i].client \in Clients /\ clients[jobs[i].client] = "waiting"
  /\ \A i, k \in 1..Len(jobs) :
       Command(i) /\ Command(k) /\ jobs[i].client = jobs[k].client => i = k
  /\ AskedNow =>
       /\ thread.job.client \in Clients /\ clients[thread.job.client] = "waiting"
       /\ \A i \in 1..Len(jobs) : Command(i) => jobs[i].client # thread.job.client

\* Who has left without the inference thread knowing it yet.
Leaving(c) == \E k \in 1..Len(jobs) : jobs[k].kind = "erase" /\ jobs[k].client = c

Holds(c) == \E i \in 1..Len(recency) : recency[i].client = c

Claims == accepting => \A c \in Clients : Holds(c) => clients[c] # "gone" \/ Leaving(c)

TendInv == ContextShape /\ CommandsWait /\ Claims

-----------------------------------------------------------------------------

\* Holders, said with the indices.
LEMMA Holding ==
  ASSUME ContextShape
  PROVE  /\ \A c : c \in Holders <=> \E i \in 1..Len(recency) : recency[i].client = c
         /\ \A e : e \in ToSet(recency) <=> \E i \in 1..Len(recency) : recency[i] = e
BY DEF ContextShape, Holders, ToSet

\* The context of a client that has one.
LEMMA OwnContext ==
  ASSUME ContextShape, NEW c \in Holders,
         NEW own, own = CHOOSE e \in ToSet(recency) : e.client = c
  PROVE  own \in EntryShape /\ own.client = c /\ own.core = core
         /\ \E i \in 1..Len(recency) : recency[i] = own
<1>1. \E e \in ToSet(recency) : e.client = c BY Holding
<1>2. own \in ToSet(recency) /\ own.client = c BY <1>1
<1> QED BY <1>2, Holding DEF ContextShape

\* A new list of contexts, in front of what was left of the old one.
LEMMA InFront ==
  ASSUME ContextShape, NEW e \in EntryShape, e.core = core, NEW q \in Seq(EntryShape),
         recency' = <<e>> \o q, UNCHANGED core,
         \A i, k \in 1..Len(q) : q[i].client = q[k].client => i = k,
         \A i \in 1..Len(q) : q[i].client # e.client /\ q[i].core = core,
         idle' \in Seq(Nat), \A i \in 1..Len(idle') : idle'[i] = core,
         Len(q) + 1 + Len(idle') <= Capacity
  PROVE  ContextShape'
<1>1. /\ recency' \in Seq(EntryShape) /\ Len(q) \in Nat /\ Len(recency') = Len(q) + 1
      /\ recency'[1] = e /\ \A i \in 1..Len(q) : recency'[i + 1] = q[i]
  OBVIOUS
<1>2. \A i \in 1..Len(recency') : i = 1 \/ (i - 1 \in 1..Len(q) /\ recency'[i] = q[i - 1])
  <2> TAKE i \in 1..Len(recency')
  <2> SUFFICES ASSUME i # 1 PROVE i - 1 \in 1..Len(q) /\ recency'[i] = q[i - 1]
    OBVIOUS
  <2>1. i - 1 \in 1..Len(q) /\ i - 1 + 1 = i BY <1>1
  <2> QED BY <1>1, <2>1
<1>3. \A i, k \in 1..Len(recency') : recency'[i].client = recency'[k].client => i = k
  <2> TAKE i, k \in 1..Len(recency')
  <2>1. CASE i = 1 /\ k # 1 BY <1>1, <1>2, <2>1
  <2>2. CASE i # 1 /\ k = 1 BY <1>1, <1>2, <2>2
  <2>3. CASE i # 1 /\ k # 1
    <3>1. i - 1 \in 1..Len(q) /\ k - 1 \in 1..Len(q) BY <1>2, <2>3
    <3>2. recency'[i] = q[i - 1] /\ recency'[k] = q[k - 1] BY <1>2, <2>3
    <3>3. q[i - 1].client = q[k - 1].client => i - 1 = k - 1 BY <3>1
    <3> QED BY <1>1, <3>2, <3>3
  <2> QED BY <2>1, <2>2, <2>3
<1>4. \A i \in 1..Len(recency') : recency'[i].core = core BY <1>1, <1>2
<1>5. Len(recency') + Len(idle') <= Capacity BY <1>1
<1>6. core' \in Nat /\ core' = core BY DEF ContextShape
<1> QED BY <1>1, <1>3, <1>4, <1>5, <1>6 DEF ContextShape

\* What Front and Last are.
LEMMA FrontLast ==
  ASSUME NEW S, NEW q \in Seq(S), q # <<>>
  PROVE  /\ Front(q) \in Seq(S) /\ Len(Front(q)) = Len(q) - 1 /\ Len(q) \in Nat /\ Len(q) > 0
         /\ \A i \in 1..Len(Front(q)) : Front(q)[i] = q[i] /\ i \in 1..Len(q)
         /\ Last(q) = q[Len(q)] /\ Last(q) \in S /\ Len(q) \in 1..Len(q)
<1>1. Len(q) \in Nat /\ Len(q) > 0 /\ \A i \in 1..Len(q) : q[i] \in S OBVIOUS
<1>2. PICK m \in Nat : m = Len(q) - 1 BY <1>1
<1>3. Front(q) = SubSeq(q, 1, m) BY <1>2 DEF Front
<1>4. /\ SubSeq(q, 1, m) \in Seq(S)
      /\ Len(SubSeq(q, 1, m)) = IF 1 <= m THEN m - 1 + 1 ELSE 0
      /\ \A i \in 1..(m - 1 + 1) : SubSeq(q, 1, m)[i] = q[1 + i - 1]
  BY <1>1, <1>2, SubSeqProperties
<1>5. Len(Front(q)) = m BY <1>2, <1>3, <1>4
<1>6. \A i \in 1..m : Front(q)[i] = q[i] /\ i \in 1..Len(q) BY <1>1, <1>2, <1>3, <1>4
<1> QED BY <1>1, <1>2, <1>3, <1>4, <1>5, <1>6 DEF Last

\* acquire gives the client its own context and nobody else's.
LEMMA AcquireTends ==
  ASSUME ContextShape, NEW c \in Clients, Acquire(c), UNCHANGED core
  PROVE  /\ ContextShape'
         /\ \A d : Holds(d)' => d = c \/ Holds(d)
<1>0. /\ recency \in Seq(EntryShape) /\ idle \in Seq(Nat) /\ core \in Nat
      /\ \A i, k \in 1..Len(recency) : recency[i].client = recency[k].client => i = k
      /\ Len(recency) + Len(idle) <= Capacity
      /\ \A i \in 1..Len(recency) : recency[i].core = core
      /\ \A i \in 1..Len(idle) : idle[i] = core
      /\ Len(recency) \in Nat /\ Len(idle) \in Nat /\ Capacity \in Nat /\ Capacity # 0
  BY CapacityAssumption DEF ContextShape
<1>1. ASSUME NEW e \in EntryShape, NEW q \in Seq(EntryShape), recency' = <<e>> \o q, e.client = c,
             \A i \in 1..Len(q) : \E k \in 1..Len(recency) : q[i] = recency[k]
      PROVE  \A d : Holds(d)' => d = c \/ Holds(d)
  <2> SUFFICES ASSUME NEW i \in 1..Len(recency'), recency'[i].client # c
               PROVE  Holds(recency'[i].client)
    BY DEF Holds
  <2>1. i # 1 BY <1>1
  <2>2. i - 1 \in 1..Len(q) /\ recency'[i] = q[i - 1] BY <1>1, <2>1
  <2> QED BY <1>1, <2>2 DEF Holds
<1>2. CASE c \in Holders
  <2>1. PICK own : own = CHOOSE e \in ToSet(recency) : e.client = c OBVIOUS
  <2>2. own \in EntryShape /\ own.client = c /\ own.core = core BY <1>2, <2>1, OwnContext
  <2>3. PICK j \in 1..Len(recency) : recency[j] = own BY <1>2, <2>1, OwnContext
  <2>4. PICK q : q = Without(recency, {own}) OBVIOUS
  <2>5. recency' = <<own>> \o q /\ UNCHANGED idle BY <1>2, <2>1, <2>4 DEF Acquire
  <2>6. PICK at : q \in Seq(EntryShape) /\ Left(q, at, recency, Len(recency), {own})
    BY <1>0, <2>4, WithoutLeaves
  <2>7. Len(q) \in Nat /\ Len(q) < Len(recency)
    <3>1. \A k \in 1..Len(recency) : recency[k] \in {own} => Len(q) < Len(recency)
      BY <1>0, <2>6, LeftShorter
    <3> QED BY <2>3, <2>6, <3>1
  <2>8. \A i \in 1..Len(q) : at[i] \in 1..Len(recency) /\ q[i] = recency[at[i]] /\ q[i] # own
    BY <2>6 DEF Left
  <2>9. \A i, k \in 1..Len(q) : at[i] = at[k] => i = k BY <2>6, <2>7 DEF Left
  <2>10. \A i, k \in 1..Len(q) : q[i].client = q[k].client => i = k
    <3> TAKE i, k \in 1..Len(q)
    <3>1. recency[at[i]].client = recency[at[k]].client => at[i] = at[k] BY <1>0, <2>8
    <3> QED BY <2>8, <2>9, <3>1
  <2>11. \A i \in 1..Len(q) : q[i].client # own.client /\ q[i].core = core
    <3> TAKE i \in 1..Len(q)
    <3>1. recency[at[i]].client = recency[j].client => at[i] = j BY <1>0, <2>8
    <3> QED BY <1>0, <2>3, <2>8, <3>1
  <2>12. /\ idle' \in Seq(Nat) /\ \A i \in 1..Len(idle') : idle'[i] = core
         /\ Len(q) + 1 + Len(idle') <= Capacity
    BY <1>0, <2>5, <2>7
  <2>13. ContextShape' BY <2>2, <2>5, <2>6, <2>10, <2>11, <2>12, InFront
  <2> QED BY <1>1, <2>2, <2>5, <2>6, <2>8, <2>13
<1>3. ASSUME c \notin Holders, NEW of \in Nat, of = core, NEW q \in Seq(EntryShape),
             recency' = <<Entry(c, of)>> \o q, Len(q) + 1 + Len(idle') <= Capacity,
             \A i \in 1..Len(q) : i \in 1..Len(recency) /\ q[i] = recency[i],
             idle' \in Seq(Nat), \A i \in 1..Len(idle') : idle'[i] = core
      PROVE  /\ ContextShape'
             /\ \A d : Holds(d)' => d = c \/ Holds(d)
  <2>1. Entry(c, of) \in EntryShape /\ Entry(c, of).client = c /\ Entry(c, of).core = core
    BY <1>3 DEF Entry, EntryShape
  <2>2. \A i \in 1..Len(q) : q[i].client # c /\ q[i].core = core
    <3> TAKE i \in 1..Len(q)
    <3>1. i \in 1..Len(recency) /\ q[i] = recency[i] BY <1>3
    <3>2. recency[i].client # c BY <1>3, <3>1, Holding
    <3> QED BY <1>0, <3>1, <3>2
  <2>3. \A i, k \in 1..Len(q) : q[i].client = q[k].client => i = k BY <1>0, <1>3
  <2>4. ContextShape' BY <1>3, <2>1, <2>2, <2>3, InFront
  <2> QED BY <1>1, <1>3, <2>1, <2>4
<1>4. CASE c \notin Holders /\ idle # <<>>
  <2>1. recency' = <<Entry(c, Last(idle))>> \o recency /\ idle' = Front(idle)
    BY <1>4 DEF Acquire
  <2>2. /\ idle' \in Seq(Nat) /\ Len(idle') = Len(idle) - 1 /\ Last(idle) = core
        /\ \A i \in 1..Len(idle') : idle'[i] = core
    <3>1. /\ Front(idle) \in Seq(Nat) /\ Len(Front(idle)) = Len(idle) - 1
          /\ \A i \in 1..Len(Front(idle)) : Front(idle)[i] = idle[i] /\ i \in 1..Len(idle)
          /\ Last(idle) = idle[Len(idle)] /\ Len(idle) \in 1..Len(idle)
      BY <1>0, <1>4, FrontLast
    <3> QED BY <1>0, <2>1, <3>1
  <2>3. Len(recency) + 1 + Len(idle') <= Capacity BY <1>0, <2>2
  <2> QED BY <1>0, <1>3, <1>4, <2>1, <2>2, <2>3
<1>5. CASE c \notin Holders /\ idle = <<>> /\ Len(recency) < Capacity
  BY <1>5, <1>0, <1>3 DEF Acquire
<1>6. CASE c \notin Holders /\ idle = <<>> /\ ~(Len(recency) < Capacity)
  <2>1. recency' = <<Entry(c, Last(recency).core)>> \o Front(recency) /\ UNCHANGED idle
    BY <1>6 DEF Acquire
  <2>2. recency # <<>> BY <1>0, <1>6
  <2>3. /\ Front(recency) \in Seq(EntryShape) /\ Len(Front(recency)) = Len(recency) - 1
        /\ \A i \in 1..Len(Front(recency)) : i \in 1..Len(recency) /\ Front(recency)[i] = recency[i]
        /\ Last(recency).core = core
    <3>1. /\ Front(recency) \in Seq(EntryShape) /\ Len(Front(recency)) = Len(recency) - 1
          /\ \A i \in 1..Len(Front(recency)) :
                Front(recency)[i] = recency[i] /\ i \in 1..Len(recency)
          /\ Last(recency) = recency[Len(recency)] /\ Len(recency) \in 1..Len(recency)
      BY <1>0, <2>2, FrontLast
    <3> QED BY <1>0, <3>1
  <2>4. Len(Front(recency)) + 1 + Len(idle') <= Capacity BY <1>0, <2>1, <2>3
  <2> QED BY <1>0, <1>3, <1>6, <2>1, <2>3, <2>4
<1> QED BY <1>2, <1>4, <1>5, <1>6

\* A client's context goes back to the idle ones.
LEMMA GiveBackTends ==
  ASSUME ContextShape, NEW c, GiveBack(c), UNCHANGED core
  PROVE  /\ ContextShape'
         /\ \A d : Holds(d)' => d # c /\ Holds(d)
<1>0. /\ recency \in Seq(EntryShape) /\ idle \in Seq(Nat) /\ core \in Nat
      /\ \A i, k \in 1..Len(recency) : recency[i].client = recency[k].client => i = k
      /\ Len(recency) + Len(idle) <= Capacity
      /\ \A i \in 1..Len(recency) : recency[i].core = core
      /\ \A i \in 1..Len(idle) : idle[i] = core
      /\ Len(recency) \in Nat /\ Len(idle) \in Nat /\ Capacity \in Nat
  BY CapacityAssumption DEF ContextShape
<1>1. PICK gone : gone = {e \in ToSet(recency) : e.client = c} OBVIOUS
<1>2. recency' = Without(recency, gone) BY <1>1 DEF GiveBack
<1>3. PICK at : recency' \in Seq(EntryShape) /\ Left(recency', at, recency, Len(recency), gone)
  BY <1>0, <1>2, WithoutLeaves
<1>4. /\ Len(recency') \in Nat /\ Len(recency') <= Len(recency)
      /\ c \in Holders => Len(recency') < Len(recency)
  <2>1. c \in Holders => \E j \in 1..Len(recency) : recency[j] \in gone
    BY <1>1, Holding
  <2>2. /\ Len(recency') <= Len(recency)
        /\ \A j \in 1..Len(recency) : recency[j] \in gone => Len(recency') < Len(recency)
    BY <1>0, <1>3, LeftShorter
  <2> QED BY <1>3, <2>1, <2>2
<1>5. \A i \in 1..Len(recency') :
        /\ at[i] \in 1..Len(recency) /\ recency'[i] = recency[at[i]] /\ recency'[i] \notin gone
  BY <1>3 DEF Left
<1>6. \A i, k \in 1..Len(recency') : at[i] = at[k] => i = k BY <1>3, <1>4 DEF Left
<1>7. \A i, k \in 1..Len(recency') : recency'[i].client = recency'[k].client => i = k
  <2> TAKE i, k \in 1..Len(recency')
  <2>1. recency[at[i]].client = recency[at[k]].client => at[i] = at[k] BY <1>0, <1>5
  <2> QED BY <1>5, <1>6, <2>1
<1>8. \A i \in 1..Len(recency') : recency'[i].client # c
  <2> TAKE i \in 1..Len(recency')
  <2>1. recency'[i] \in ToSet(recency) BY <1>5, Holding
  <2> QED BY <1>1, <1>5, <2>1
<1>9. PICK n : n = Cardinality({c} \intersect Holders) OBVIOUS
<1>10. n \in {0, 1} /\ (n = 1 <=> c \in Holders)
  <2>1. CASE c \in Holders
    BY <2>1, <1>9, FS_Singleton
  <2>2. CASE c \notin Holders
    BY <2>2, <1>9, FS_EmptySet
  <2> QED BY <2>1, <2>2
<1>11. PICK f : f = [i \in 1..n |-> (CHOOSE e \in ToSet(recency) : e.client = c).core] OBVIOUS
<1>12. f \in Seq(Nat) /\ Len(f) = n /\ \A i \in 1..n : f[i] = core
  <2>1. CASE n = 0 BY <1>11, <2>1
  <2>2. CASE n = 1
    <3>1. (CHOOSE e \in ToSet(recency) : e.client = c).core = core
      BY <1>10, <2>2, OwnContext
    <3>2. f = [i \in 1..1 |-> core] BY <1>11, <2>2, <3>1
    <3> QED BY <1>0, <2>2, <3>2
  <2> QED BY <1>10, <2>1, <2>2
<1>13. idle' = idle \o f BY <1>9, <1>11 DEF GiveBack
<1>14. /\ idle' \in Seq(Nat) /\ Len(idle') = Len(idle) + n
       /\ \A i \in 1..Len(idle') : idle'[i] = core
  <2>1. n \in Nat /\ idle' \in Seq(Nat) /\ Len(idle') = Len(idle) + n BY <1>0, <1>10, <1>12, <1>13
  <2>2. \A i \in 1..Len(idle') :
          idle'[i] = IF i <= Len(idle) THEN idle[i] ELSE f[i - Len(idle)]
    BY <1>0, <1>12, <1>13
  <2>3. \A i \in 1..Len(idle') : i <= Len(idle) \/ i - Len(idle) \in 1..n BY <1>0, <2>1
  <2>4. \A i \in 1..Len(idle') : idle'[i] = core
    <3> TAKE i \in 1..Len(idle')
    <3>1. CASE i <= Len(idle)
      BY <1>0, <2>2, <3>1
    <3>2. CASE ~(i <= Len(idle))
      BY <2>3, <3>2, <1>12, <2>2
    <3> QED BY <3>1, <3>2
  <2> QED BY <2>1, <2>4
<1>15. Len(recency') + Len(idle') <= Capacity BY <1>0, <1>4, <1>10, <1>14
<1>16. \A i \in 1..Len(recency') : recency'[i].core = core BY <1>0, <1>5
<1>17. ContextShape' BY <1>0, <1>3, <1>7, <1>14, <1>15, <1>16 DEF ContextShape
<1>18. \A d : Holds(d)' => d # c /\ Holds(d) BY <1>5, <1>8 DEF Holds
<1> QED BY <1>17, <1>18

-----------------------------------------------------------------------------
(***************************************************************************)
(* What a step does with the jobs.                                         *)
(***************************************************************************)
Posts(job) == job \in JobShape /\ Post(job)

\* A job is posted: the indices.
LEMMA PostedJob ==
  ASSUME LeaseInv, NEW job, Posts(job)
  PROVE  /\ Len(jobs) \in Nat /\ Len(jobs') = Len(jobs) + 1
         /\ jobs'[Len(jobs) + 1] = job
         /\ \A i \in 1..Len(jobs) : i \in 1..Len(jobs') /\ jobs'[i] = jobs[i]
         /\ \A i \in 1..Len(jobs') : i = Len(jobs) + 1 \/ i \in 1..Len(jobs)
         /\ Len(jobs) + 1 \in 1..Len(jobs')
  BY JobPosted DEF Posts

\* A client that leaves is known to leave until its job is taken.
LEMMA PostLeaving ==
  ASSUME LeaseInv, NEW job, Posts(job)
  PROVE  /\ \A c : Leaving(c) => Leaving(c)'
         /\ job.kind = "erase" => Leaving(job.client)'
BY PostedJob DEF Leaving

\* Only the job that is taken is no longer to be seen.
LEMMA TakeLeaving ==
  ASSUME LeaseInv, NEW kind, Take(kind), NEW c, Leaving(c)
  PROVE  Leaving(c)' \/ (kind = "erase" /\ c = Head(jobs).client)
<1>1. PICK k \in 1..Len(jobs) : jobs[k].kind = "erase" /\ jobs[k].client = c BY DEF Leaving
<1>2. CASE k = 1 BY <1>1, <1>2, JobTaken
<1>3. CASE k # 1
  <2>1. PICK i \in 1..Len(jobs') : i + 1 = k /\ jobs'[i] = jobs[k]
    <3>1. k - 1 \in 1..Len(jobs') /\ k - 1 + 1 = k BY <1>3, JobTaken
    <3>2. jobs'[k - 1] = jobs[k - 1 + 1] BY <3>1, JobTaken
    <3> QED BY <3>1, <3>2
  <2> QED BY <1>1, <2>1 DEF Leaving
<1> QED BY <1>2, <1>3

\* A job that is no command leaves the commands as they are.
LEMMA PostCommands ==
  ASSUME LeaseInv, CommandsWait, NEW job, Posts(job), job.kind \notin Commands,
         \A c \in Clients : clients[c] = "waiting" => clients'[c] = "waiting", UNCHANGED thread
  PROVE  CommandsWait'
BY PostedJob DEF Command, AskedNow, CommandsWait

\* The next job is taken.
LEMMA TakeCommands ==
  ASSUME LeaseInv, CommandsWait, NEW kind, Take(kind),
         thread'.at = "free" \/ thread'.job = Head(jobs)
  PROVE  CommandsWait'
<1>1. /\ Len(jobs) \in Nat /\ Len(jobs) > 0 /\ Len(jobs') = Len(jobs) - 1
      /\ Head(jobs) = jobs[1] /\ \A i \in 1..Len(jobs') : jobs'[i] = jobs[i + 1]
      /\ UNCHANGED clients
  BY JobTaken
<1>2. \A i \in 1..Len(jobs') :
        i + 1 \in 1..Len(jobs) /\ jobs'[i] = jobs[i + 1] /\ (Command(i)' <=> Command(i + 1))
  BY <1>1 DEF Command
<1>3. \A i \in 1..Len(jobs') :
       Command(i)' => jobs'[i].client \in Clients /\ clients'[jobs'[i].client] = "waiting"
  BY <1>1, <1>2 DEF CommandsWait
<1>4. ASSUME NEW i \in 1..Len(jobs'), NEW k \in 1..Len(jobs'),
             Command(i)', Command(k)', jobs'[i].client = jobs'[k].client
      PROVE  i = k
  BY <1>2, <1>4, <1>1 DEF CommandsWait
<1>5. ASSUME AskedNow'
      PROVE  /\ thread'.job.client \in Clients /\ clients'[thread'.job.client] = "waiting"
             /\ \A i \in 1..Len(jobs') : Command(i)' => jobs'[i].client # thread'.job.client
  <2>1. thread'.job = jobs[1] /\ 1 \in 1..Len(jobs) /\ Command(1)
    BY <1>1, <1>5 DEF AskedNow, Command
  <2>2. \A i \in 1..Len(jobs') : Command(i)' => jobs'[i].client # thread'.job.client
    <3> SUFFICES ASSUME NEW i \in 1..Len(jobs'), Command(i)', jobs'[i].client = thread'.job.client
                 PROVE  FALSE
      OBVIOUS
    <3>1. i + 1 = 1 BY <1>2, <2>1 DEF CommandsWait
    <3> QED BY <1>1, <3>1
  <2> QED BY <1>1, <2>1, <2>2 DEF CommandsWait
<1> QED BY <1>3, <1>4, <1>5 DEF CommandsWait

\* The jobs and the clients stay, the thread works on or is done.
LEMMA CommandsStay ==
  ASSUME CommandsWait, UNCHANGED <<jobs, clients>>,
         \/ UNCHANGED thread
         \/ thread'.at = "free"
         \/ thread.at # "free" /\ thread'.job = thread.job
  PROVE  CommandsWait'
BY DEF Command, AskedNow, CommandsWait

\* The handler whose command is done goes on.
LEMMA CommandsDone ==
  ASSUME LeaseInv, CommandsWait, AskedNow, HandlerGoesOn, UNCHANGED jobs, thread'.at = "free"
  PROVE  CommandsWait'
BY DEF Command, AskedNow, HandlerGoesOn, LeaseInv, Records, CommandsWait

-----------------------------------------------------------------------------
(***************************************************************************)
(* Every step tends the contexts.                                          *)
(***************************************************************************)
LEMMA ContextsStay ==
  ASSUME TendInv, UNCHANGED contexts
  PROVE  ContextShape' /\ \A c : Holds(c)' <=> Holds(c)
  BY DEF TendInv, contexts, ContextShape, Holds

\* A client asks for a command of its own, or leaves and says so.
LEMMA CallTends ==
  ASSUME LeaseInv, TendInv, \E c \in Clients : Ready(c) \/ Use(c) \/ Disconnect(c)
  PROVE  TendInv'
<1>0. clients \in [Clients -> {"gone", "reading", "waiting"}] BY DEF LeaseInv, Records
<1>1. PICK c \in Clients : Ready(c) \/ Use(c) \/ Disconnect(c) OBVIOUS
<1>2. UNCHANGED <<thread, contexts, accepting>> /\ clients[c] = "reading"
  BY <1>1 DEF Ready, Use, Request, Disconnect
<1>3. ContextShape' /\ \A d : Holds(d)' <=> Holds(d) BY <1>2, ContextsStay
<1>4. CASE Disconnect(c)
  <2>1. /\ Posts(Job("erase", c, FALSE, 0)) /\ clients' = [clients EXCEPT ![c] = "gone"]
    BY <1>4, JobMade DEF Disconnect, Leaves, Posts, JobKinds
  <2>2. Job("erase", c, FALSE, 0).kind = "erase" /\ Job("erase", c, FALSE, 0).client = c
    BY DEF Job
  <2>3. \A d \in Clients : clients[d] = "waiting" => clients'[d] = "waiting" BY <1>0, <1>2, <2>1
  <2>4. CommandsWait' BY <1>2, <2>1, <2>2, <2>3, PostCommands DEF TendInv, Commands
  <2>5. Leaving(c)' /\ \A d : Leaving(d) => Leaving(d)'
    <3>1. PICK job : job = Job("erase", c, FALSE, 0) OBVIOUS
    <3>2. Posts(job) /\ job.kind = "erase" /\ job.client = c BY <2>1, <2>2, <3>1
    <3> QED BY <3>2, PostLeaving
  <2>6. \A d \in Clients : d # c => clients'[d] = clients[d] BY <1>0, <2>1
  <2>7. Claims' BY <1>2, <1>3, <2>5, <2>6 DEF TendInv, Claims
  <2> QED BY <1>3, <2>4, <2>7 DEF TendInv
<1>5. CASE Ready(c) \/ Use(c)
  <2>1. PICK kind \in Commands :
          Post(Job(kind, c, FALSE, 0)) /\ clients' = [clients EXCEPT ![c] = "waiting"]
    BY <1>5 DEF Ready, Use, Request, Commands
  <2>2. PICK job : job = Job(kind, c, FALSE, 0) OBVIOUS
  <2>3. Posts(job) /\ job.kind \in Commands /\ job.client = c
    BY <2>2, JobMade, <2>1 DEF Commands, JobKinds, Posts, Job
  <2>4. clients'[c] = "waiting" /\ \A d \in Clients : d # c => clients'[d] = clients[d]
    BY <1>0, <2>1
  <2>5. /\ Len(jobs) \in Nat /\ jobs'[Len(jobs) + 1] = job
        /\ \A i \in 1..Len(jobs') : i = Len(jobs) + 1 \/ i \in 1..Len(jobs)
        /\ \A i \in 1..Len(jobs) : jobs'[i] = jobs[i] /\ (Command(i)' <=> Command(i))
    BY <2>3, PostedJob DEF Command
  <2>6. \A i \in 1..Len(jobs) : Command(i) =>
          jobs[i].client \in Clients /\ jobs[i].client # c /\ clients[jobs[i].client] = "waiting"
    BY <1>2 DEF TendInv, CommandsWait
  <2>7. AskedNow' => AskedNow /\ thread'.job.client \in Clients /\ thread'.job.client # c
                     /\ clients[thread'.job.client] = "waiting"
    BY <1>2 DEF AskedNow, TendInv, CommandsWait
  <2>8. CommandsWait'
    <3>1. \A i \in 1..Len(jobs') :
            Command(i)' => jobs'[i].client \in Clients /\ clients'[jobs'[i].client] = "waiting"
      <4> TAKE i \in 1..Len(jobs')
      <4>1. CASE i = Len(jobs) + 1 BY <2>3, <2>4, <2>5, <4>1
      <4>2. CASE i \in 1..Len(jobs) BY <2>4, <2>5, <2>6, <4>2
      <4> QED BY <2>5, <4>1, <4>2
    <3>2. \A i, k \in 1..Len(jobs') :
            Command(i)' /\ Command(k)' /\ jobs'[i].client = jobs'[k].client => i = k
      <4> TAKE i, k \in 1..Len(jobs')
      <4>1. CASE i = Len(jobs) + 1 /\ k \in 1..Len(jobs) BY <2>3, <2>5, <2>6, <4>1
      <4>2. CASE k = Len(jobs) + 1 /\ i \in 1..Len(jobs) BY <2>3, <2>5, <2>6, <4>2
      <4>3. CASE i \in 1..Len(jobs) /\ k \in 1..Len(jobs)
        BY <2>5, <4>3 DEF TendInv, CommandsWait
      <4> QED BY <2>5, <4>1, <4>2, <4>3
    <3>3. AskedNow' =>
            /\ thread'.job.client \in Clients /\ clients'[thread'.job.client] = "waiting"
            /\ \A i \in 1..Len(jobs') : Command(i)' => jobs'[i].client # thread'.job.client
      <4> HAVE AskedNow'
      <4>1. thread'.job.client \in Clients /\ clients'[thread'.job.client] = "waiting"
        BY <2>4, <2>7
      <4>2. \A i \in 1..Len(jobs) : Command(i) => jobs[i].client # thread'.job.client
        BY <1>2, <2>7 DEF TendInv, CommandsWait
      <4>3. ASSUME NEW i \in 1..Len(jobs'), Command(i)' PROVE jobs'[i].client # thread'.job.client
        BY <2>3, <2>5, <2>7, <4>2, <4>3
      <4> QED BY <4>1, <4>3
    <3> QED BY <3>1, <3>2, <3>3 DEF CommandsWait
  <2>9. \A d : Leaving(d) => Leaving(d)' BY <2>3, PostLeaving
  <2>10. Claims' BY <1>2, <1>3, <2>4, <2>9 DEF TendInv, Claims
  <2> QED BY <1>3, <2>8, <2>10 DEF TendInv
<1> QED BY <1>1, <1>4, <1>5

\* A job for the service itself.
LEMMA PostTends ==
  ASSUME LeaseInv, TendInv, NEW job, Posts(job), job.kind \notin Commands,
         UNCHANGED <<clients, thread, contexts>>, accepting' => accepting
  PROVE  TendInv'
BY ContextsStay, PostCommands, PostLeaving DEF TendInv, Claims

\* The thread works on, and neither jobs nor contexts change.
LEMMA StillTends ==
  ASSUME TendInv, UNCHANGED <<clients, jobs, contexts, accepting>>,
         \/ UNCHANGED thread
         \/ thread'.at = "free"
         \/ thread.at # "free" /\ thread'.job = thread.job
  PROVE  TendInv'
BY ContextsStay, CommandsStay DEF TendInv, Leaving, Claims

\* Taking a job gives back the context of a client that has left, or all of them.
LEMMA TakeTends ==
  ASSUME LeaseInv, TendInv,
         TakeCommand \/ TakeTimer \/ TakeRelease \/ TakeEnable \/ TakeReplace
           \/ TakeReplaceFails \/ TakeErase
  PROVE  TendInv'
<1>1. PICK kind : Take(kind)
  BY DEF TakeCommand, TakeTimer, TakeRelease, TakeEnable, TakeReplace, TakeReplaceFails, TakeErase
<1>2. thread'.at = "free" \/ thread'.job = Head(jobs)
  <2>1. \A at, w, next : Doing(at, Head(jobs), w, next).job = Head(jobs) BY DEF Doing
  <2>2. Free.at = "free" BY DEF Free, Doing
  <2>3. CASE TakeCommand
    BY <2>3, <2>1 DEF TakeCommand, Activate
  <2>4. CASE TakeTimer
    <3>1. TimerExpired(Head(jobs)) BY <2>4 DEF TakeTimer
    <3>2. \/ thread' = Doing("off", Head(jobs), lease.backend, "free")
          \/ thread' = Free
      BY <3>1 DEF TimerExpired
    <3> QED BY <2>1, <2>2, <3>2
  <2>5. CASE TakeEnable
    BY <2>5, <2>1 DEF TakeEnable
  <2>6. CASE TakeReplace
    BY <2>6, <2>1 DEF TakeReplace
  <2>7. CASE TakeRelease \/ TakeReplaceFails \/ TakeErase
    BY <2>1, <2>2, <2>7 DEF TakeRelease, TakeReplaceFails, TakeErase
  <2> QED BY <2>3, <2>4, <2>5, <2>6, <2>7
<1>3. CommandsWait' BY <1>1, <1>2, TakeCommands DEF TendInv
<1>4. UNCHANGED <<clients, accepting>> BY <1>1 DEF Take
<1>5. CASE TakeErase
  <2>1. Take("erase") /\ GiveBack(Head(jobs).client) /\ UNCHANGED core BY <1>5 DEF TakeErase
  <2>2. PICK c : c = Head(jobs).client OBVIOUS
  <2>3. ContextShape' /\ \A d : Holds(d)' => d # c /\ Holds(d)
    BY <2>1, <2>2, GiveBackTends DEF TendInv
  <2>4. \A d : Leaving(d) => Leaving(d)' \/ d = c BY <2>1, <2>2, TakeLeaving
  <2>5. Claims' BY <1>4, <2>3, <2>4 DEF TendInv, Claims
  <2> QED BY <1>3, <2>3, <2>5 DEF TendInv
<1>6. CASE TakeReplace
  BY <1>6, CapacityAssumption, <1>3 DEF TakeReplace, ForgetContexts, TendInv, ContextShape,
     Holds, Claims
<1>7. CASE TakeCommand \/ TakeTimer \/ TakeRelease \/ TakeEnable \/ TakeReplaceFails
  <2>1. UNCHANGED contexts /\ \E k : Take(k) /\ k # "erase"
    BY <1>7 DEF TakeCommand, TakeTimer, TakeRelease, TakeEnable, TakeReplaceFails, contexts
  <2>2. ContextShape' /\ \A d : Holds(d)' <=> Holds(d) BY <2>1, ContextsStay
  <2>3. \A d : Leaving(d) => Leaving(d)' BY <2>1, TakeLeaving
  <2>4. Claims' BY <1>4, <2>2, <2>3 DEF TendInv, Claims
  <2> QED BY <1>3, <2>2, <2>4 DEF TendInv
<1> QED BY <1>5, <1>6, <1>7

\* A command that is done may have taken a context for its client.
LEMMA FinishTends ==
  ASSUME LeaseInv, TendInv,
         FinishReady \/ FinishUse \/ FinishUseFails \/ FinishReplace \/ FinishOther
  PROVE  TendInv'
<1>0. clients \in [Clients -> {"gone", "reading", "waiting"}] BY DEF LeaseInv, Records
<1>1. UNCHANGED <<jobs, core, accepting>> /\ thread'.at = "free" /\ thread.at = "job"
  BY DEF FinishReady, FinishUse, FinishUseFails, FinishReplace, FinishOther, Working, Free, Doing
<1>2. \A d : Leaving(d) => Leaving(d)' BY <1>1 DEF Leaving
<1>3. CASE FinishReplace \/ FinishOther
  BY <1>1, <1>3, StillTends DEF FinishReplace, FinishOther, contexts
<1>4. CASE FinishReady \/ FinishUse \/ FinishUseFails
  <2>1. AskedNow /\ HandlerGoesOn
    BY <1>4 DEF FinishReady, FinishUse, FinishUseFails, Working, AskedNow, Commands
  <2>2. CommandsWait' BY <1>1, <2>1, CommandsDone DEF TendInv
  <2>3. PICK c \in Clients : c = thread.job.client /\ clients[c] = "waiting"
    BY <2>1 DEF TendInv, CommandsWait
  <2>4. clients'[c] = "reading" /\ \A d \in Clients : d # c => clients'[d] = clients[d]
    BY <1>0, <2>1, <2>3 DEF HandlerGoesOn
  <2>5. ContextShape' /\ \A d : Holds(d)' => d = c \/ Holds(d)
    BY <2>3, <1>1, AcquireTends, ContextsStay, <1>4 DEF FinishUse, TendInv, FinishReady,
       FinishUseFails, contexts
  <2>6. Claims' BY <1>1, <1>2, <2>4, <2>5 DEF TendInv, Claims
  <2> QED BY <2>2, <2>5, <2>6 DEF TendInv
<1> QED BY <1>3, <1>4

\* Every step tends the contexts.
LEMMA NextTends ==
  ASSUME LeaseInv, TendInv, [Next]_vars
  PROVE  TendInv'
<1>1. CASE \E c \in Clients : Ready(c) \/ Use(c) \/ Disconnect(c) BY <1>1, CallTends
<1>2. CASE (\E on \in BOOLEAN : Enable(on)) \/ Reload \/ Stop \/ Expire
  <2>1. UNCHANGED <<clients, thread, contexts>> /\ (accepting' => accepting)
    <3>1. CASE Stop BY <3>1 DEF Stop
    <3>2. CASE Reload BY <3>2 DEF Reload
    <3>3. CASE (\E on \in BOOLEAN : Enable(on)) \/ Expire
      <4>1. UNCHANGED <<clients, thread, contexts, accepting>> BY <3>3 DEF Enable, Expire
      <4> QED BY <4>1
    <3> QED BY <1>2, <3>1, <3>2, <3>3
  <2>2. \E kind \in {"enable", "replace", "release", "timer"}, on \in BOOLEAN, g \in Nat :
          Post(Job(kind, 0, on, g))
    BY <1>2, LeaseOf DEF Enable, Reload, Stop, Expire
  <2>3. PICK kind \in {"enable", "replace", "release", "timer"}, on \in BOOLEAN, g \in Nat :
          Post(Job(kind, 0, on, g))
    BY <2>2
  <2>4. PICK job : job = Job(kind, 0, on, g) OBVIOUS
  <2>5. Posts(job) /\ job.kind \notin Commands
    BY <2>4, JobMade, <2>3 DEF JobKinds, Posts, Job, Commands
  <2> QED BY <2>1, <2>5, PostTends
<1>3. CASE Kill \/ ReloadReturns \/ Exit \/ Tick \/ Processes \/ UNCHANGED vars
  BY <1>3, StillTends DEF Kill, ReloadReturns, Exit, Tick, Processes, vars, service
<1>4. CASE Inference
  <2>1. CASE TakeCommand \/ TakeTimer \/ TakeRelease \/ TakeEnable \/ TakeReplace
               \/ TakeReplaceFails \/ TakeErase
    BY <2>1, TakeTends
  <2>2. CASE FinishReady \/ FinishUse \/ FinishUseFails \/ FinishReplace \/ FinishOther
    BY <2>2, FinishTends
  <2>3. CASE Activated \/ NotYet \/ Unavailable \/ Released \/ NotReleased
               \/ Reset \/ Lowering \/ Close \/ Closed \/ NoBoost \/ Launch \/ Boosted \/ NotBoosted
    <3>1. UNCHANGED <<clients, jobs, contexts, accepting>> /\ thread.at # "free"
      BY <2>3 DEF Activated, NotYet, Unavailable, Released, NotReleased, Reset, Lowering, Close,
                  Closed, NoBoost, Launch, Boosted, NotBoosted, Rest
    <3>2. thread \in ThreadRecord BY DEF LeaseInv, Records
    <3>3. \A at : Goes(at).job = thread.job BY <3>2 DEF Goes, ThreadRecord
    <3>4. Free.at = "free" BY DEF Free, Doing
    <3>5. thread'.at = "free" \/ thread'.job = thread.job
      <4>1. CASE Reset \/ Launch BY <3>2, <4>1 DEF Reset, Launch, ThreadRecord
      <4>2. CASE ~(Reset \/ Launch)
        BY <2>3, <3>3, <3>4, <4>2
           DEF Activated, NotYet, Unavailable, Released, NotReleased, Lowering, Close, Closed,
               NoBoost, Boosted, NotBoosted
      <4> QED BY <4>1, <4>2
    <3> QED BY <3>1, <3>5, StillTends
  <2> QED BY <1>4, <2>1, <2>2, <2>3 DEF Inference
<1> QED BY <1>1, <1>2, <1>3, <1>4 DEF Next, Environment

\* At first there are none.
LEMMA InitTends == Init => TendInv
<1> SUFFICES ASSUME Init PROVE TendInv
  OBVIOUS
<1>1. /\ jobs = <<>> /\ recency = <<>> /\ idle = <<>> /\ core = 1
  BY DEF Init
<1>2. PICK use \in Uses :
        thread = IF use.boost THEN Doing("make", Job("enable", 0, TRUE, 0), 0, "job") ELSE Free
  BY DEF Init
<1>3. ~AskedNow BY <1>2 DEF AskedNow, Commands, Free, Doing, Job
<1>4. CommandsWait BY <1>1, <1>3 DEF CommandsWait
<1>5. ContextShape BY <1>1, CapacityAssumption DEF ContextShape
<1>6. Claims BY <1>1 DEF Claims, Holds
<1> QED BY <1>4, <1>5, <1>6 DEF TendInv

\* The contexts are neither lost nor shared, nor left to another core.
THEOREM ContextsAlwaysTended == Spec => []ContextsAreTended
<1> DEFINE Both == LeasingInv /\ TendInv
<1>1. Both => ContextsAreTended
  <2> SUFFICES ASSUME Both PROVE ContextsAreTended
    OBVIOUS
  <2>1. /\ DOMAIN recency = 1..Len(recency) /\ DOMAIN idle = 1..Len(idle)
        /\ DOMAIN jobs = 1..Len(jobs) /\ Len(recency) \in Nat
    BY DEF LeasingInv, LeaseInv, Records, TendInv, ContextShape
  <2>2. ContextsFitCore BY <2>1 DEF TendInv, ContextShape, ContextsFitCore
  <2>3. Cardinality(Holders) = Len(recency)
    <3> DEFINE n == Len(recency)
               f == [i \in 1..n |-> recency[i].client]
    <3>1. f \in [1..n -> Holders] /\ \A c \in Holders : \E i \in 1..n : f[i] = c
      BY <2>1 DEF Holders
    <3>2. \A i, k \in 1..n : f[i] = f[k] => i = k BY DEF TendInv, ContextShape
    <3> HIDE DEF f
    <3>3. f \in Bijection(1..n, Holders)
      BY <3>1, <3>2 DEF Bijection, Injection, Surjection, IsInjective
    <3>4. ExistsBijection(1..n, Holders) BY <3>3 DEF ExistsBijection
    <3> QED BY <2>1, <3>4, FS_CountingElements
  <2>4. \A c \in Holders : c \in Clients /\ Holds(c)
    <3>1. \A i \in 1..Len(recency) : recency[i] \in EntryShape BY DEF TendInv, ContextShape
    <3> QED BY <2>1, <3>1 DEF Holders, Holds, EntryShape
  <2>5. accepting => \A c \in Holders : clients[c] # "gone" \/ Leaving(c)
    BY <2>4 DEF TendInv, Claims
  <2>6. \A c : Leaving(c) => \E i \in DOMAIN jobs : jobs[i].kind = "erase" /\ jobs[i].client = c
    BY <2>1 DEF Leaving
  <2> QED BY <2>2, <2>3, <2>5, <2>6 DEF ContextsAreTended, ContextsAreClaimed
<1>2. Init => Both BY InitLeasing, InitTends
<1>3. Both /\ [Next]_vars => Both' BY NextLeasing, NextTends DEF LeasingInv
<1> QED BY <1>1, <1>2, <1>3, PTL DEF Spec

=============================================================================
