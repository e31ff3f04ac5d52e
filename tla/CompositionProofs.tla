-------------------------- MODULE CompositionProofs --------------------------
(***************************************************************************)
(* Three promises of the composition, for all constants: a conversion is   *)
(* shown only for the reading it was computed for                          *)
(* (ConversionMatchesReading), results keep their place                    *)
(* (ResultsKeepTheirPlace), and a segment that waits for a conversion      *)
(* waits for one that is still to come (AwaitedStillPending).              *)
(*                                                                         *)
(* First the buffer: what each of its operators makes of it (Edited,       *)
(* Grown).  Then the controller: its methods are operators on a controller *)
(* state, so the invariant is one of such a state too.  Good(st) says what *)
(* the segments wait for, Sound(st) what the buffers show and what was     *)
(* asked, and Leads(st, other) how the buffers of a later state grew out   *)
(* of those before it.  There is a lemma of each kind per method; an       *)
(* action composes the lemmas of the methods it calls.                     *)
(*                                                                         *)
(* Last the types of a controller state, kept by every method (Fine) and   *)
(* every step (NextTyped); CompositionScreenProofs goes on from there.     *)
(***************************************************************************)
EXTENDS CompositionProperties, WellFoundedInduction, SequenceTheorems, FiniteSetTheorems, TLAPS

-----------------------------------------------------------------------------
(***************************************************************************)
(* Induction on numbers, in the form of the least element of a set.        *)
(***************************************************************************)
\* A set of numbers that is not empty has a least one.
LEMMA LeastNumber ==
  ASSUME NEW T, T \subseteq Nat, T # {}
  PROVE  \E x \in T : \A y \in T : x <= y
<1>1. IsWellFoundedOn(OpToRel(<, Nat), Nat) BY NatLessThanWellFounded
<1>2. PICK x \in T : \A y \in T : ~(<<y, x>> \in OpToRel(<, Nat)) BY <1>1, WFMin
<1>3. \A y \in T : ~(y < x) BY <1>2 DEF OpToRel
<1> QED BY <1>3

\* Induction over a set of numbers: it has all of them up to n if it has 0 and
\* with each number the next.
LEMMA UpTo ==
  ASSUME NEW n \in Nat, NEW Good, 0 \in Good,
         \A i \in 0..n : i \in Good /\ i # n => i + 1 \in Good
  PROVE  \A i \in 0..n : i \in Good
<1> DEFINE Bad == {i \in Nat : i <= n /\ i \notin Good}
<1> SUFFICES ASSUME Bad # {} PROVE FALSE
  OBVIOUS
<1>1. Bad \subseteq Nat OBVIOUS
<1>2. PICK x \in Bad : \A y \in Bad : x <= y
  <2> HIDE DEF Bad
  <2> QED BY <1>1, LeastNumber
<1>3. x \in 0..n /\ x \notin Good /\ x # 0 BY <1>2
<1>4. x - 1 \in 0..n /\ x - 1 # n /\ x - 1 + 1 = x BY <1>3
<1>5. x - 1 \in Good BY <1>2, <1>4
<1> QED BY <1>3, <1>4, <1>5

\* f begins with start and goes on with step.
Follows(f, V, start, n, step) ==
  f \in [0..n -> V] /\ f[0] = start /\ \A i \in 1..n : f[i] = step[i][f[i - 1]]

\* A value and a step from each value to the next define a function.
LEMMA Recursion ==
  ASSUME NEW V, NEW start \in V, NEW n \in Nat,
         NEW step, step \in [1..n -> [V -> V]]
  PROVE  \E f : Follows(f, V, start, n, step)
<1> DEFINE Good == {m \in 0..n : \E f : Follows(f, V, start, m, step)}
<1>1. 0 \in Good
  <2> DEFINE f == [i \in 0..0 |-> start]
  <2>1. Follows(f, V, start, 0, step) /\ 0 \in 0..n BY DEF Follows
  <2> HIDE DEF f
  <2> QED BY <2>1
<1>2. ASSUME NEW m \in 0..n, m \in Good, m # n PROVE m + 1 \in Good
  <2>1. PICK f : Follows(f, V, start, m, step)
    BY <1>2
  <2> DEFINE g == [i \in 0..(m + 1) |-> IF i = m + 1 THEN step[m + 1][f[m]] ELSE f[i]]
  <2>2. m + 1 \in 1..n /\ m + 1 \in 0..n BY <1>2
  <2>3. step[m + 1][f[m]] \in V BY <2>1, <2>2 DEF Follows
  <2>4. g \in [0..(m + 1) -> V] BY <2>1, <2>3 DEF Follows
  <2>5. g[0] = start BY <2>1 DEF Follows
  <2>6. ASSUME NEW i \in 1..(m + 1) PROVE g[i] = step[i][g[i - 1]]
    BY <2>1 DEF Follows
  <2>7. Follows(g, V, start, m + 1, step) BY <2>4, <2>5, <2>6 DEF Follows
  <2> HIDE DEF g
  <2> QED BY <2>2, <2>7
<1>3. \A i \in 0..n : i \in Good
  <2> HIDE DEF Good
  <2> QED BY <1>1, <1>2, UpTo
<1>4. n \in Good BY <1>3
<1> QED BY <1>4

-----------------------------------------------------------------------------
(***************************************************************************)
(* Sequences put one after the other                                       *)
(***************************************************************************)
\* The first m of some sequences, one after the other.
Joined(f, T, s) ==
  /\ f \in [0..Len(s) -> Seq(T)]
  /\ f[0] = <<>>
  /\ \A i \in 1..Len(s) : f[i] = f[i - 1] \o s[i]

LEMMA JoinedExists ==
  ASSUME NEW T, NEW s \in Seq(Seq(T))
  PROVE  \E f : Joined(f, T, s)
<1> DEFINE V == Seq(T)
           n == Len(s)
           step == [i \in 1..n |-> [q \in V |-> q \o s[i]]]
<1>1. n \in Nat /\ \A i \in 1..n : s[i] \in V OBVIOUS
<1>2. \A i \in 1..n : \A q \in V : q \o s[i] \in V BY <1>1
<1>3. <<>> \in V OBVIOUS
<1> HIDE DEF V, n
<1>4. step \in [1..n -> [V -> V]] BY <1>2
<1> HIDE DEF step
<1>5. PICK f : Follows(f, V, <<>>, n, step) BY <1>1, <1>3, <1>4, Recursion
<1>6. ASSUME NEW i \in 1..n PROVE f[i] = f[i - 1] \o s[i]
  <2>1. i - 1 \in 0..n BY <1>1
  <2>2. f[i - 1] \in V BY <1>5, <2>1 DEF Follows
  <2>3. step[i][f[i - 1]] = f[i - 1] \o s[i] BY <2>2 DEF step
  <2> QED BY <1>5, <2>3 DEF Follows
<1>7. f \in [0..n -> V] /\ f[0] = <<>> BY <1>5 DEF Follows
<1> QED BY <1>6, <1>7 DEF Joined, n, V

\* FlattenSeq is the last of them.
LEMMA FlattenJoined ==
  ASSUME NEW T, NEW s \in Seq(Seq(T)), NEW f, Joined(f, T, s)
  PROVE  FlattenSeq(s) = f[Len(s)]
<1> DEFINE n == Len(s)
           Is(g) == g = [i \in 1..n |-> IF i = 1 THEN s[i] ELSE g[i - 1] \o s[i]]
<1>1. n \in Nat /\ \A i \in 1..n : s[i] \in Seq(T) OBVIOUS
<1>2. /\ f \in [0..n -> Seq(T)] /\ f[0] = <<>>
      /\ \A i \in 1..n : f[i] = f[i - 1] \o s[i]
  BY DEF Joined
<1>3. CASE n = 0
  BY <1>3, <1>2 DEF FlattenSeq
<1>4. CASE n # 0
  <2> DEFINE h == [i \in 1..n |-> f[i]]
  <2>0. 1 \in 1..n /\ n \in 1..n BY <1>1, <1>4
  <2>1. f[1] = s[1]
    <3>0. 1 - 1 = 0 OBVIOUS
    <3>1. f[1] = f[0] \o s[1]
      <4> HIDE DEF n
      <4> QED BY <1>2, <2>0, <3>0
    <3>2. s[1] \in Seq(T) BY <1>1, <2>0
    <3> QED BY <1>2, <3>1, <3>2
  <2>2. \A i \in 1..n : h[i] = IF i = 1 THEN s[i] ELSE h[i - 1] \o s[i]
    <3> TAKE i \in 1..n
    <3>1. CASE i = 1 BY <2>1, <3>1
    <3>2. CASE i # 1
      <4>1. i - 1 \in 1..n BY <1>1, <3>2
      <4> QED BY <1>2, <3>2, <4>1
    <3> QED BY <3>1, <3>2
  <2>3. Is(h)
    <3> HIDE DEF n
    <3> QED BY <2>2
  <2>4. \E g : Is(g)
    <3> HIDE DEF h, Is
    <3> QED BY <2>3
  <2> DEFINE flatten == CHOOSE g : Is(g)
  <2>5. Is(flatten)
    <3> HIDE DEF Is
    <3> QED BY <2>4
  <2>6. ASSUME NEW g, Is(g) PROVE g[n] = f[n]
    <3> DEFINE Good == {m \in 0..n : m = 0 \/ g[m] = f[m]}
    <3>1. 0 \in Good BY <1>1
    <3>0. \A i \in 1..n : g[i] = IF i = 1 THEN s[i] ELSE g[i - 1] \o s[i]
      <4>1. g = [i \in 1..n |-> IF i = 1 THEN s[i] ELSE g[i - 1] \o s[i]] BY <2>6
      <4> HIDE DEF n, Is
      <4> QED BY <4>1
    <3> HIDE DEF Is
    <3>2. ASSUME NEW m \in 0..n, m \in Good, m # n PROVE m + 1 \in Good
      <4>1. m + 1 \in 1..n /\ m + 1 \in 0..n /\ (m + 1) - 1 = m BY <1>1, <3>2
      <4>2. CASE m = 0
        BY <3>0, <2>0, <2>1, <4>1, <4>2
      <4>3. CASE m # 0
        <5>1. m + 1 # 1 BY <1>1, <4>3
        <5>2. g[m + 1] = g[m] \o s[m + 1] BY <3>0, <4>1, <5>1
        <5>3. f[m + 1] = f[m] \o s[m + 1] BY <1>2, <4>1
        <5> QED BY <3>2, <4>1, <4>3, <5>2, <5>3
      <4> QED BY <4>2, <4>3
    <3>3. \A i \in 0..n : i \in Good
      <4> HIDE DEF Good, n
      <4> QED BY <1>1, <3>1, <3>2, UpTo
    <3> QED BY <1>1, <1>4, <3>3
  <2>7. FlattenSeq(s) = flatten[n] BY <1>4 DEF FlattenSeq
  <2>8. flatten[n] = f[n]
    <3> HIDE DEF flatten, Is, n
    <3> QED BY <2>5, <2>6
  <2> QED BY <2>7, <2>8
<1> QED BY <1>3, <1>4

\* The first m of the sequences joined are the joined first m.
LEMMA JoinedFirst ==
  ASSUME NEW T, NEW s \in Seq(Seq(T)), NEW f, Joined(f, T, s), NEW m \in 0..Len(s)
  PROVE  /\ SubSeq(s, 1, m) \in Seq(Seq(T))
         /\ FlattenSeq(SubSeq(s, 1, m)) = f[m]
<1> DEFINE t == SubSeq(s, 1, m)
           g == [i \in 0..m |-> f[i]]
<1>1. t \in Seq(Seq(T)) /\ Len(t) = m /\ \A i \in 1..m : t[i] = s[i]
  BY SubSeqProperties
<1> HIDE DEF t
<1>2. \A i \in 1..m : i \in 1..Len(s) /\ i - 1 \in 0..m OBVIOUS
<1>3. Joined(g, T, t)
  <2>1. /\ f \in [0..Len(s) -> Seq(T)] /\ f[0] = <<>>
        /\ \A i \in 1..Len(s) : f[i] = f[i - 1] \o s[i]
    BY DEF Joined
  <2>2. g \in [0..m -> Seq(T)] BY <2>1
  <2>3. g[0] = <<>> BY <2>1
  <2>4. ASSUME NEW i \in 1..m PROVE g[i] = g[i - 1] \o t[i]
    <3>1. i \in 1..Len(s) /\ i - 1 \in 0..m /\ i \in 0..m OBVIOUS
    <3>2. g[i] = f[i] /\ g[i - 1] = f[i - 1] BY <3>1
    <3>3. f[i] = f[i - 1] \o s[i] BY <2>1, <3>1
    <3> QED BY <1>1, <3>2, <3>3
  <2> HIDE DEF g
  <2> QED BY <1>1, <2>2, <2>3, <2>4 DEF Joined
<1>4. FlattenSeq(t) = g[m] BY <1>1, <1>3, FlattenJoined
<1> QED BY <1>1, <1>4 DEF t

-----------------------------------------------------------------------------
(***************************************************************************)
(* Buffers and what editing makes of them                                  *)
(***************************************************************************)
-----------------------------------------------------------------------------
\* An entry shows its symbols, an output of the table or the model, or what was
\* picked; composed it is one character, and no reading shows a conversion.
Plain == {"symbol", "local", "model", "picked"}

EntryOK(e) ==
  /\ e \in Entry
  /\ \A k \in DOMAIN e.text : e.text[k][1] \in Plain
  /\ IsCompositable(e) => Len(e.text) = 1
  /\ ~IsCompositable(e) => ~e.pending /\ \A k \in DOMAIN e.text : e.text[k][1] # "model"

Distinct(entries) ==
  \A i, j \in DOMAIN entries : entries[i].id = entries[j].id => i = j

BufferOK(b) ==
  /\ b \in Buffer
  /\ b.caret <= Len(b.entries)
  /\ \A i \in DOMAIN b.entries : EntryOK(b.entries[i]) /\ b.entries[i].id < b.nextId
  /\ Distinct(b.entries)

\* The entry f is what became of e: a newer version of it, which shows no
\* conversion yet, or e as it was converted.
Became(e, f) ==
  /\ e.id = f.id
  /\ \/ f.version > e.version /\ ~IsModel(f)
     \/ f.version = e.version /\ f.by = e.by /\ f.text = e.text

\* Editing makes new entries, and newer versions of those that were there.
Edited(b, after) ==
  /\ BufferOK(after)
  /\ b.nextId <= after.nextId
  /\ \A j \in DOMAIN after.entries :
       \/ after.entries[j].id >= b.nextId /\ ~IsModel(after.entries[j])
       \/ \E i \in DOMAIN b.entries : Became(b.entries[i], after.entries[j])

Forms == {"symbol", "toneless", "local", "model", "picked"}

LEMMA CharactersType ==
  ASSUME NEW form \in Forms, NEW e, e.id \in Nat, e.version \in Nat,
         NEW count \in Nat, NEW n \in Nat
  PROVE  /\ Characters(form, e, count, n) \in Seq(Letter)
         /\ DOMAIN Characters(form, e, count, n) = 1..count
         /\ \A k \in 1..count : Characters(form, e, count, n)[k][1] = form
<1> DEFINE c(k) == <<form, e.id, e.version, IF n = 0 THEN k ELSE n>>
<1>1. \A k \in 1..count : c(k) \in Letter BY DEF Letter, Forms
<1>2. \A k \in 1..count : c(k)[1] = form OBVIOUS
<1> HIDE DEF c
<1>3. [k \in 1..count |-> c(k)] \in Seq(Letter) BY <1>1
<1>4. Characters(form, e, count, n) = [k \in 1..count |-> c(k)] BY DEF Characters, c
<1> QED BY <1>2, <1>3, <1>4

LEMMA EditedSame == ASSUME NEW b, BufferOK(b) PROVE Edited(b, b)
BY DEF Edited, Became, BufferOK, Buffer

LEMMA EditedThen ==
  ASSUME NEW a, NEW b, NEW c, BufferOK(a), Edited(a, b), Edited(b, c)
  PROVE  Edited(a, c)
<1>1. BufferOK(b) /\ BufferOK(c) /\ a.nextId <= b.nextId /\ b.nextId <= c.nextId
  BY DEF Edited
<1>2. a.nextId \in Nat /\ b.nextId \in Nat /\ c.nextId \in Nat
  BY <1>1 DEF BufferOK, Buffer
<1>3. a.nextId <= c.nextId BY <1>1, <1>2
<1>4. ASSUME NEW j \in DOMAIN c.entries
      PROVE  \/ c.entries[j].id >= a.nextId /\ ~IsModel(c.entries[j])
             \/ \E i \in DOMAIN a.entries : Became(a.entries[i], c.entries[j])
  <2> DEFINE f == c.entries[j]
  <2>1. f \in Entry BY <1>1 DEF BufferOK, EntryOK
  <2>2. f.id \in Nat /\ f.version \in Nat BY <2>1 DEF Entry
  <2>3. CASE f.id >= b.nextId /\ ~IsModel(f) BY <1>1, <1>2, <2>2, <2>3
  <2>4. ASSUME NEW k \in DOMAIN b.entries, Became(b.entries[k], f) PROVE
             \/ f.id >= a.nextId /\ ~IsModel(f)
             \/ \E i \in DOMAIN a.entries : Became(a.entries[i], f)
    <3> DEFINE e == b.entries[k]
    <3>1. e \in Entry BY <1>1 DEF BufferOK, EntryOK
    <3>2. e.id \in Nat /\ e.version \in Nat BY <3>1 DEF Entry
    <3>3. ~IsModel(e) => ~IsModel(f) BY <2>4 DEF Became, IsModel
    <3>4. CASE e.id >= a.nextId /\ ~IsModel(e) BY <2>4, <3>3, <3>4 DEF Became
    <3>5. CASE \E i \in DOMAIN a.entries : Became(a.entries[i], e)
      <4>1. PICK i \in DOMAIN a.entries : Became(a.entries[i], e) BY <3>5
      <4>2. a.entries[i] \in Entry BY DEF BufferOK, EntryOK
      <4>3. a.entries[i].version \in Nat BY <4>2 DEF Entry
      <4>4. Became(a.entries[i], f)
        BY <2>2, <2>4, <3>2, <3>3, <4>1, <4>3 DEF Became
      <4> QED BY <4>4
    <3> QED BY <3>4, <3>5 DEF Edited
  <2> QED BY <2>3, <2>4 DEF Edited
<1> QED BY <1>1, <1>3, <1>4 DEF Edited

-----------------------------------------------------------------------------
(***************************************************************************)
(* Changes of a sequence                                                   *)
(***************************************************************************)
\* Putting an element into a sequence and taking one out.
LEMMA InsertAtFacts ==
  ASSUME NEW T, NEW s \in Seq(T), NEW i \in 1..(Len(s) + 1), NEW x \in T
  PROVE  /\ InsertAt(s, i, x) \in Seq(T)
         /\ Len(InsertAt(s, i, x)) = Len(s) + 1
         /\ \A j \in 1..(Len(s) + 1) :
              InsertAt(s, i, x)[j] = IF j < i THEN s[j] ELSE IF j = i THEN x ELSE s[j - 1]
<1> DEFINE n == Len(s)
           front == SubSeq(s, 1, i - 1)
           back == SubSeq(s, i, n)
           t == front \o <<x>>
<1>1. n \in Nat /\ i \in Int /\ \A k \in 1..n : s[k] \in T OBVIOUS
<1>2. front \in Seq(T) /\ Len(front) = i - 1 /\ \A j \in 1..(i - 1) : front[j] = s[j]
  BY <1>1, SubSeqProperties
<1>3. back \in Seq(T) /\ Len(back) = n - i + 1 /\ \A j \in 1..(n - i + 1) : back[j] = s[i + j - 1]
  BY <1>1, SubSeqProperties
<1> HIDE DEF front, back, n
<1>4. /\ t \in Seq(T) /\ Len(t) = i
      /\ \A j \in 1..i : t[j] = IF j < i THEN s[j] ELSE x
  <2>1. <<x>> \in Seq(T) /\ Len(<<x>>) = 1 /\ <<x>>[1] = x OBVIOUS
  <2>2. /\ t \in Seq(T) /\ Len(t) = Len(front) + Len(<<x>>)
        /\ \A j \in 1..(Len(front) + Len(<<x>>)) :
             t[j] = IF j <= Len(front) THEN front[j] ELSE <<x>>[j - Len(front)]
    BY <1>2, <2>1, ConcatProperties
  <2> HIDE DEF t
  <2>3. ASSUME NEW j \in 1..i PROVE t[j] = IF j < i THEN s[j] ELSE x
    BY <1>1, <1>2, <2>1, <2>2
  <2> QED BY <1>1, <1>2, <2>1, <2>2, <2>3
<1> HIDE DEF t
<1>5. /\ t \o back \in Seq(T) /\ Len(t \o back) = n + 1
      /\ \A j \in 1..(n + 1) : (t \o back)[j] = IF j <= i THEN t[j] ELSE back[j - i]
  BY <1>3, <1>4, ConcatProperties, <1>1
<1>6. InsertAt(s, i, x) = t \o back BY DEF InsertAt, t, front, back, n
<1>7. ASSUME NEW j \in 1..(n + 1)
      PROVE (t \o back)[j] = IF j < i THEN s[j] ELSE IF j = i THEN x ELSE s[j - 1]
  <2>1. CASE j <= i BY <1>4, <1>5, <2>1
  <2>2. CASE j > i
    BY <1>1, <2>2, <1>5, <1>3
  <2>3. j <= i \/ j > i BY <1>1
  <2> QED BY <2>1, <2>2, <2>3
<1> QED BY <1>5, <1>6, <1>7 DEF n

LEMMA RemoveAtFacts ==
  ASSUME NEW T, NEW s \in Seq(T), NEW i \in 1..Len(s)
  PROVE  /\ RemoveAt(s, i) \in Seq(T)
         /\ Len(RemoveAt(s, i)) = Len(s) - 1
         /\ \A j \in 1..(Len(s) - 1) :
              RemoveAt(s, i)[j] = IF j < i THEN s[j] ELSE s[j + 1]
<1> DEFINE n == Len(s)
           front == SubSeq(s, 1, i - 1)
           back == SubSeq(s, i + 1, n)
<1>1. n \in Nat /\ i \in Int /\ \A k \in 1..n : s[k] \in T OBVIOUS
<1>2. front \in Seq(T) /\ Len(front) = i - 1 /\ \A j \in 1..(i - 1) : front[j] = s[j]
  BY <1>1, SubSeqProperties
<1>3. back \in Seq(T) /\ Len(back) = n - i /\ \A j \in 1..(n - i) : back[j] = s[i + j]
  <2>1. \A k \in (i + 1)..n : s[k] \in T BY <1>1
  <2>2. i + 1 \in Int /\ n - (i + 1) + 1 = n - i BY <1>1
  <2>3. /\ back \in Seq(T) /\ Len(back) = IF i + 1 <= n THEN n - (i + 1) + 1 ELSE 0
        /\ \A j \in 1..(n - (i + 1) + 1) : back[j] = s[i + 1 + j - 1]
    BY <1>1, <2>1, <2>2, SubSeqProperties
  <2> HIDE DEF back
  <2> QED BY <1>1, <2>3
<1> HIDE DEF front, back, n
<1>5. /\ front \o back \in Seq(T) /\ Len(front \o back) = n - 1
      /\ \A j \in 1..(n - 1) : (front \o back)[j] = IF j <= i - 1 THEN front[j] ELSE back[j - (i - 1)]
  <2>1. /\ front \o back \in Seq(T) /\ Len(front \o back) = Len(front) + Len(back)
        /\ \A j \in 1..(Len(front) + Len(back)) :
             (front \o back)[j] = IF j <= Len(front) THEN front[j] ELSE back[j - Len(front)]
    BY <1>2, <1>3, ConcatProperties
  <2>2. Len(front) + Len(back) = n - 1 BY <1>1, <1>2, <1>3
  <2> QED BY <1>2, <2>1, <2>2
<1>6. RemoveAt(s, i) = front \o back BY DEF RemoveAt, front, back, n
<1>7. ASSUME NEW j \in 1..(n - 1)
      PROVE (front \o back)[j] = IF j < i THEN s[j] ELSE s[j + 1]
  BY <1>1, <1>2, <1>5, <1>3
<1> QED BY <1>5, <1>6, <1>7 DEF n

-----------------------------------------------------------------------------
(***************************************************************************)
(* The editing operators of the buffer                                     *)
(***************************************************************************)
LEMMA BufferRecord ==
  ASSUME NEW b, BufferOK(b)
  PROVE  b = [entries |-> b.entries, caret |-> b.caret, revision |-> b.revision,
              nextId |-> b.nextId]
BY DEF BufferOK, Buffer

LEMMA BufferExcept ==
  ASSUME NEW b, BufferOK(b), NEW s, NEW c, NEW r
  PROVE  /\ [b EXCEPT !.entries = s, !.caret = c, !.revision = r] =
              [entries |-> s, caret |-> c, revision |-> r, nextId |-> b.nextId]
         /\ [b EXCEPT !.entries = s, !.revision = r] =
              [entries |-> s, caret |-> b.caret, revision |-> r, nextId |-> b.nextId]
         /\ [b EXCEPT !.entries = s] =
              [entries |-> s, caret |-> b.caret, revision |-> b.revision, nextId |-> b.nextId]
         /\ [b EXCEPT !.caret = c] =
              [entries |-> b.entries, caret |-> c, revision |-> b.revision, nextId |-> b.nextId]
<1>1. PICK q, k, v, y : b = [entries |-> q, caret |-> k, revision |-> v, nextId |-> y]
  BY BufferRecord
<1>3. [b EXCEPT !.entries = s, !.caret = c, !.revision = r] =
        [entries |-> s, caret |-> c, revision |-> r, nextId |-> b.nextId]
  <2> DEFINE f == [b EXCEPT !.entries = s, !.caret = c, !.revision = r]
  <2>1. DOMAIN f = {"entries", "caret", "revision", "nextId"} BY <1>1
  <2>2. f.entries = s /\ f.caret = c /\ f.revision = r /\ f.nextId = b.nextId
    BY <1>1
  <2>3. f = [i \in DOMAIN f |-> f[i]] BY <1>1
  <2> HIDE DEF f
  <2>4. f = [entries |-> s, caret |-> c, revision |-> r, nextId |-> b.nextId]
    BY <2>1, <2>2, <2>3
  <2> QED BY <2>4 DEF f
<1>4. [b EXCEPT !.entries = s, !.revision = r] =
        [entries |-> s, caret |-> b.caret, revision |-> r, nextId |-> b.nextId]
  <2> DEFINE f == [b EXCEPT !.entries = s, !.revision = r]
  <2>1. DOMAIN f = {"entries", "caret", "revision", "nextId"} BY <1>1
  <2>2. f.entries = s /\ f.caret = b.caret /\ f.revision = r /\ f.nextId = b.nextId
    BY <1>1
  <2>3. f = [i \in DOMAIN f |-> f[i]] BY <1>1
  <2> HIDE DEF f
  <2>4. f = [entries |-> s, caret |-> b.caret, revision |-> r, nextId |-> b.nextId]
    BY <2>1, <2>2, <2>3
  <2> QED BY <2>4 DEF f
<1>5. [b EXCEPT !.entries = s] =
        [entries |-> s, caret |-> b.caret, revision |-> b.revision, nextId |-> b.nextId]
  BY <1>1
<1>6. [b EXCEPT !.caret = c] =
        [entries |-> b.entries, caret |-> c, revision |-> b.revision, nextId |-> b.nextId]
  BY <1>1
<1> QED BY <1>3, <1>4, <1>5, <1>6

LEMMA BufferParts ==
  ASSUME NEW b, BufferOK(b)
  PROVE  /\ b \in Buffer /\ b.entries \in Seq(Entry) /\ b.nextId \in Nat \ {0}
         /\ b.revision \in Nat /\ b.caret \in 0..Len(b.entries) /\ Len(b.entries) \in Nat
         /\ DOMAIN b.entries = 1..Len(b.entries)
         /\ \A i \in 1..Len(b.entries) : EntryOK(b.entries[i]) /\ b.entries[i].id < b.nextId
         /\ \A i, j \in 1..Len(b.entries) : b.entries[i].id = b.entries[j].id => i = j
BY DEF BufferOK, Buffer, Distinct

\* A buffer made of such parts.
LEMMA BufferMade ==
  ASSUME NEW s \in Seq(Entry), NEW caret \in 0..Len(s), NEW revision \in Nat,
         NEW nextId \in Nat \ {0},
         \A i \in 1..Len(s) : EntryOK(s[i]) /\ s[i].id < nextId,
         \A i, j \in 1..Len(s) : s[i].id = s[j].id => i = j,
         NEW b, b = [entries |-> s, caret |-> caret, revision |-> revision, nextId |-> nextId]
  PROVE  BufferOK(b)
BY DEF Buffer, BufferOK, Distinct

LEMMA InsertEdited ==
  ASSUME NEW b, BufferOK(b), NEW e, EntryOK(e), e.id = b.nextId, ~IsModel(e)
  PROVE  Edited(b, InsertAfterCaret(b, e))
<1> DEFINE n == Len(b.entries)
           s == InsertAt(b.entries, b.caret + 1, e)
           after == InsertAfterCaret(b, e)
<1>1. /\ b \in Buffer /\ b.entries \in Seq(Entry) /\ b.nextId \in Nat \ {0}
      /\ b.revision \in Nat /\ b.caret \in 0..n /\ n \in Nat /\ DOMAIN b.entries = 1..n
      /\ \A i \in 1..n : EntryOK(b.entries[i]) /\ b.entries[i].id < b.nextId
      /\ \A i, j \in 1..n : b.entries[i].id = b.entries[j].id => i = j
  BY BufferParts
<1>2. e \in Entry /\ b.caret + 1 \in 1..(n + 1) BY <1>1 DEF EntryOK
<1>3. /\ s \in Seq(Entry) /\ Len(s) = n + 1
      /\ \A j \in 1..(n + 1) : s[j] = IF j < b.caret + 1 THEN b.entries[j]
                                      ELSE IF j = b.caret + 1 THEN e ELSE b.entries[j - 1]
  <2>1. PICK at \in 1..(n + 1) : at = b.caret + 1 BY <1>2
  <2>2. PICK q \in Seq(Entry) : q = b.entries BY <1>1
  <2>0. at \in 1..(Len(q) + 1) /\ e \in Entry BY <1>2, <2>1, <2>2
  <2> DEFINE t == InsertAt(q, at, e)
  <2>3. /\ t \in Seq(Entry) /\ Len(t) = Len(q) + 1
        /\ \A j \in 1..(Len(q) + 1) : t[j] = IF j < at THEN q[j] ELSE IF j = at THEN e ELSE q[j - 1]
    <3>1. PICK T : T = Entry OBVIOUS
    <3>2. q \in Seq(T) /\ at \in 1..(Len(q) + 1) /\ e \in T BY <2>0, <3>1
    <3>3. /\ InsertAt(q, at, e) \in Seq(T) /\ Len(InsertAt(q, at, e)) = Len(q) + 1
          /\ \A j \in 1..(Len(q) + 1) :
               InsertAt(q, at, e)[j] = IF j < at THEN q[j] ELSE IF j = at THEN e ELSE q[j - 1]
      BY <3>2, InsertAtFacts
    <3> QED BY <3>1, <3>3
  <2> HIDE DEF t
  <2>4. s = t BY <2>1, <2>2 DEF t
  <2> HIDE DEF s
  <2> QED BY <2>1, <2>2, <2>3, <2>4
<1>4. after = [entries |-> s, caret |-> b.caret + 1, revision |-> b.revision + 1,
               nextId |-> b.nextId + 1]
  <2>1. PICK q, k, v, y : b = [entries |-> q, caret |-> k, revision |-> v, nextId |-> y]
    BY BufferRecord
  <2> HIDE DEF s
  <2>2. after = [b EXCEPT !.entries = s, !.caret = b.caret + 1, !.revision = b.revision + 1,
                          !.nextId = b.nextId + 1]
    BY DEF InsertAfterCaret, s
  <2>3. DOMAIN after = {"entries", "caret", "revision", "nextId"} BY <2>1, <2>2
  <2>4. after.entries = s /\ after.caret = b.caret + 1 BY <2>1, <2>2
  <2>5. after.revision = b.revision + 1 /\ after.nextId = b.nextId + 1 BY <2>1, <2>2
  <2>6. after = [i \in DOMAIN after |-> after[i]] BY <2>1, <2>2
  <2> HIDE DEF after
  <2> QED BY <2>3, <2>4, <2>5, <2>6
<1> HIDE DEF n, s, after
<1>5. \A j \in 1..(n + 1) : \/ j = b.caret + 1 /\ s[j] = e
                            \/ j < b.caret + 1 /\ j \in 1..n /\ s[j] = b.entries[j]
                            \/ j > b.caret + 1 /\ j - 1 \in 1..n /\ s[j] = b.entries[j - 1]
  BY <1>1, <1>3
<1>6. \A j \in 1..(n + 1) : EntryOK(s[j]) /\ s[j].id < b.nextId + 1
  <2> TAKE j \in 1..(n + 1)
  <2>1. CASE j = b.caret + 1
    <3>1. s[j] = e BY <1>1, <1>5, <2>1
    <3> QED BY <1>1, <3>1
  <2>2. CASE j # b.caret + 1
    <3>1. PICK i \in 1..n : s[j] = b.entries[i] BY <1>1, <1>5, <2>2
    <3>2. EntryOK(s[j]) /\ s[j].id < b.nextId BY <1>1, <3>1
    <3>3. s[j].id \in Nat BY <3>2 DEF EntryOK, Entry
    <3> QED BY <1>1, <3>2, <3>3
  <2> QED BY <2>1, <2>2
<1>7. \A i, j \in 1..(n + 1) : s[i].id = s[j].id => i = j
  <2> SUFFICES ASSUME NEW i \in 1..(n + 1), NEW j \in 1..(n + 1), s[i].id = s[j].id
               PROVE i = j
    OBVIOUS
  <2>1. \A k \in 1..n : b.entries[k].id \in Nat /\ b.entries[k].id # e.id
    <3> TAKE k \in 1..n
    <3>1. b.entries[k].id < b.nextId /\ b.entries[k] \in Entry BY <1>1 DEF EntryOK
    <3>2. b.entries[k].id \in Nat BY <3>1 DEF Entry
    <3> QED BY <1>1, <3>1, <3>2
  <2>2. i = b.caret + 1 <=> s[i].id = e.id BY SMTT(20), <1>1, <1>5, <2>1
  <2>3. j = b.caret + 1 <=> s[j].id = e.id BY <1>1, <1>5, <2>1
  <2>4. CASE i = b.caret + 1 BY <2>2, <2>3, <2>4
  <2>5. CASE i # b.caret + 1
    <3>1. j # b.caret + 1 BY <2>2, <2>3, <2>5
    <3> DEFINE k == IF i < b.caret + 1 THEN i ELSE i - 1
               l == IF j < b.caret + 1 THEN j ELSE j - 1
    <3>2. k \in 1..n /\ s[i] = b.entries[k] BY <1>1, <1>5, <2>5
    <3>3. l \in 1..n /\ s[j] = b.entries[l] BY <1>1, <1>5, <3>1
    <3>4. k = l
      <4> HIDE DEF k, l
      <4> QED BY <1>1, <3>2, <3>3
    <3> QED BY <1>1, <2>5, <3>1, <3>4
  <2> QED BY <2>4, <2>5
<1>8. BufferOK(after)
  <2>1. b.caret + 1 \in 0..Len(s) /\ b.revision + 1 \in Nat /\ b.nextId + 1 \in Nat \ {0}
    BY <1>1, <1>3
  <2> QED BY <1>3, <1>4, <1>6, <1>7, <2>1, BufferMade
<1>9. ASSUME NEW j \in DOMAIN after.entries
      PROVE  \/ after.entries[j].id >= b.nextId /\ ~IsModel(after.entries[j])
             \/ \E i \in DOMAIN b.entries : Became(b.entries[i], after.entries[j])
  <2>1. after.entries = s /\ j \in 1..(n + 1) BY <1>3, <1>4, <1>9
  <2>2. CASE j = b.caret + 1
    <3>1. s[j] = e BY <1>5, <2>1, <2>2
    <3> QED BY <1>1, <2>1, <3>1
  <2>3. CASE j # b.caret + 1
    <3>1. PICK i \in 1..n : s[j] = b.entries[i] BY <1>1, <1>5, <2>1, <2>3
    <3>2. Became(b.entries[i], s[j]) BY <3>1 DEF Became
    <3> QED BY <1>1, <2>1, <3>2
  <2> QED BY <2>2, <2>3
<1>10. b.nextId <= after.nextId BY <1>1, <1>4
<1> QED BY <1>8, <1>9, <1>10 DEF Edited, after

LEMMA EraseEdited ==
  ASSUME NEW b, BufferOK(b), OnEntry(b)
  PROVE  Edited(b, EraseAtCaret(b))
<1> DEFINE n == Len(b.entries)
           s == RemoveAt(b.entries, b.caret)
           after == EraseAtCaret(b)
<1>1. /\ b \in Buffer /\ b.entries \in Seq(Entry) /\ b.nextId \in Nat \ {0}
      /\ b.revision \in Nat /\ b.caret \in 0..n /\ n \in Nat /\ DOMAIN b.entries = 1..n
      /\ \A i \in 1..n : EntryOK(b.entries[i]) /\ b.entries[i].id < b.nextId
      /\ \A i, j \in 1..n : b.entries[i].id = b.entries[j].id => i = j
  BY BufferParts
<1>2. b.caret \in 1..n BY <1>1 DEF OnEntry
<1>3. /\ s \in Seq(Entry) /\ Len(s) = n - 1
      /\ \A j \in 1..(n - 1) : s[j] = IF j < b.caret THEN b.entries[j] ELSE b.entries[j + 1]
  <2>1. PICK at \in 1..n : at = b.caret BY <1>2
  <2>2. PICK q \in Seq(Entry) : q = b.entries BY <1>1
  <2> DEFINE t == RemoveAt(q, at)
  <2>3. /\ t \in Seq(Entry) /\ Len(t) = Len(q) - 1
        /\ \A j \in 1..(Len(q) - 1) : t[j] = IF j < at THEN q[j] ELSE q[j + 1]
    BY <2>1, <2>2, RemoveAtFacts
  <2> HIDE DEF t
  <2>4. s = t BY <2>1, <2>2 DEF t
  <2> HIDE DEF s
  <2> QED BY <2>1, <2>2, <2>3, <2>4
<1>4. after = [entries |-> s, caret |-> b.caret - 1, revision |-> b.revision + 1,
               nextId |-> b.nextId]
  <2>1. after = [b EXCEPT !.entries = s, !.caret = b.caret - 1, !.revision = b.revision + 1]
    BY DEF EraseAtCaret
  <2> HIDE DEF s, after
  <2> QED BY <2>1, BufferExcept
<1> HIDE DEF n, s, after
<1> DEFINE at(j) == IF j < b.caret THEN j ELSE j + 1
<1>5. \A j \in 1..(n - 1) : at(j) \in 1..n /\ s[j] = b.entries[at(j)] BY <1>1, <1>2, <1>3
<1>6. \A i, j \in 1..(n - 1) : at(i) = at(j) => i = j BY <1>1, <1>2
<1> HIDE DEF at
<1>7. \A j \in 1..(n - 1) : EntryOK(s[j]) /\ s[j].id < b.nextId BY <1>1, <1>5
<1>8. \A i, j \in 1..(n - 1) : s[i].id = s[j].id => i = j BY <1>1, <1>5, <1>6
<1>9. BufferOK(after)
  <2>1. b.caret - 1 \in 0..Len(s) /\ b.revision + 1 \in Nat BY <1>1, <1>2, <1>3
  <2> QED BY <1>1, <1>3, <1>4, <1>7, <1>8, <2>1, BufferMade
<1>10. ASSUME NEW j \in DOMAIN after.entries
       PROVE  \E i \in DOMAIN b.entries : Became(b.entries[i], after.entries[j])
  <2>1. after.entries = s /\ j \in 1..(n - 1) BY <1>3, <1>4, <1>10
  <2>2. Became(b.entries[at(j)], s[j]) BY <1>5, <2>1 DEF Became
  <2> QED BY <1>1, <1>5, <2>1, <2>2
<1>11. b.nextId <= after.nextId BY <1>1, <1>4
<1> QED BY <1>9, <1>10, <1>11 DEF Edited, after

\* A new version of the entry at the caret.
LEMMA EditEdited ==
  ASSUME NEW b, BufferOK(b), OnEntry(b), NEW e, EntryOK(e), e.id = Current(b).id,
         e.version > Current(b).version, ~IsModel(e)
  PROVE  Edited(b, EditAtCaret(b, e))
<1> DEFINE n == Len(b.entries)
           s == [b.entries EXCEPT ![b.caret] = e]
           after == EditAtCaret(b, e)
<1>1. /\ b \in Buffer /\ b.entries \in Seq(Entry) /\ b.nextId \in Nat \ {0}
      /\ b.revision \in Nat /\ b.caret \in 0..n /\ n \in Nat /\ DOMAIN b.entries = 1..n
      /\ \A i \in 1..n : EntryOK(b.entries[i]) /\ b.entries[i].id < b.nextId
      /\ \A i, j \in 1..n : b.entries[i].id = b.entries[j].id => i = j
  BY BufferParts
<1>2. b.caret \in 1..n /\ e \in Entry BY <1>1 DEF OnEntry, EntryOK
<1>3. /\ s \in Seq(Entry) /\ Len(s) = n
      /\ \A j \in 1..n : s[j] = IF j = b.caret THEN e ELSE b.entries[j]
  BY <1>1, <1>2, ExceptSeq
<1>4. after = [entries |-> s, caret |-> b.caret, revision |-> b.revision + 1,
               nextId |-> b.nextId]
  <2>1. after = [b EXCEPT !.entries = s, !.revision = b.revision + 1]
    BY DEF EditAtCaret
  <2> HIDE DEF s, after
  <2> QED BY <2>1, BufferExcept
<1>5. e.id = b.entries[b.caret].id /\ e.version > b.entries[b.caret].version BY DEF Current
<1> HIDE DEF n, s, after
<1>6. \A j \in 1..n : s[j].id = b.entries[j].id BY <1>3, <1>5
<1>7. \A j \in 1..n : EntryOK(s[j]) /\ s[j].id < b.nextId BY <1>1, <1>3, <1>6
<1>8. \A i, j \in 1..n : s[i].id = s[j].id => i = j BY <1>1, <1>6
<1>9. BufferOK(after)
  <2>1. b.caret \in 0..Len(s) /\ b.revision + 1 \in Nat BY <1>1, <1>2, <1>3
  <2> QED BY <1>1, <1>3, <1>4, <1>7, <1>8, <2>1, BufferMade
<1>10. ASSUME NEW j \in DOMAIN after.entries
       PROVE  \E i \in DOMAIN b.entries : Became(b.entries[i], after.entries[j])
  BY <1>3, <1>4, <1>10, <1>5, <1>1 DEF Became
<1>11. b.nextId <= after.nextId BY <1>1, <1>4
<1> QED BY <1>9, <1>10, <1>11 DEF Edited, after

-----------------------------------------------------------------------------
(***************************************************************************)
(* Entries                                                                 *)
(***************************************************************************)
LEMMA EntryParts ==
  ASSUME NEW e \in Entry
  PROVE  /\ e.id \in Nat \ {0} /\ e.version \in Nat /\ e.symbols \in Nat /\ e.pending \in BOOLEAN
         /\ e.by \in Nat /\ e.text \in Seq(Letter)
         /\ e.kind \in {"reading", "invalid", "syllable", "fixed"}
         /\ DOMAIN e = {"id", "version", "kind", "symbols", "pending", "by", "text"}
BY DEF Entry

LEMMA EntryMade ==
  ASSUME NEW f,
         DOMAIN f = {"id", "version", "kind", "symbols", "pending", "by", "text"},
         f = [i \in DOMAIN f |-> f[i]],
         f.id \in Nat \ {0}, f.version \in Nat, f.symbols \in Nat, f.pending \in BOOLEAN,
         f.by \in Nat, f.text \in Seq(Letter),
         f.kind \in {"reading", "invalid", "syllable", "fixed"}
  PROVE  f \in Entry
<1>1. f = [id |-> f.id, version |-> f.version, kind |-> f.kind, symbols |-> f.symbols,
           pending |-> f.pending, by |-> f.by, text |-> f.text]
  OBVIOUS
<1>2. PICK i \in Nat \ {0}, v \in Nat, k \in {"reading", "invalid", "syllable", "fixed"},
           s \in Nat, p \in BOOLEAN, b \in Nat, t \in Seq(Letter) :
        f = [id |-> i, version |-> v, kind |-> k, symbols |-> s, pending |-> p, by |-> b, text |-> t]
  BY <1>1
<1> QED BY <1>2 DEF Entry

LEMMA BlankOK ==
  ASSUME NEW id \in Nat \ {0}
  PROVE  /\ EntryOK(BlankEntry(id)) /\ BlankEntry(id).id = id /\ ~IsModel(BlankEntry(id))
         /\ BlankEntry(id).by = 0 /\ BlankEntry(id).symbols = 0 /\ BlankEntry(id).version = 0
<1> DEFINE f == BlankEntry(id)
<1>1. /\ f.id = id /\ f.version = 0 /\ f.kind = "reading" /\ f.symbols = 0 /\ f.pending = FALSE
      /\ f.by = 0 /\ f.text = <<>>
      /\ DOMAIN f = {"id", "version", "kind", "symbols", "pending", "by", "text"}
      /\ f = [i \in DOMAIN f |-> f[i]]
  BY DEF BlankEntry
<1>2. f.text \in Seq(Letter) BY <1>1
<1> HIDE DEF f
<1>3. f \in Entry
  <2>1. /\ f.id \in Nat \ {0} /\ f.version \in Nat /\ f.symbols \in Nat
        /\ f.by \in Nat /\ f.kind \in {"reading", "invalid", "syllable", "fixed"}
    BY <1>1
  <2>2. f.pending \in BOOLEAN BY <1>1, Zenon
  <2> QED BY <1>1, <1>2, <2>1, <2>2, EntryMade
<1>4. DOMAIN f.text = {} BY <1>1
<1>5. ~f.pending BY <1>1, Zenon
<1> QED BY <1>1, <1>3, <1>4, <1>5 DEF EntryOK, IsCompositable, IsModel, f

LEMMA NextVersionOK ==
  ASSUME NEW e, EntryOK(e)
  PROVE  /\ EntryOK(NextVersion(e)) /\ NextVersion(e).id = e.id
         /\ NextVersion(e).version = e.version + 1
         /\ NextVersion(e).kind = e.kind /\ NextVersion(e).symbols = e.symbols
         /\ NextVersion(e).by = e.by /\ NextVersion(e).text = e.text
<1> DEFINE f == NextVersion(e)
<1>1. e \in Entry BY DEF EntryOK
<1>2. /\ e.id \in Nat \ {0} /\ e.version \in Nat /\ e.symbols \in Nat /\ e.pending \in BOOLEAN
      /\ e.by \in Nat /\ e.text \in Seq(Letter)
      /\ e.kind \in {"reading", "invalid", "syllable", "fixed"}
      /\ DOMAIN e = {"id", "version", "kind", "symbols", "pending", "by", "text"}
  BY <1>1, EntryParts
<1>3. /\ f.id = e.id /\ f.version = e.version + 1 /\ f.kind = e.kind /\ f.symbols = e.symbols
      /\ f.pending = e.pending /\ f.by = e.by /\ f.text = e.text
      /\ DOMAIN f = DOMAIN e /\ f = [i \in DOMAIN f |-> f[i]]
  BY <1>2 DEF NextVersion
<1> HIDE DEF f
<1>4. f \in Entry BY <1>2, <1>3, EntryMade
<1> QED BY <1>3, <1>4 DEF EntryOK, IsCompositable, f

LEMMA PlainCharacters ==
  ASSUME NEW form \in Forms, NEW e, e.id \in Nat, e.version \in Nat, NEW count \in Nat
  PROVE  /\ Characters(form, e, count, 0) \in Seq(Letter)
         /\ DOMAIN Characters(form, e, count, 0) = 1..count
         /\ \A k \in 1..count : Characters(form, e, count, 0)[k][1] = form
<1>1. PICK n \in Nat : n = 0 OBVIOUS
<1>2. /\ Characters(form, e, count, n) \in Seq(Letter)
      /\ DOMAIN Characters(form, e, count, n) = 1..count
      /\ \A k \in 1..count : Characters(form, e, count, n)[k][1] = form
  BY CharactersType
<1> QED BY <1>1, <1>2

\* A reading, and what a key makes of one.
LEMMA ReadingOK ==
  ASSUME NEW e, EntryOK(e), NEW kind \in {"reading", "invalid"}, NEW count \in Nat
  PROVE  /\ EntryOK(Reading(e, kind, count)) /\ Reading(e, kind, count).id = e.id
         /\ Reading(e, kind, count).version = e.version
         /\ ~IsModel(Reading(e, kind, count))
<1> DEFINE f == Reading(e, kind, count)
           t == Characters("symbol", e, count, 0)
<1>1. e \in Entry BY DEF EntryOK
<1>2. /\ e.id \in Nat \ {0} /\ e.version \in Nat /\ e.symbols \in Nat /\ e.pending \in BOOLEAN
      /\ e.by \in Nat /\ e.text \in Seq(Letter)
      /\ e.kind \in {"reading", "invalid", "syllable", "fixed"}
      /\ DOMAIN e = {"id", "version", "kind", "symbols", "pending", "by", "text"}
  BY <1>1, EntryParts
<1>3. t \in Seq(Letter) /\ DOMAIN t = 1..count /\ \A k \in 1..count : t[k][1] = "symbol"
  <2>1. e.id \in Nat /\ e.version \in Nat /\ 0 \in Nat /\ "symbol" \in Forms
    BY <1>2 DEF Forms
  <2> QED BY <2>1, PlainCharacters
<1>4. f = [e EXCEPT !.kind = kind, !.symbols = count, !.pending = FALSE, !.by = 0, !.text = t]
  BY DEF Reading
<1> HIDE DEF t, f
<1>5. /\ f.id = e.id /\ f.version = e.version /\ f.kind = kind /\ f.symbols = count
      /\ f.pending = FALSE /\ f.by = 0 /\ f.text = t
  BY <1>2, <1>4
<1>6. DOMAIN f = DOMAIN e /\ f = [i \in DOMAIN f |-> f[i]] BY <1>2, <1>4
<1>7. f \in Entry
  <2>0. f.pending \in BOOLEAN BY <1>5, Zenon
  <2>1. /\ f.id \in Nat \ {0} /\ f.version \in Nat /\ f.symbols \in Nat
        /\ f.by \in Nat /\ f.kind \in {"reading", "invalid", "syllable", "fixed"}
        /\ f.text \in Seq(Letter)
    BY <1>2, <1>3, <1>5
  <2>2. DOMAIN f = {"id", "version", "kind", "symbols", "pending", "by", "text"}
        /\ f = [i \in DOMAIN f |-> f[i]]
    BY <1>2, <1>6
  <2> QED BY <2>0, <2>1, <2>2, EntryMade
<1>8. t = <<>> \/ t[1][1] = "symbol"
  BY <1>3
<1>9. ~f.pending BY <1>5, Zenon
<1>10. ~IsCompositable(f) /\ \A k \in DOMAIN f.text : f.text[k][1] = "symbol"
  BY <1>3, <1>5 DEF IsCompositable
<1> HIDE DEF f
<1>11. EntryOK(f) BY <1>7, <1>9, <1>10 DEF EntryOK, Plain
<1> QED BY <1>5, <1>8, <1>11 DEF IsModel, f

LEMMA OneCharacter ==
  ASSUME NEW e \in Entry, NEW form \in Forms
  PROVE  /\ Characters(form, e, 1, 0) \in Seq(Letter)
         /\ Characters(form, e, 1, 0) # <<>> /\ Len(Characters(form, e, 1, 0)) = 1
         /\ Characters(form, e, 1, 0)[1][1] = form
         /\ \A k \in DOMAIN Characters(form, e, 1, 0) : Characters(form, e, 1, 0)[k][1] = form
<1> DEFINE t == Characters(form, e, 1, 0)
<1>1. t \in Seq(Letter) /\ DOMAIN t = 1..1 /\ \A k \in 1..1 : t[k][1] = form
  <2>1. e.id \in Nat /\ e.version \in Nat BY EntryParts
  <2>2. PICK one \in Nat : one = 1 OBVIOUS
  <2>3. /\ Characters(form, e, one, 0) \in Seq(Letter)
        /\ DOMAIN Characters(form, e, one, 0) = 1..one
        /\ \A k \in 1..one : Characters(form, e, one, 0)[k][1] = form
    BY <2>1, PlainCharacters
  <2> QED BY <2>2, <2>3
<1> HIDE DEF t
<1> QED BY <1>1 DEF t

\* A composed entry shows one character.
LEMMA ComposedOK ==
  ASSUME NEW f \in Entry, IsCompositable(f), Len(f.text) = 1, f.text[1][1] \in Plain
  PROVE  EntryOK(f)
BY EntryParts DEF EntryOK

LEMMA AcceptOK ==
  ASSUME NEW e, EntryOK(e), NEW key \in Keys
  PROVE  /\ EntryOK(Accept(e, key)) /\ Accept(e, key).id = e.id
         /\ Accept(e, key).version = e.version /\ ~IsModel(Accept(e, key))
<1> DEFINE f == Accept(e, key)
<1>1. e \in Entry BY DEF EntryOK
<1>2. /\ e.id \in Nat \ {0} /\ e.version \in Nat /\ e.symbols \in Nat /\ e.pending \in BOOLEAN
      /\ e.by \in Nat /\ e.text \in Seq(Letter)
      /\ e.kind \in {"reading", "invalid", "syllable", "fixed"}
      /\ DOMAIN e = {"id", "version", "kind", "symbols", "pending", "by", "text"}
  BY <1>1, EntryParts
<1>3. CASE key \in {"extend", "replace", "unknown"}
  <2>1. e.symbols + 1 \in Nat BY <1>2
  <2>2. PICK kind \in {"reading", "invalid"}, count \in Nat : f = Reading(e, kind, count)
    BY <1>2, <1>3, <2>1 DEF Accept
  <2> HIDE DEF f
  <2> QED BY <2>2, ReadingOK DEF f
<1>4. CASE key = "syllable"
  <2> DEFINE t == Characters("local", e, 1, 0)
  <2>1. t \in Seq(Letter) /\ t # <<>> /\ t[1][1] = "local" /\ Len(t) = 1
    BY <1>1, OneCharacter DEF Forms
  <2>2. f = [e EXCEPT !.kind = "syllable", !.pending = TRUE, !.text = t] BY <1>4 DEF Accept
  <2> HIDE DEF t, f
  <2>3. /\ f.id = e.id /\ f.version = e.version /\ f.kind = "syllable" /\ f.symbols = e.symbols
        /\ f.pending = TRUE /\ f.by = e.by /\ f.text = t
    BY <1>2, <2>2
  <2>4. DOMAIN f = DOMAIN e /\ f = [i \in DOMAIN f |-> f[i]] BY <1>2, <2>2
  <2>5. f \in Entry BY <1>2, <2>1, <2>3, <2>4, EntryMade
  <2>6. IsCompositable(f) /\ Len(f.text) = 1 /\ f.text[1][1] \in Plain
    BY <2>1, <2>3 DEF IsCompositable, Plain
  <2>7. EntryOK(f) BY <2>5, <2>6, ComposedOK
  <2> QED BY <2>1, <2>3, <2>7 DEF IsModel, f
<1>5. CASE key = "literal"
  <2> DEFINE t == Characters("symbol", e, 1, 0)
  <2>1. t \in Seq(Letter) /\ t # <<>> /\ t[1][1] = "symbol" /\ Len(t) = 1
    BY <1>1, OneCharacter DEF Forms
  <2>2. f = [e EXCEPT !.kind = "fixed", !.symbols = 0, !.text = t] BY <1>5 DEF Accept
  <2> HIDE DEF t, f
  <2>3. /\ f.id = e.id /\ f.version = e.version /\ f.kind = "fixed" /\ f.symbols = 0
        /\ f.pending = e.pending /\ f.by = e.by /\ f.text = t
    BY <1>2, <2>2
  <2>4. DOMAIN f = DOMAIN e /\ f = [i \in DOMAIN f |-> f[i]] BY <1>2, <2>2
  <2>5. f \in Entry BY <1>2, <2>1, <2>3, <2>4, EntryMade
  <2>6. IsCompositable(f) /\ Len(f.text) = 1 /\ f.text[1][1] \in Plain
    BY <2>1, <2>3 DEF IsCompositable, Plain
  <2>7. EntryOK(f) BY <2>5, <2>6, ComposedOK
  <2> QED BY <2>1, <2>3, <2>7 DEF IsModel, f
<1> QED BY <1>3, <1>4, <1>5 DEF Keys

-----------------------------------------------------------------------------
(***************************************************************************)
(* Editing at the caret                                                    *)
(***************************************************************************)
\* The entry at the caret.
LEMMA CurrentOK ==
  ASSUME NEW b, BufferOK(b), OnEntry(b)
  PROVE  EntryOK(Current(b)) /\ Current(b).version \in Nat /\ Current(b) \in Entry
<1>1. /\ b.caret \in 0..Len(b.entries) /\ Len(b.entries) \in Nat
      /\ \A i \in 1..Len(b.entries) : EntryOK(b.entries[i])
  BY BufferParts
<1>2. b.caret \in 1..Len(b.entries) BY <1>1 DEF OnEntry
<1>3. EntryOK(Current(b)) BY <1>1, <1>2 DEF Current
<1>4. Current(b) \in Entry BY <1>3 DEF EntryOK
<1> QED BY <1>3, <1>4, EntryParts

LEMMA WithoutInvalidEdited ==
  ASSUME NEW b, BufferOK(b)
  PROVE  Edited(b, WithoutInvalid(b)) /\ BufferOK(WithoutInvalid(b))
BY EraseEdited, EditedSame DEF WithoutInvalid, OnInvalid, Edited

LEMMA AddEdited ==
  ASSUME NEW b, BufferOK(b), NEW key \in Keys
  PROVE  Edited(b, Add(b, key))
<1> DEFINE c == WithoutInvalid(b)
           e == Accept(Target(c), key)
<1>1. Edited(b, c) /\ BufferOK(c) BY WithoutInvalidEdited
<1>2. Add(b, key) = IF Accepts(c) THEN EditAtCaret(c, e) ELSE InsertAfterCaret(c, e) BY DEF Add
<1> HIDE DEF c
<1>3. CASE Accepts(c)
  <2>1. OnEntry(c) BY <1>3 DEF Accepts
  <2>2. EntryOK(Current(c)) /\ Current(c).version \in Nat BY <1>1, <2>1, CurrentOK
  <2>3. Target(c) = NextVersion(Current(c)) BY <1>3 DEF Target
  <2>4. EntryOK(Target(c)) /\ Target(c).id = Current(c).id
        /\ Target(c).version = Current(c).version + 1
    BY <2>2, <2>3, NextVersionOK
  <2>5. EntryOK(e) /\ e.id = Current(c).id /\ e.version = Current(c).version + 1 /\ ~IsModel(e)
    BY <2>4, AcceptOK
  <2> HIDE DEF e
  <2>6. e.version > Current(c).version BY <2>2, <2>5
  <2>7. Edited(c, EditAtCaret(c, e)) BY <1>1, <2>1, <2>5, <2>6, EditEdited
  <2> QED BY <1>1, <1>2, <1>3, <2>7, EditedThen
<1>4. CASE ~Accepts(c)
  <2>1. c.nextId \in Nat \ {0} BY <1>1, BufferParts
  <2>2. Target(c) = BlankEntry(c.nextId) BY <1>4 DEF Target
  <2>3. EntryOK(Target(c)) /\ Target(c).id = c.nextId BY <2>1, <2>2, BlankOK
  <2>4. EntryOK(e) /\ e.id = c.nextId /\ ~IsModel(e) BY <2>3, AcceptOK
  <2> HIDE DEF e
  <2>5. Edited(c, InsertAfterCaret(c, e)) BY <1>1, <2>4, InsertEdited
  <2> QED BY <1>1, <1>2, <1>4, <2>5, EditedThen
<1> QED BY <1>3, <1>4

LEMMA LiteralOK ==
  ASSUME NEW id \in Nat \ {0}
  PROVE  /\ EntryOK(Accept(BlankEntry(id), "literal"))
         /\ Accept(BlankEntry(id), "literal").id = id
         /\ ~IsModel(Accept(BlankEntry(id), "literal"))
<1>1. PICK key \in Keys : key = "literal" BY DEF Keys
<1>2. EntryOK(BlankEntry(id)) /\ BlankEntry(id).id = id BY BlankOK
<1>3. /\ EntryOK(Accept(BlankEntry(id), key)) /\ Accept(BlankEntry(id), key).id = id
      /\ ~IsModel(Accept(BlankEntry(id), key))
  BY <1>2, AcceptOK
<1> QED BY <1>1, <1>3

LEMMA AddChosenEdited ==
  ASSUME NEW b, BufferOK(b)
  PROVE  Edited(b, AddChosenCandidate(b))
<1> DEFINE c == WithoutInvalid(b)
           e == Accept(BlankEntry(c.nextId), "literal")
<1>1. Edited(b, c) /\ BufferOK(c) BY WithoutInvalidEdited
<1>2. AddChosenCandidate(b) = InsertAfterCaret(c, e) BY DEF AddChosenCandidate
<1> HIDE DEF c
<1>3. c.nextId \in Nat \ {0} BY <1>1, BufferParts
<1>4. EntryOK(e) /\ e.id = c.nextId /\ ~IsModel(e) BY <1>3, LiteralOK
<1> HIDE DEF e
<1>5. Edited(c, InsertAfterCaret(c, e)) BY <1>1, <1>4, InsertEdited
<1> QED BY <1>1, <1>2, <1>5, EditedThen

LEMMA RemoveLastEdited ==
  ASSUME NEW b, BufferOK(b), OnEntry(b)
  PROVE  Edited(b, RemoveLast(b))
<1> DEFINE e == NextVersion(Current(b))
           f == Reading(e, "reading", e.symbols - 1)
<1>1. EntryOK(Current(b)) /\ Current(b).version \in Nat BY CurrentOK
<1>2. /\ EntryOK(e) /\ e.id = Current(b).id /\ e.version = Current(b).version + 1
  BY <1>1, NextVersionOK
<1> HIDE DEF e
<1>3. CASE IsCompositable(e) \/ e.symbols <= 1
  BY <1>3, EraseEdited DEF RemoveLast, e
<1>4. CASE ~(IsCompositable(e) \/ e.symbols <= 1)
  <2>1. e.symbols \in Nat BY <1>2, EntryParts DEF EntryOK
  <2>2. PICK count \in Nat, kind \in {"reading", "invalid"} : count = e.symbols - 1 /\ kind = "reading"
    BY <1>4, <2>1
  <2>3. EntryOK(f) /\ f.id = e.id /\ f.version = e.version /\ ~IsModel(f)
    BY <1>2, ReadingOK, <2>2
  <2>4. RemoveLast(b) = EditAtCaret(b, f) BY <1>4 DEF RemoveLast, e
  <2> HIDE DEF f
  <2>5. f.version > Current(b).version BY <1>1, <1>2, <2>3
  <2>6. f.id = Current(b).id BY <1>2, <2>3
  <2> QED BY <2>3, <2>4, <2>5, <2>6, EditEdited
<1> QED BY <1>3, <1>4

\* Only the caret moves.
LEMMA CaretEdited ==
  ASSUME NEW b, BufferOK(b), NEW caret \in 0..Len(b.entries)
  PROVE  Edited(b, [b EXCEPT !.caret = caret])
<1> DEFINE after == [b EXCEPT !.caret = caret]
<1>1. after = [entries |-> b.entries, caret |-> caret, revision |-> b.revision,
               nextId |-> b.nextId]
  BY BufferExcept
<1> HIDE DEF after
<1>2. /\ b.entries \in Seq(Entry) /\ b.nextId \in Nat \ {0} /\ b.revision \in Nat
      /\ \A i \in 1..Len(b.entries) : EntryOK(b.entries[i]) /\ b.entries[i].id < b.nextId
      /\ \A i, j \in 1..Len(b.entries) : b.entries[i].id = b.entries[j].id => i = j
  BY BufferParts
<1>3. BufferOK(after) BY <1>1, <1>2, BufferMade
<1>4. after.entries = b.entries /\ after.nextId = b.nextId BY <1>1
<1> QED BY <1>2, <1>3, <1>4 DEF Edited, Became, after

LEMMA MoveEdited ==
  ASSUME NEW b, BufferOK(b), NEW forward \in BOOLEAN, NEW toEdge \in BOOLEAN, CanMove(b, forward)
  PROVE  Edited(b, Move(b, forward, toEdge))
<1> DEFINE caret == IF toEdge THEN IF forward THEN Len(b.entries) ELSE 0
                    ELSE IF forward THEN b.caret + 1 ELSE b.caret - 1
<1>1. b.caret \in 0..Len(b.entries) /\ Len(b.entries) \in Nat BY BufferParts
<1>2. caret \in 0..Len(b.entries) BY <1>1 DEF CanMove
<1>3. Move(b, forward, toEdge) = [b EXCEPT !.caret = caret] BY DEF Move
<1> HIDE DEF caret
<1> QED BY <1>2, <1>3, CaretEdited

LEMMA StepForwardEdited ==
  ASSUME NEW b, BufferOK(b)
  PROVE  Edited(b, StepForward(b))
BY MoveEdited, EditedSame DEF StepForward

\* Every entry becomes something, where it is.
LEMMA EachEdited ==
  ASSUME NEW b, BufferOK(b), NEW s, NEW revision \in Nat,
         DOMAIN s = DOMAIN b.entries, s = [i \in DOMAIN s |-> s[i]],
         \A i \in DOMAIN s : EntryOK(s[i]) /\ Became(b.entries[i], s[i]),
         NEW after, after = [entries |-> s, caret |-> b.caret, revision |-> revision,
                             nextId |-> b.nextId]
  PROVE  Edited(b, after)
<1>1. /\ b.entries \in Seq(Entry) /\ b.nextId \in Nat \ {0} /\ Len(b.entries) \in Nat
      /\ b.caret \in 0..Len(b.entries) /\ DOMAIN b.entries = 1..Len(b.entries)
      /\ \A i \in 1..Len(b.entries) : EntryOK(b.entries[i]) /\ b.entries[i].id < b.nextId
      /\ \A i, j \in 1..Len(b.entries) : b.entries[i].id = b.entries[j].id => i = j
  BY BufferParts
<1>2. \A i \in DOMAIN s : s[i] \in Entry /\ s[i].id = b.entries[i].id BY DEF EntryOK, Became
<1>3. s \in Seq(Entry) /\ Len(s) = Len(b.entries)
  BY <1>1, <1>2
<1>4. \A i \in 1..Len(s) : EntryOK(s[i]) /\ s[i].id < b.nextId BY <1>1, <1>2, <1>3
<1>5. \A i, j \in 1..Len(s) : s[i].id = s[j].id => i = j BY <1>1, <1>2, <1>3
<1>6. b.caret \in 0..Len(s) BY <1>1, <1>3
<1>7. BufferOK(after) BY <1>1, <1>3, <1>4, <1>5, <1>6, BufferMade
<1>8. after.entries = s /\ after.nextId = b.nextId OBVIOUS
<1> QED BY <1>1, <1>7, <1>8 DEF Edited

LEMMA AcceptLocalEdited ==
  ASSUME NEW b, BufferOK(b)
  PROVE  Edited(b, AcceptLocalCandidates(b))
<1> DEFINE s == [i \in DOMAIN b.entries |-> [b.entries[i] EXCEPT !.pending = FALSE]]
<1>1. AcceptLocalCandidates(b) = [b EXCEPT !.entries = s] BY DEF AcceptLocalCandidates
<1>2. DOMAIN s = DOMAIN b.entries /\ s = [i \in DOMAIN s |-> s[i]] OBVIOUS
<1>3. b.revision \in Nat BY BufferParts
<1>4. ASSUME NEW i \in DOMAIN b.entries PROVE EntryOK(s[i]) /\ Became(b.entries[i], s[i])
  <2> DEFINE e == b.entries[i]
             f == [e EXCEPT !.pending = FALSE]
  <2>1. EntryOK(e) /\ e \in Entry BY DEF BufferOK, EntryOK
  <2>2. /\ e.id \in Nat \ {0} /\ e.version \in Nat /\ e.symbols \in Nat
        /\ e.by \in Nat /\ e.text \in Seq(Letter)
        /\ e.kind \in {"reading", "invalid", "syllable", "fixed"}
        /\ DOMAIN e = {"id", "version", "kind", "symbols", "pending", "by", "text"}
    BY <2>1, EntryParts
  <2>3. s[i] = f OBVIOUS
  <2>4. /\ f.id = e.id /\ f.version = e.version /\ f.kind = e.kind /\ f.symbols = e.symbols
        /\ f.pending = FALSE /\ f.by = e.by /\ f.text = e.text
        /\ DOMAIN f = DOMAIN e /\ f = [k \in DOMAIN f |-> f[k]]
    BY <2>2
  <2> HIDE DEF f, e, s
  <2>5. f.pending \in BOOLEAN BY <2>4, Zenon
  <2>6. f \in Entry BY <2>2, <2>4, <2>5, EntryMade
  <2>7. EntryOK(f) BY <2>1, <2>4, <2>6 DEF EntryOK, IsCompositable
  <2> QED BY <2>3, <2>4, <2>7 DEF Became, e
<1> HIDE DEF s
<1>5. AcceptLocalCandidates(b) = [entries |-> s, caret |-> b.caret, revision |-> b.revision,
                                  nextId |-> b.nextId]
  BY <1>1, BufferExcept
<1> QED BY <1>2, <1>3, <1>4, <1>5, EachEdited

-----------------------------------------------------------------------------
(***************************************************************************)
(* Choosing a candidate and a reading                                      *)
(***************************************************************************)
LEMMA SelectEdited ==
  ASSUME NEW b, BufferOK(b), NEW id, NEW literal \in BOOLEAN
  PROVE  Edited(b, SelectCandidate(b, id, literal))
<1> DEFINE new(e) == [NextVersion(e) EXCEPT
                        !.kind = "fixed", !.pending = FALSE,
                        !.symbols = IF literal THEN 0 ELSE @,
                        !.text = Characters("picked", NextVersion(e), 1, 0)]
           s == [i \in DOMAIN b.entries |->
                   IF b.entries[i].id # id THEN b.entries[i] ELSE new(b.entries[i])]
<1>1. SelectCandidate(b, id, literal) = [b EXCEPT !.entries = s, !.revision = b.revision + 1]
  <2>1. PICK q, k, v, y : b = [entries |-> q, caret |-> k, revision |-> v, nextId |-> y]
    BY BufferRecord
  <2>2. SelectCandidate(b, id, literal) = [b EXCEPT !.revision = b.revision + 1, !.entries = s]
    BY DEF SelectCandidate
  <2> HIDE DEF s
  <2> QED BY <2>1, <2>2
<1>2. DOMAIN s = DOMAIN b.entries /\ s = [i \in DOMAIN s |-> s[i]] OBVIOUS
<1>3. b.revision + 1 \in Nat BY BufferParts
<1>4. ASSUME NEW e, EntryOK(e) PROVE EntryOK(new(e)) /\ Became(e, new(e))
  <2> DEFINE v == NextVersion(e)
             t == Characters("picked", v, 1, 0)
             f == new(e)
  <2>1. EntryOK(v) /\ v.id = e.id /\ v.version = e.version + 1 BY <1>4, NextVersionOK
  <2>2. v \in Entry /\ e \in Entry BY <1>4, <2>1 DEF EntryOK
  <2>3. f = [v EXCEPT !.kind = "fixed", !.pending = FALSE,
                      !.symbols = IF literal THEN 0 ELSE v.symbols, !.text = t]
    OBVIOUS
  <2> HIDE DEF v
  <2>4. /\ v.id \in Nat \ {0} /\ v.version \in Nat /\ v.symbols \in Nat
        /\ v.by \in Nat
        /\ DOMAIN v = {"id", "version", "kind", "symbols", "pending", "by", "text"}
    BY <2>2, EntryParts
  <2>5. t \in Seq(Letter) /\ t # <<>> /\ t[1][1] = "picked" /\ Len(t) = 1
    BY <2>2, OneCharacter DEF Forms
  <2> HIDE DEF t, new, f
  <2>6. /\ f.id = v.id /\ f.version = v.version /\ f.kind = "fixed"
        /\ f.symbols = (IF literal THEN 0 ELSE v.symbols)
        /\ f.pending = FALSE /\ f.by = v.by /\ f.text = t
    BY <2>3, <2>4
  <2>7. DOMAIN f = DOMAIN v /\ f = [k \in DOMAIN f |-> f[k]] BY <2>3, <2>4
  <2>8. f.pending \in BOOLEAN BY <2>6, Zenon
  <2>9. f.symbols \in Nat BY <2>4, <2>6
  <2>10. f \in Entry BY <2>4, <2>5, <2>6, <2>7, <2>8, <2>9, EntryMade
  <2>11. EntryOK(f)
    BY <2>5, <2>6, <2>10, ComposedOK DEF IsCompositable, Plain
  <2>12. e.version \in Nat BY <2>2, EntryParts
  <2>13. f.id = e.id /\ f.version > e.version BY <2>1, <2>6, <2>12
  <2>14. ~IsModel(f) BY <2>5, <2>6 DEF IsModel
  <2>15. Became(e, f) BY <2>13, <2>14 DEF Became
  <2> QED BY <2>11, <2>15 DEF f
<1>5. \A i \in DOMAIN s : EntryOK(s[i]) /\ Became(b.entries[i], s[i])
  <2> HIDE DEF new
  <2> TAKE i \in DOMAIN s
  <2>1. EntryOK(b.entries[i]) /\ i \in DOMAIN b.entries BY DEF BufferOK
  <2>2. Became(b.entries[i], b.entries[i]) BY DEF Became
  <2> QED BY <1>4, <2>1, <2>2
<1> HIDE DEF s
<1>6. SelectCandidate(b, id, literal) =
        [entries |-> s, caret |-> b.caret, revision |-> b.revision + 1, nextId |-> b.nextId]
  BY <1>1, BufferExcept
<1> QED BY <1>2, <1>3, <1>5, <1>6, EachEdited

\* Three sequences one after the other.
LEMMA ThreeJoined ==
  ASSUME NEW T, NEW p \in Seq(T), NEW q \in Seq(T), NEW r \in Seq(T)
  PROVE  /\ p \o q \o r \in Seq(T)
         /\ Len(p \o q \o r) = Len(p) + Len(q) + Len(r)
         /\ \A j \in 1..Len(p) : (p \o q \o r)[j] = p[j]
         /\ \A j \in 1..Len(q) : (p \o q \o r)[Len(p) + j] = q[j]
         /\ \A j \in 1..Len(r) : (p \o q \o r)[Len(p) + Len(q) + j] = r[j]
<1> DEFINE t == p \o q
<1>0. Len(p) \in Nat /\ Len(q) \in Nat /\ Len(r) \in Nat OBVIOUS
<1>1. /\ t \in Seq(T) /\ Len(t) = Len(p) + Len(q)
      /\ \A j \in 1..(Len(p) + Len(q)) : t[j] = IF j <= Len(p) THEN p[j] ELSE q[j - Len(p)]
  BY ConcatProperties
<1> HIDE DEF t
<1>1a. t \in Seq(T) /\ Len(t) \in Nat BY <1>0, <1>1
<1>2. /\ t \o r \in Seq(T) /\ Len(t \o r) = Len(t) + Len(r)
      /\ \A j \in 1..(Len(t) + Len(r)) : (t \o r)[j] = IF j <= Len(t) THEN t[j] ELSE r[j - Len(t)]
  BY <1>1a, ConcatProperties
<1>3. \A j \in 1..Len(p) : (t \o r)[j] = p[j] BY <1>0, <1>1, <1>2
<1>4. ASSUME NEW j \in 1..Len(q) PROVE (t \o r)[Len(p) + j] = q[j]
  BY <1>0, <1>1, <1>2
<1>5. ASSUME NEW j \in 1..Len(r) PROVE (t \o r)[Len(p) + Len(q) + j] = r[j]
  BY <1>0, <1>1, <1>2
<1> QED BY <1>1, <1>2, <1>3, <1>4, <1>5 DEF t

\* The literal entries take the place of the chosen one.
LEMMA SelectReadingEdited ==
  ASSUME NEW b, BufferOK(b), NEW id, NEW withTone \in BOOLEAN, CanSelectReading(b, id)
  PROVE  Edited(b, SelectReading(b, id, withTone))
<1> DEFINE n == Len(b.entries)
           at == CHOOSE i \in DOMAIN b.entries : b.entries[i].id = id
           count == b.entries[at].symbols + IF withTone THEN 1 ELSE 0
           literals == [k \in 1..count |-> Accept(BlankEntry(b.nextId + k - 1), "literal")]
           front == SubSeq(b.entries, 1, at - 1)
           back == SubSeq(b.entries, at + 1, n)
           s == front \o literals \o back
           caret == IF b.caret >= at - 1 THEN b.caret + count - 1 ELSE b.caret
           after == SelectReading(b, id, withTone)
<1>1. /\ b \in Buffer /\ b.entries \in Seq(Entry) /\ b.nextId \in Nat \ {0}
      /\ b.revision \in Nat /\ b.caret \in 0..n /\ n \in Nat /\ DOMAIN b.entries = 1..n
      /\ \A i \in 1..n : EntryOK(b.entries[i]) /\ b.entries[i].id < b.nextId
      /\ \A i, j \in 1..n : b.entries[i].id = b.entries[j].id => i = j
  BY BufferParts
<1>2. after = [entries |-> s, caret |-> caret, revision |-> b.revision + 1,
               nextId |-> b.nextId + count]
  BY DEF SelectReading
<1>3. at \in 1..n /\ b.entries[at].id = id BY <1>1 DEF CanSelectReading
<1>4. count \in Nat /\ count >= 2
  <2>1. PICK i \in 1..n : b.entries[i].id = id /\ b.entries[i].symbols >= 2
    BY <1>1 DEF CanSelectReading
  <2>2. i = at BY <1>1, <1>3, <2>1
  <2>3. b.entries[at] \in Entry BY <1>1, <1>3 DEF EntryOK
  <2>4. b.entries[at].symbols \in Nat BY <2>3, EntryParts
  <2> QED BY <2>1, <2>2, <2>4
<1> HIDE DEF n, at, count, after
<1>5. \A k \in 1..count : /\ EntryOK(literals[k]) /\ ~IsModel(literals[k])
                          /\ literals[k].id = b.nextId + k - 1 /\ literals[k] \in Entry
  <2> TAKE k \in 1..count
  <2>1. b.nextId + k - 1 \in Nat \ {0} BY <1>1, <1>4
  <2>2. literals[k] = Accept(BlankEntry(b.nextId + k - 1), "literal") OBVIOUS
  <2> HIDE DEF literals
  <2> QED BY <2>1, <2>2, LiteralOK DEF EntryOK
<1>6. literals \in Seq(Entry) /\ Len(literals) = count
  <2>1. literals = [k \in 1..count |-> literals[k]] OBVIOUS
  <2>2. [k \in 1..count |-> literals[k]] \in Seq(Entry)
    <3> HIDE DEF literals
    <3> QED BY <1>4, <1>5
  <2>3. literals \in Seq(Entry) BY <2>1, <2>2
  <2>4. DOMAIN literals = 1..count OBVIOUS
  <2> HIDE DEF literals
  <2>5. Len(literals) \in Nat /\ DOMAIN literals = 1..Len(literals) BY <2>3
  <2> QED BY <1>4, <2>3, <2>4, <2>5
<1> HIDE DEF literals
<1>7. front \in Seq(Entry) /\ Len(front) = at - 1 /\ \A j \in 1..(at - 1) : front[j] = b.entries[j]
  <2>1. PICK q \in Seq(Entry) : q = b.entries BY <1>1
  <2>2. \A k \in 1..(at - 1) : q[k] \in Entry BY <1>1, <1>3, <2>1
  <2>3. at - 1 \in Int /\ 1 \in Int /\ at - 1 \in Nat BY <1>1, <1>3
  <2>4. /\ SubSeq(q, 1, at - 1) \in Seq(Entry) /\ Len(SubSeq(q, 1, at - 1)) = at - 1
        /\ \A j \in 1..(at - 1) : SubSeq(q, 1, at - 1)[j] = q[j]
    BY <2>2, <2>3, SubSeqProperties
  <2> QED BY <2>1, <2>4
<1>8. back \in Seq(Entry) /\ Len(back) = n - at /\ \A j \in 1..(n - at) : back[j] = b.entries[at + j]
  <2>1. PICK q \in Seq(Entry), m \in Int : q = b.entries /\ m = at + 1 BY <1>1, <1>3
  <2>2. \A k \in m..n : q[k] \in Entry BY <1>1, <1>3, <2>1
  <2>3. n \in Int BY <1>1
  <2>4. /\ SubSeq(q, m, n) \in Seq(Entry) /\ Len(SubSeq(q, m, n)) = (IF m <= n THEN n - m + 1 ELSE 0)
        /\ \A j \in 1..(n - m + 1) : SubSeq(q, m, n)[j] = q[m + j - 1]
    BY <2>2, <2>3, SubSeqProperties
  <2>5. n - m + 1 = n - at /\ (IF m <= n THEN n - m + 1 ELSE 0) = n - at BY <1>1, <1>3, <2>1
  <2>6. \A j \in 1..(n - at) : m + j - 1 = at + j BY <1>1, <1>3, <2>1
  <2>7. back = SubSeq(q, m, n) BY <2>1
  <2> HIDE DEF back
  <2> QED BY <2>1, <2>4, <2>5, <2>6, <2>7
<1> HIDE DEF front, back
<1>9. /\ s \in Seq(Entry) /\ Len(s) = n - 1 + count
      /\ \A j \in 1..(at - 1) : s[j] = b.entries[j]
      /\ \A j \in 1..count : s[at - 1 + j] = literals[j]
      /\ \A j \in 1..(n - at) : s[at - 1 + count + j] = b.entries[at + j]
  <2>1. /\ s \in Seq(Entry) /\ Len(s) = Len(front) + Len(literals) + Len(back)
        /\ \A j \in 1..Len(front) : s[j] = front[j]
        /\ \A j \in 1..Len(literals) : s[Len(front) + j] = literals[j]
        /\ \A j \in 1..Len(back) : s[Len(front) + Len(literals) + j] = back[j]
    <3>1. PICK p \in Seq(Entry), q \in Seq(Entry), r \in Seq(Entry) :
            p = front /\ q = literals /\ r = back
      BY <1>6, <1>7, <1>8
    <3>2. /\ p \o q \o r \in Seq(Entry)
          /\ Len(p \o q \o r) = Len(p) + Len(q) + Len(r)
          /\ \A j \in 1..Len(p) : (p \o q \o r)[j] = p[j]
          /\ \A j \in 1..Len(q) : (p \o q \o r)[Len(p) + j] = q[j]
          /\ \A j \in 1..Len(r) : (p \o q \o r)[Len(p) + Len(q) + j] = r[j]
      BY ThreeJoined
    <3>3. s = p \o q \o r BY <3>1
    <3> HIDE DEF s
    <3> QED BY <3>1, <3>2, <3>3
  <2>2. at - 1 + count + (n - at) = n - 1 + count BY <1>1, <1>3, <1>4
  <2> HIDE DEF s
  <2> QED BY <1>6, <1>7, <1>8, <2>1, <2>2
<1> HIDE DEF s, caret
<1>10. \A j \in 1..(n - 1 + count) :
         \/ j \in 1..(at - 1)
         \/ j - (at - 1) \in 1..count /\ at - 1 + (j - (at - 1)) = j
         \/ j - (at - 1 + count) \in 1..(n - at) /\ at - 1 + count + (j - (at - 1 + count)) = j
  BY <1>1, <1>3, <1>4
<1>11. \A j \in 1..(n - 1 + count) :
         \/ \E i \in 1..n : s[j] = b.entries[i] /\ ((j < at /\ i = j) \/ (j >= at + count /\ i = j - count + 1))
         \/ \E k \in 1..count : s[j] = literals[k] /\ k = j - (at - 1)
  <2> TAKE j \in 1..(n - 1 + count)
  <2>1. CASE j \in 1..(at - 1)
    <3>1. j \in 1..n /\ j < at BY <1>1, <1>3, <2>1
    <3> QED BY <1>9, <2>1, <3>1
  <2>2. CASE j - (at - 1) \in 1..count /\ at - 1 + (j - (at - 1)) = j
    BY <1>9, <2>2
  <2>3. CASE j - (at - 1 + count) \in 1..(n - at) /\ at - 1 + count + (j - (at - 1 + count)) = j
    <3>1. s[j] = b.entries[at + (j - (at - 1 + count))] BY <1>9, <2>3
    <3>2. /\ at + (j - (at - 1 + count)) = j - count + 1 /\ j - count + 1 \in 1..n
          /\ j >= at + count
      BY <1>1, <1>3, <1>4, <2>3
    <3> QED BY <3>1, <3>2
  <2> QED BY <1>10, <2>1, <2>2, <2>3
<1>12. \A i \in 1..n : b.entries[i].id \in Nat
  BY <1>1, EntryParts DEF EntryOK
<1>13. \A j \in 1..(n - 1 + count) : EntryOK(s[j]) /\ s[j].id < b.nextId + count
  <2> TAKE j \in 1..(n - 1 + count)
  <2>1. CASE \E i \in 1..n : s[j] = b.entries[i] BY <1>1, <1>4, <1>12, <2>1
  <2>2. CASE \E k \in 1..count : s[j] = literals[k] BY <1>1, <1>4, <1>5, <2>2
  <2> QED BY <1>11, <2>1, <2>2
<1>14. \A i, j \in 1..(n - 1 + count) : s[i].id = s[j].id => i = j
  <2> TAKE i, j \in 1..(n - 1 + count)
  <2> HAVE s[i].id = s[j].id
  <2>1. CASE s[i].id < b.nextId
    <3>1. ~\E k \in 1..count : s[i] = literals[k] BY <1>1, <1>4, <1>5, <2>1
    <3>2. ~\E k \in 1..count : s[j] = literals[k] BY <1>1, <1>4, <1>5, <2>1
    <3>3. PICK k \in 1..n : s[i] = b.entries[k] /\ ((i < at /\ k = i) \/ (i >= at + count /\ k = i - count + 1))
      BY <1>11, <3>1
    <3>4. PICK l \in 1..n : s[j] = b.entries[l] /\ ((j < at /\ l = j) \/ (j >= at + count /\ l = j - count + 1))
      BY <1>11, <3>2
    <3>5. k = l BY <1>1, <3>3, <3>4
    <3> QED BY <1>1, <1>3, <1>4, <3>3, <3>4, <3>5
  <2>2. CASE ~(s[i].id < b.nextId)
    <3>1. PICK k \in 1..count : s[i] = literals[k] /\ k = i - (at - 1) BY <1>1, <1>11, <2>2
    <3>2. PICK l \in 1..count : s[j] = literals[l] /\ l = j - (at - 1) BY <1>1, <1>11, <2>2
    <3>3. s[i].id = b.nextId + k - 1 /\ s[j].id = b.nextId + l - 1 BY <1>5, <3>1, <3>2
    <3>4. b.nextId \in Nat /\ k \in Nat /\ l \in Nat BY <1>1, <1>4
    <3>5. b.nextId + k - 1 = b.nextId + l - 1 BY <3>3
    <3>6. k = l BY <3>4, <3>5
    <3> QED BY <1>1, <1>3, <3>1, <3>2, <3>6
  <2> QED BY <2>1, <2>2
<1>15. caret \in 0..Len(s) BY <1>1, <1>3, <1>4, <1>9 DEF caret
<1>16. b.revision + 1 \in Nat /\ b.nextId + count \in Nat \ {0} BY <1>1, <1>4
<1>17. BufferOK(after)
  <2>1. PICK q \in Seq(Entry), v \in Nat, r \in Nat, m \in Nat \ {0} :
          q = s /\ v = caret /\ r = b.revision + 1 /\ m = b.nextId + count
    BY <1>9, <1>15, <1>16
  <2>2. v \in 0..Len(q) BY <1>15, <2>1
  <2>3. \A i \in 1..Len(q) : EntryOK(q[i]) /\ q[i].id < m BY <1>9, <1>13, <2>1
  <2>4. \A i, j \in 1..Len(q) : q[i].id = q[j].id => i = j BY <1>9, <1>14, <2>1
  <2>5. after = [entries |-> q, caret |-> v, revision |-> r, nextId |-> m] BY <1>2, <2>1
  <2> QED BY <2>2, <2>3, <2>4, <2>5, BufferMade
<1>18. ASSUME NEW j \in DOMAIN after.entries
       PROVE  \/ after.entries[j].id >= b.nextId /\ ~IsModel(after.entries[j])
              \/ \E i \in DOMAIN b.entries : Became(b.entries[i], after.entries[j])
  <2>1. after.entries = s /\ j \in 1..(n - 1 + count) BY <1>2, <1>9, <1>18
  <2>2. CASE \E i \in 1..n : s[j] = b.entries[i] BY <1>1, <2>1, <2>2 DEF Became
  <2>3. CASE \E k \in 1..count : s[j] = literals[k] BY <1>1, <1>4, <1>5, <2>1, <2>3
  <2> QED BY <1>11, <2>1, <2>2, <2>3
<1>19. b.nextId <= after.nextId BY <1>1, <1>2, <1>4
<1> QED BY <1>17, <1>18, <1>19 DEF Edited, after

-----------------------------------------------------------------------------
(***************************************************************************)
(* Freezing the readings                                                   *)
(***************************************************************************)
\* The literal entries a reading becomes, before they get their ids.
FrozenEntries(e) ==
  [k \in 1..Len(e.text) |-> [BlankEntry(0) EXCEPT !.kind = "fixed", !.text = <<e.text[k]>>]]

RawEntry == [id : Nat, version : Nat, kind : {"reading", "invalid", "syllable", "fixed"},
             symbols : Nat, pending : BOOLEAN, by : Nat, text : Seq(Letter)]

IsFrozen(f) ==
  /\ f.id = 0
  /\ \A id \in Nat \ {0} : LET g == [f EXCEPT !.id = id]
                           IN  EntryOK(g) /\ ~IsModel(g) /\ g.id = id

LEMMA RawMade ==
  ASSUME NEW f,
         DOMAIN f = {"id", "version", "kind", "symbols", "pending", "by", "text"},
         f = [i \in DOMAIN f |-> f[i]],
         f.id \in Nat, f.version \in Nat, f.symbols \in Nat, f.pending \in BOOLEAN,
         f.by \in Nat, f.text \in Seq(Letter),
         f.kind \in {"reading", "invalid", "syllable", "fixed"}
  PROVE  f \in RawEntry
<1>1. f = [id |-> f.id, version |-> f.version, kind |-> f.kind, symbols |-> f.symbols,
           pending |-> f.pending, by |-> f.by, text |-> f.text]
  OBVIOUS
<1>2. PICK i \in Nat, v \in Nat, k \in {"reading", "invalid", "syllable", "fixed"},
           s \in Nat, p \in BOOLEAN, b \in Nat, t \in Seq(Letter) :
        f = [id |-> i, version |-> v, kind |-> k, symbols |-> s, pending |-> p, by |-> b, text |-> t]
  BY <1>1
<1> QED BY <1>2 DEF RawEntry

LEMMA FrozenOK ==
  ASSUME NEW c \in Letter, c[1] \in Plain \ {"model"},
         NEW f, f = [BlankEntry(0) EXCEPT !.kind = "fixed", !.text = <<c>>]
  PROVE  f \in RawEntry /\ IsFrozen(f)
<1> DEFINE t == <<c>>
<1>1. t \in Seq(Letter) /\ t[1] = c /\ t # <<>> /\ Len(t) = 1 OBVIOUS
<1> HIDE DEF t
<1>2. f = [BlankEntry(0) EXCEPT !.kind = "fixed", !.text = t] BY DEF t
<1>3. /\ f.id = 0 /\ f.version = 0 /\ f.kind = "fixed" /\ f.symbols = 0 /\ f.pending = FALSE
      /\ f.by = 0 /\ f.text = t
      /\ DOMAIN f = {"id", "version", "kind", "symbols", "pending", "by", "text"}
  BY <1>2 DEF BlankEntry
<1>4. f = [i \in DOMAIN f |-> f[i]] BY <1>2 DEF BlankEntry
<1>5. f.pending \in BOOLEAN BY <1>3, Zenon
<1>6. /\ f.version \in Nat /\ f.symbols \in Nat /\ f.by \in Nat
      /\ f.text \in Seq(Letter) /\ f.kind \in {"reading", "invalid", "syllable", "fixed"}
      /\ f.id \in Nat
  BY <1>1, <1>3
<1>7. f \in RawEntry BY <1>3, <1>4, <1>5, <1>6, RawMade
<1>8. ASSUME NEW id \in Nat \ {0}, NEW g, g = [f EXCEPT !.id = id]
      PROVE EntryOK(g) /\ ~IsModel(g) /\ g.id = id
  BY <1>3, <1>8, <1>5, <1>6, EntryMade, <1>1, ComposedOK DEF IsCompositable, IsModel
<1>9. \A id \in Nat \ {0} : LET g == [f EXCEPT !.id = id]
                             IN  EntryOK(g) /\ ~IsModel(g) /\ g.id = id
  BY <1>8
<1> QED BY <1>3, <1>7, <1>9 DEF IsFrozen

LEMMA FrozenEntriesOK ==
  ASSUME NEW e, EntryOK(e), ~IsCompositable(e)
  PROVE  /\ FrozenEntries(e) \in Seq(RawEntry)
         /\ \A k \in 1..Len(FrozenEntries(e)) : IsFrozen(FrozenEntries(e)[k])
<1> DEFINE f == FrozenEntries(e)
           n == Len(e.text)
<1>1. e \in Entry BY DEF EntryOK
<1>2. e.text \in Seq(Letter) BY <1>1, EntryParts
<1>3. n \in Nat /\ DOMAIN e.text = 1..n /\ \A k \in 1..n : e.text[k] \in Letter BY <1>2
<1>4. \A k \in 1..n : e.text[k][1] \in Plain \ {"model"} BY <1>3 DEF EntryOK
<1>5. DOMAIN f = 1..n /\ f = [k \in 1..n |-> f[k]] BY DEF FrozenEntries
<1>6. ASSUME NEW k \in 1..n PROVE f[k] \in RawEntry /\ IsFrozen(f[k])
  <2>1. PICK c \in Letter : c = e.text[k] /\ c[1] \in Plain \ {"model"} BY <1>3, <1>4
  <2>2. f[k] = [BlankEntry(0) EXCEPT !.kind = "fixed", !.text = <<c>>]
    BY <2>1 DEF FrozenEntries
  <2> HIDE DEF f
  <2> QED BY <2>1, <2>2, FrozenOK
<1> HIDE DEF f, n
<1>7. [k \in 1..n |-> f[k]] \in Seq(RawEntry) BY <1>3, <1>6
<1>8. f \in Seq(RawEntry) BY <1>5, <1>7
<1>9. Len(f) = n BY <1>3, <1>5, <1>8
<1> QED BY <1>6, <1>8, <1>9 DEF f

\* q holds entries of the first m, each once, and frozen ones.
Gathered(q, entries, m) ==
  /\ \A j \in 1..Len(q) : \/ IsFrozen(q[j])
                          \/ \E i \in 1..m : q[j] = entries[i]
  /\ \A j, k \in 1..Len(q) : q[j].id = q[k].id /\ q[j].id # 0 => j = k

LEMMA GatheredMore ==
  ASSUME NEW b, BufferOK(b), NEW m \in Nat, m + 1 <= Len(b.entries),
         NEW q \in Seq(RawEntry), Gathered(q, b.entries, m),
         NEW p \in Seq(RawEntry),
         \/ p = <<b.entries[m + 1]>>
         \/ \A k \in 1..Len(p) : IsFrozen(p[k])
  PROVE  Gathered(q \o p, b.entries, m + 1)
<1> DEFINE n == Len(b.entries)
           r == q \o p
<1>1. /\ n \in Nat
      /\ \A i \in 1..n : EntryOK(b.entries[i])
      /\ \A i, j \in 1..n : b.entries[i].id = b.entries[j].id => i = j
  BY BufferParts
<1>2. /\ r \in Seq(RawEntry) /\ Len(r) = Len(q) + Len(p) /\ Len(q) \in Nat /\ Len(p) \in Nat
      /\ \A j \in 1..(Len(q) + Len(p)) : r[j] = IF j <= Len(q) THEN q[j] ELSE p[j - Len(q)]
  BY ConcatProperties
<1> HIDE DEF r, n
<1>3. \A i \in 1..n : b.entries[i].id # 0
  BY <1>1, EntryParts DEF EntryOK
<1>4. m + 1 \in 1..n /\ \A i \in 1..m : i \in 1..n /\ i \in 1..(m + 1) BY <1>1 DEF n
<1>5. \A j \in 1..Len(r) : (j \in 1..Len(q) /\ r[j] = q[j])
                            \/ (j - Len(q) \in 1..Len(p) /\ r[j] = p[j - Len(q)])
  BY <1>2
<1>6. CASE p = <<b.entries[m + 1]>>
  <2>1. Len(p) = 1 /\ p[1] = b.entries[m + 1] BY <1>6
  <2>2. \A j \in 1..Len(r) : \/ j \in 1..Len(q) /\ r[j] = q[j]
                             \/ j = Len(q) + 1 /\ r[j] = b.entries[m + 1]
    <3> TAKE j \in 1..Len(r)
    <3>1. CASE j \in 1..Len(q) /\ r[j] = q[j] BY <3>1
    <3>2. CASE j - Len(q) \in 1..Len(p) /\ r[j] = p[j - Len(q)]
      BY <1>2, <2>1, <3>2
    <3> QED BY <1>5, <3>1, <3>2
  <2>3. \A j \in 1..Len(r) : IsFrozen(r[j]) \/ \E i \in 1..(m + 1) : r[j] = b.entries[i]
    <3> TAKE j \in 1..Len(r)
    <3>1. CASE j \in 1..Len(q) /\ r[j] = q[j]
      <4>1. IsFrozen(q[j]) \/ \E i \in 1..m : q[j] = b.entries[i] BY <3>1 DEF Gathered
      <4> QED BY <1>4, <3>1, <4>1
    <3>2. CASE r[j] = b.entries[m + 1]
      <4>1. m + 1 \in 1..(m + 1) BY <1>4
      <4> QED BY <3>2, <4>1
    <3> QED BY <2>2, <3>1, <3>2
  <2>4. \A j \in 1..Len(q) : q[j].id # b.entries[m + 1].id
    <3> TAKE j \in 1..Len(q)
    <3>1. CASE IsFrozen(q[j]) BY <1>3, <1>4, <3>1 DEF IsFrozen
    <3>2. CASE \E i \in 1..m : q[j] = b.entries[i]
      <4>1. PICK i \in 1..m : q[j] = b.entries[i] BY <3>2
      <4>2. i # m + 1 /\ i \in 1..n BY <1>4
      <4> QED BY <1>1, <1>4, <4>1, <4>2
    <3> QED BY <3>1, <3>2 DEF Gathered
  <2>5. \A j, k \in 1..Len(r) : r[j].id = r[k].id /\ r[j].id # 0 => j = k
    <3> TAKE j, k \in 1..Len(r)
    <3>1. CASE j \in 1..Len(q) /\ r[j] = q[j]
      BY <3>1, <2>4, <2>2 DEF Gathered
    <3>2. CASE j = Len(q) + 1 /\ r[j] = b.entries[m + 1] BY <2>2, <2>4, <3>2
    <3> QED BY <2>2, <3>1, <3>2
  <2> QED BY <2>3, <2>5 DEF Gathered, r
<1>7. CASE \A k \in 1..Len(p) : IsFrozen(p[k])
  <2>1. \A j \in 1..Len(r) : (j \in 1..Len(q) /\ r[j] = q[j]) \/ IsFrozen(r[j]) BY <1>5, <1>7
  <2>2. \A j \in 1..Len(r) : IsFrozen(r[j]) \/ \E i \in 1..(m + 1) : r[j] = b.entries[i]
    BY <1>4, <2>1 DEF Gathered
  <2>3. \A j, k \in 1..Len(r) : r[j].id = r[k].id /\ r[j].id # 0 => j = k
    BY <2>1 DEF Gathered, IsFrozen
  <2> QED BY <2>2, <2>3 DEF Gathered, r
<1> QED BY <1>6, <1>7

\* Each entry as it is, or the entries it becomes.
FrozenParts(b) ==
  [i \in DOMAIN b.entries |->
     IF IsCompositable(b.entries[i]) THEN <<b.entries[i]>> ELSE FrozenEntries(b.entries[i])]

LEMMA PartsOK ==
  ASSUME NEW b, BufferOK(b)
  PROVE  /\ FrozenParts(b) \in Seq(Seq(RawEntry)) /\ Len(FrozenParts(b)) = Len(b.entries)
         /\ \A i \in 1..Len(b.entries) :
              \/ FrozenParts(b)[i] = <<b.entries[i]>>
              \/ \A k \in 1..Len(FrozenParts(b)[i]) : IsFrozen(FrozenParts(b)[i][k])
<1> DEFINE n == Len(b.entries)
           parts == FrozenParts(b)
<1>1. /\ n \in Nat /\ DOMAIN b.entries = 1..n
      /\ \A i \in 1..n : EntryOK(b.entries[i])
  BY BufferParts
<1>2. DOMAIN parts = 1..n /\ parts = [i \in 1..n |-> parts[i]] BY <1>1 DEF FrozenParts
<1>3. ASSUME NEW i \in 1..n
      PROVE  /\ parts[i] \in Seq(RawEntry)
             /\ \/ parts[i] = <<b.entries[i]>>
                \/ \A k \in 1..Len(parts[i]) : IsFrozen(parts[i][k])
  <2>1. parts[i] = IF IsCompositable(b.entries[i]) THEN <<b.entries[i]>> ELSE FrozenEntries(b.entries[i])
    BY <1>1 DEF FrozenParts
  <2>2. EntryOK(b.entries[i]) /\ b.entries[i] \in Entry BY <1>1 DEF EntryOK
  <2>3. b.entries[i] \in RawEntry BY <2>2 DEF Entry, RawEntry
  <2> HIDE DEF parts
  <2>4. CASE IsCompositable(b.entries[i])
    BY <2>3, <2>1, <2>4
  <2>5. CASE ~IsCompositable(b.entries[i]) BY <2>1, <2>2, <2>5, FrozenEntriesOK
  <2> QED BY <2>4, <2>5
<1> HIDE DEF parts, n
<1>4. [i \in 1..n |-> parts[i]] \in Seq(Seq(RawEntry)) BY <1>1, <1>3
<1>5. parts \in Seq(Seq(RawEntry)) BY <1>2, <1>4
<1>6. Len(parts) = n BY <1>1, <1>2, <1>5
<1> QED BY <1>3, <1>5, <1>6 DEF parts, n

\* What the parts are together, and how much of it the first ones are.
LEMMA PartsGathered ==
  ASSUME NEW b, BufferOK(b), NEW caret \in 0..Len(b.entries)
  PROVE  /\ FlattenSeq(FrozenParts(b)) \in Seq(RawEntry)
         /\ Gathered(FlattenSeq(FrozenParts(b)), b.entries, Len(b.entries))
         /\ Len(FlattenSeq(SubSeq(FrozenParts(b), 1, caret))) \in 0..Len(FlattenSeq(FrozenParts(b)))
<1> DEFINE n == Len(b.entries)
           parts == FrozenParts(b)
<1>0. n \in Nat BY BufferParts
<1>1. /\ parts \in Seq(Seq(RawEntry)) /\ Len(parts) = n
      /\ \A i \in 1..n : \/ parts[i] = <<b.entries[i]>>
                         \/ \A k \in 1..Len(parts[i]) : IsFrozen(parts[i][k])
  BY PartsOK
<1> HIDE DEF parts
<1>2. PICK f : Joined(f, RawEntry, parts) BY <1>1, JoinedExists
<1>3. FlattenSeq(parts) = f[n] BY <1>1, <1>2, FlattenJoined
<1>4. FlattenSeq(SubSeq(parts, 1, caret)) = f[caret]
  BY <1>1, <1>2, JoinedFirst
<1>5. /\ f \in [0..n -> Seq(RawEntry)] /\ f[0] = <<>>
      /\ \A i \in 1..n : f[i] = f[i - 1] \o parts[i]
  BY <1>1, <1>2 DEF Joined
<1> DEFINE Good == {m \in 0..n : /\ Gathered(f[m], b.entries, m)
                                 /\ caret <= m => Len(f[caret]) <= Len(f[m])}
<1>6. 0 \in Good
  BY <1>5, <1>0 DEF Gathered
<1>7. ASSUME NEW m \in 0..n, m \in Good, m # n PROVE m + 1 \in Good
  <2>1. m \in Nat /\ m + 1 \in 1..n /\ m + 1 \in 0..n /\ (m + 1) - 1 = m /\ m + 1 <= n
    BY <1>0, <1>7
  <2>2. f[m + 1] = f[m] \o parts[m + 1] BY <1>5, <2>1
  <2>3. PICK q \in Seq(RawEntry), p \in Seq(RawEntry) : q = f[m] /\ p = parts[m + 1]
    BY <1>1, <1>5, <2>1
  <2>4. \/ p = <<b.entries[m + 1]>>
        \/ \A k \in 1..Len(p) : IsFrozen(p[k])
    BY <1>1, <2>1, <2>3
  <2>5. Gathered(q, b.entries, m) BY <1>7, <2>3
  <2>6. Gathered(q \o p, b.entries, m + 1) BY <2>1, <2>4, <2>5, GatheredMore
  <2>7. Len(q) <= Len(q \o p) /\ Len(q) \in Nat /\ Len(q \o p) \in Nat
    BY ConcatProperties
  <2>7a. f[m + 1] = q \o p BY <2>2, <2>3
  <2>8. ASSUME caret <= m + 1 PROVE Len(f[caret]) <= Len(f[m + 1])
    <3>1. CASE caret = m + 1
      BY <1>5, <2>1, <3>1
    <3>2. CASE caret # m + 1
      <4>1. caret <= m BY <2>1, <2>8, <3>2
      <4>2. Len(f[caret]) <= Len(q) BY <1>7, <2>3, <4>1
      <4>3. Len(f[caret]) \in Nat BY <1>5
      <4>4. Len(f[m + 1]) = Len(q \o p) BY <2>7a
        <4> HIDE DEF n
        <4> QED BY <2>7, <4>2, <4>3, <4>4
    <3> QED BY <3>1, <3>2
  <2> QED BY <2>1, <2>2, <2>3, <2>6, <2>8
<1>8. \A i \in 0..n : i \in Good
  <2> HIDE DEF Good, n
  <2> QED BY <1>0, <1>6, <1>7, UpTo
<1>9. n \in Good BY <1>0, <1>8
<1>10. caret <= n /\ n \in 0..n BY <1>0
<1>11. Len(f[caret]) \in Nat /\ Len(f[n]) \in Nat BY <1>5, <1>10
<1> QED BY SMTT(20), <1>3, <1>4, <1>5, <1>9, <1>10, <1>11 DEF parts

\* How many of the first ones are counted.
FreshUpTo(flat, j) == Cardinality({k \in 1..j : flat[k].id = 0})

LEMMA FreshIncreases ==
  ASSUME NEW flat, NEW j \in Nat, NEW k \in Nat, j <= k
  PROVE  /\ FreshUpTo(flat, j) \in Nat /\ FreshUpTo(flat, k) \in Nat
         /\ FreshUpTo(flat, j) <= FreshUpTo(flat, k)
         /\ j < k /\ flat[k].id = 0 => FreshUpTo(flat, j) < FreshUpTo(flat, k)
<1> DEFINE S == {i \in 1..k : flat[i].id = 0}
           T == {i \in 1..j : flat[i].id = 0}
<1>1. IsFiniteSet(1..k) BY FS_Interval
<1>2. S \in SUBSET (1..k) /\ T \in SUBSET S OBVIOUS
<1>3. j < k /\ flat[k].id = 0 => S # T
  <2> SUFFICES ASSUME j < k, flat[k].id = 0 PROVE S # T OBVIOUS
  <2>1. k \in S /\ k \notin T OBVIOUS
  <2> QED BY <2>1
<1>4. FreshUpTo(flat, j) = Cardinality(T) /\ FreshUpTo(flat, k) = Cardinality(S) BY DEF FreshUpTo
<1> HIDE DEF S, T
<1>5. IsFiniteSet(S) BY <1>1, <1>2, FS_Subset
<1>6. /\ IsFiniteSet(T) /\ Cardinality(T) <= Cardinality(S)
      /\ Cardinality(S) = Cardinality(T) => S = T
  BY <1>2, <1>5, FS_Subset
<1>7. Cardinality(S) \in Nat /\ Cardinality(T) \in Nat BY <1>5, <1>6, FS_CardinalityType
<1> QED BY <1>3, <1>4, <1>6, <1>7

LEMMA FreezeEdited ==
  ASSUME NEW b, BufferOK(b)
  PROVE  Edited(b, FreezeReadings(b))
<1> DEFINE n == Len(b.entries)
           flat == FlattenSeq(FrozenParts(b))
           m == Len(flat)
           fresh(j) == FreshUpTo(flat, j)
           s == [j \in DOMAIN flat |-> IF flat[j].id # 0 THEN flat[j]
                                       ELSE [flat[j] EXCEPT !.id = b.nextId + fresh(j) - 1]]
           caret == Len(FlattenSeq(SubSeq(FrozenParts(b), 1, b.caret)))
           after == FreezeReadings(b)
<1>0. CASE ~HasUncomposedReading(b) BY <1>0, EditedSame DEF FreezeReadings
<1>a. CASE HasUncomposedReading(b)
  <2>1. after = [entries |-> s, caret |-> caret, revision |-> b.revision + 1,
                 nextId |-> b.nextId + fresh(m)]
    BY <1>a DEF FreezeReadings, FrozenParts, FrozenEntries, FreshUpTo
  <2>2. /\ b.nextId \in Nat \ {0} /\ b.revision \in Nat /\ b.caret \in 0..n /\ n \in Nat
        /\ DOMAIN b.entries = 1..n
        /\ \A i \in 1..n : EntryOK(b.entries[i]) /\ b.entries[i].id < b.nextId
    BY BufferParts
  <2>3. flat \in Seq(RawEntry) /\ Gathered(flat, b.entries, n) /\ caret \in 0..m
    BY <2>2, PartsGathered
  <2> HIDE DEF flat, caret, after, n
  <2>4. m \in Nat /\ DOMAIN flat = 1..m BY <2>3
  <2>5. \A i \in 1..n : b.entries[i].id \in Nat \ {0} BY <2>2, EntryParts DEF EntryOK
  <2> HIDE DEF m
  <2>6. DOMAIN s = 1..m /\ s = [j \in 1..m |-> s[j]] BY <2>4
  <2>7. \A j \in 1..m : s[j] = IF flat[j].id # 0 THEN flat[j]
                               ELSE [flat[j] EXCEPT !.id = b.nextId + fresh(j) - 1]
    BY <2>4
  <2> HIDE DEF s, fresh
  <2>8. \A j, k \in 0..m : j <= k =>
          /\ fresh(j) \in Nat /\ fresh(k) \in Nat /\ fresh(j) <= fresh(k)
          /\ j < k /\ flat[k].id = 0 => fresh(j) < fresh(k)
    <3> TAKE j, k \in 0..m
    <3> HAVE j <= k
    <3> QED BY <2>4, FreshIncreases DEF fresh
  <2>9. \A j \in 1..m : flat[j].id = 0 => fresh(j) \in 1..fresh(m)
    <3> TAKE j \in 1..m
    <3> HAVE flat[j].id = 0
    <3>1. 0 \in 0..m /\ j \in 0..m /\ m \in 0..m /\ 0 < j /\ j <= m BY <2>4
    <3>2. fresh(0) \in Nat /\ fresh(j) \in Nat /\ fresh(m) \in Nat BY <2>8, <3>1
    <3>3. fresh(0) < fresh(j) /\ fresh(j) <= fresh(m) BY <2>8, <3>1
    <3> QED BY <3>2, <3>3
  <2>10. fresh(m) \in Nat
    <3>1. m \in 0..m /\ m <= m BY <2>4
    <3> QED BY <2>8, <3>1
  \* An entry that was there, or a new one.
  <2>11. ASSUME NEW j \in 1..m
         PROVE  \/ flat[j].id # 0 /\ \E i \in 1..n : s[j] = b.entries[i] /\ flat[j] = b.entries[i]
                \/ /\ flat[j].id = 0 /\ EntryOK(s[j]) /\ ~IsModel(s[j])
                   /\ s[j].id = b.nextId + fresh(j) - 1
    <3>1. CASE \E i \in 1..n : flat[j] = b.entries[i] BY <2>5, <2>7, <3>1
    <3>2. CASE IsFrozen(flat[j])
      <4>1. flat[j].id = 0 BY <3>2 DEF IsFrozen
      <4>2. PICK id \in Nat \ {0} : id = b.nextId + fresh(j) - 1
        BY <2>9, <4>1, <2>2, <2>10
      <4>3. s[j] = [flat[j] EXCEPT !.id = id] BY <2>7, <4>1, <4>2
      <4>4. EntryOK(s[j]) /\ ~IsModel(s[j]) /\ s[j].id = id BY <3>2, <4>3 DEF IsFrozen
      <4> QED BY <4>1, <4>2, <4>4
    <3>3. j \in 1..Len(flat) BY DEF m
    <3> QED BY <2>3, <3>1, <3>2, <3>3 DEF Gathered
  <2>12. ASSUME NEW j \in 1..m
         PROVE EntryOK(s[j]) /\ s[j].id < b.nextId + fresh(m) /\ s[j] \in Entry
    <3>1. CASE \E i \in 1..n : s[j] = b.entries[i]
      BY <2>2, <2>5, <2>10, <3>1 DEF EntryOK
    <3>2. CASE flat[j].id = 0 /\ EntryOK(s[j]) /\ s[j].id = b.nextId + fresh(j) - 1
      BY <2>9, <3>2, <2>2, <2>10 DEF EntryOK
    <3> QED BY <2>11, <3>1, <3>2
  <2>13. \A j, k \in 1..m : s[j].id = s[k].id => j = k
    <3> SUFFICES ASSUME NEW j \in 1..m, NEW k \in 1..m, s[j].id = s[k].id PROVE j = k OBVIOUS
    <3>1. CASE flat[j].id # 0
      <4>1. PICK i \in 1..n : s[j] = b.entries[i] /\ flat[j] = b.entries[i] BY <2>11, <3>1
      <4>2. flat[k].id # 0
        <5>1. s[k].id < b.nextId /\ s[k].id \in Nat BY <2>2, <2>5, <4>1
        <5>2. flat[k].id = 0 => s[k].id >= b.nextId
          <6> SUFFICES ASSUME flat[k].id = 0 PROVE s[k].id >= b.nextId OBVIOUS
          <6>1. fresh(k) \in 1..fresh(m) BY <2>9
          <6>2. s[k].id = b.nextId + fresh(k) - 1 BY <2>11
          <6> QED BY <2>2, <2>10, <6>1, <6>2
        <5> QED BY <2>2, <5>1, <5>2
      <4>3. PICK l \in 1..n : s[k] = b.entries[l] /\ flat[k] = b.entries[l] BY <2>11, <4>2
      <4>4. flat[j].id = flat[k].id BY <4>1, <4>3
      <4>5. j \in 1..Len(flat) /\ k \in 1..Len(flat) BY DEF m
      <4> QED BY <2>3, <3>1, <4>4, <4>5 DEF Gathered
    <3>2. CASE flat[j].id = 0
      <4>1. fresh(j) \in 1..fresh(m) /\ s[j].id = b.nextId + fresh(j) - 1 BY <2>9, <2>11, <3>2
      <4>2. flat[k].id = 0
        <5> SUFFICES ASSUME flat[k].id # 0 PROVE FALSE OBVIOUS
        <5>1. PICK i \in 1..n : s[k] = b.entries[i] BY <2>11
        <5>2. s[k].id < b.nextId /\ s[k].id \in Nat BY <2>2, <2>5, <5>1
        <5>3. s[j].id >= b.nextId BY <2>2, <2>10, <4>1
        <5> QED BY <2>2, <5>2, <5>3
      <4>3. fresh(k) \in 1..fresh(m) /\ s[k].id = b.nextId + fresh(k) - 1 BY <2>9, <2>11, <4>2
      <4>4. fresh(j) = fresh(k)
        <5>1. b.nextId + fresh(j) - 1 = b.nextId + fresh(k) - 1 BY <4>1, <4>3
        <5>2. b.nextId \in Nat /\ fresh(j) \in Nat /\ fresh(k) \in Nat BY <2>2, <2>10, <4>1, <4>3
        <5>3. PICK x \in Nat, y \in Nat, z \in Nat : x = fresh(j) /\ y = fresh(k) /\ z = b.nextId
          BY <5>2
        <5>4. z + x - 1 = z + y - 1 BY <5>1, <5>3
        <5>5. x = y BY <5>4
        <5> QED BY <5>3, <5>5
      <4>5. CASE j < k
        BY <4>5, <2>8, <4>2, <2>10, <4>1, <4>4
      <4>6. CASE k < j
        BY <4>6, <2>8, <3>2, <2>10, <4>1, <4>4
      <4> QED BY <2>4, <4>5, <4>6
    <3> QED BY <3>1, <3>2
  <2>14. s \in Seq(Entry) /\ Len(s) = m
    BY <2>4, <2>12, <2>6
  <2>15. b.revision + 1 \in Nat /\ b.nextId + fresh(m) \in Nat \ {0} /\ caret \in 0..Len(s)
    BY <2>2, <2>3, <2>10, <2>14 DEF m
  <2>16. BufferOK(after) BY <2>1, <2>12, <2>13, <2>14, <2>15, BufferMade
  <2>17. ASSUME NEW j \in DOMAIN after.entries
         PROVE  \/ after.entries[j].id >= b.nextId /\ ~IsModel(after.entries[j])
                \/ \E i \in DOMAIN b.entries : Became(b.entries[i], after.entries[j])
    BY <2>1, <2>6, <2>17, <2>2, <2>9, <2>10, <2>11 DEF Became
  <2>18. b.nextId <= after.nextId BY <2>1, <2>2, <2>10
  <2> QED BY <2>16, <2>17, <2>18 DEF Edited, after
<1> QED BY <1>0, <1>a

-----------------------------------------------------------------------------
(***************************************************************************)
(* Converting                                                              *)
(***************************************************************************)
\* A newer version of the entry e, or the same with a newer conversion.
Newer(e, f) == e.id = f.id /\ (f.version > e.version \/ (f.version = e.version /\ f.by >= e.by))

\* What became of a buffer: its entries are newer, and others are new.
Grown(b, after) ==
  /\ b.nextId <= after.nextId
  /\ \A j \in DOMAIN after.entries :
       \/ after.entries[j].id >= b.nextId
       \/ \E i \in DOMAIN b.entries : Newer(b.entries[i], after.entries[j])

\* Conversions shown were asked for.
Known(b, epoch, asked) ==
  \A i \in DOMAIN b.entries :
    IsModel(b.entries[i]) => Asked(b.entries[i].by, epoch, b.entries[i]) \in asked

LEMMA EditedGrown ==
  ASSUME NEW b, BufferOK(b), NEW after, Edited(b, after)
  PROVE  /\ Grown(b, after) /\ BufferOK(after)
         /\ \A epoch, asked : Known(b, epoch, asked) => Known(after, epoch, asked)
<1>1. BufferOK(after) BY DEF Edited
<1>2. \A i \in DOMAIN b.entries : b.entries[i].by \in Nat
  BY EntryParts DEF BufferOK, EntryOK
<1>3. Grown(b, after)
  BY <1>2 DEF Became, Newer, Grown, Edited
<1>4. ASSUME NEW epoch, NEW asked, Known(b, epoch, asked) PROVE Known(after, epoch, asked)
  <2> SUFFICES ASSUME NEW j \in DOMAIN after.entries, IsModel(after.entries[j])
               PROVE  Asked(after.entries[j].by, epoch, after.entries[j]) \in asked
    BY DEF Known
  <2>1. PICK i \in DOMAIN b.entries : Became(b.entries[i], after.entries[j]) BY DEF Edited
  <2>2. /\ b.entries[i].id = after.entries[j].id /\ b.entries[i].version = after.entries[j].version
        /\ b.entries[i].by = after.entries[j].by /\ b.entries[i].text = after.entries[j].text
    BY <2>1 DEF Became
  <2> QED BY <1>4, <2>2 DEF Known, IsModel, Asked
<1> QED BY <1>1, <1>3, <1>4

LEMMA GrownSame ==
  ASSUME NEW b, BufferOK(b)
  PROVE  Grown(b, b)
BY EditedSame, EditedGrown

LEMMA GrownThen ==
  ASSUME NEW a, NEW b, NEW c, BufferOK(a), BufferOK(b), BufferOK(c), Grown(a, b), Grown(b, c)
  PROVE  Grown(a, c)
<1>1. a.nextId \in Nat /\ b.nextId \in Nat /\ c.nextId \in Nat BY DEF BufferOK, Buffer
<1>2. ASSUME NEW j \in DOMAIN c.entries
      PROVE  \/ c.entries[j].id >= a.nextId
             \/ \E i \in DOMAIN a.entries : Newer(a.entries[i], c.entries[j])
  <2> DEFINE f == c.entries[j]
  <2>1. f \in Entry BY DEF BufferOK, EntryOK
  <2>2. f.id \in Nat /\ f.version \in Nat /\ f.by \in Nat BY <2>1, EntryParts
  <2>3. CASE f.id >= b.nextId BY <1>1, <2>2, <2>3 DEF Grown
  <2>4. CASE \E k \in DOMAIN b.entries : Newer(b.entries[k], f)
    <3>1. PICK k \in DOMAIN b.entries : Newer(b.entries[k], f) BY <2>4
    <3>2. b.entries[k] \in Entry BY DEF BufferOK, EntryOK
    <3>3. b.entries[k].version \in Nat /\ b.entries[k].by \in Nat BY <3>2, EntryParts
    <3>4. CASE b.entries[k].id >= a.nextId BY <3>1, <3>4 DEF Newer
    <3>5. CASE \E i \in DOMAIN a.entries : Newer(a.entries[i], b.entries[k])
      <4>1. PICK i \in DOMAIN a.entries : Newer(a.entries[i], b.entries[k]) BY <3>5
      <4>2. a.entries[i] \in Entry BY DEF BufferOK, EntryOK
      <4>3. a.entries[i].version \in Nat /\ a.entries[i].by \in Nat BY <4>2, EntryParts
      <4>4. Newer(a.entries[i], f) BY <2>2, <3>1, <3>3, <4>1, <4>3 DEF Newer
      <4> QED BY <4>4
    <3> QED BY <3>4, <3>5 DEF Grown
  <2> QED BY <2>3, <2>4 DEF Grown
<1> QED BY <1>1, <1>2 DEF Grown

LEMMA ConvertedOK ==
  ASSUME NEW e, EntryOK(e), NEW sequence \in Nat, NEW single \in BOOLEAN
  PROVE  LET f == Converted(e, sequence, single)
         IN  EntryOK(f) /\ f.id = e.id /\ f.version = e.version /\ f.by = sequence
<1> DEFINE t == Characters("model", e, 1, sequence)
           kind == IF single THEN "fixed" ELSE "syllable"
           f == Converted(e, sequence, single)
<1>0. e \in Entry BY DEF EntryOK
<1>1. /\ e.id \in Nat \ {0} /\ e.version \in Nat /\ e.symbols \in Nat
      /\ DOMAIN e = {"id", "version", "kind", "symbols", "pending", "by", "text"}
  BY <1>0, EntryParts
<1>2. t \in Seq(Letter) /\ Len(t) = 1 /\ t[1][1] = "model"
  <2>1. PICK form \in Forms, one \in Nat : form = "model" /\ one = 1 BY DEF Forms
  <2>2. e.id \in Nat /\ e.version \in Nat BY <1>1
  <2>3. /\ Characters(form, e, one, sequence) \in Seq(Letter)
        /\ DOMAIN Characters(form, e, one, sequence) = 1..one
        /\ \A k \in 1..one : Characters(form, e, one, sequence)[k][1] = form
    BY <2>2, CharactersType
  <2>4. t \in Seq(Letter) /\ DOMAIN t = 1..1 /\ t[1][1] = "model" BY <2>1, <2>3
  <2> HIDE DEF t
  <2> QED BY <2>4
<1>3. f = [e EXCEPT !.kind = kind, !.pending = FALSE, !.by = sequence, !.text = t]
  BY DEF Converted
<1>4. kind \in {"syllable", "fixed"} OBVIOUS
<1> HIDE DEF f, t, kind
<1>5. /\ f.id = e.id /\ f.version = e.version /\ f.kind = kind /\ f.symbols = e.symbols
      /\ f.pending = FALSE /\ f.by = sequence /\ f.text = t
      /\ DOMAIN f = {"id", "version", "kind", "symbols", "pending", "by", "text"}
  BY <1>1, <1>3
<1>6. f = [k \in DOMAIN f |-> f[k]] BY <1>1, <1>3
<1>7. f.pending \in BOOLEAN BY <1>5, Zenon
<1>8. f.kind \in {"reading", "invalid", "syllable", "fixed"} BY <1>4, <1>5
<1>9. f.id \in Nat \ {0} /\ f.version \in Nat /\ f.symbols \in Nat /\ f.by \in Nat
      /\ f.text \in Seq(Letter)
  BY <1>1, <1>2, <1>5
<1>10. f \in Entry BY <1>5, <1>6, <1>7, <1>8, <1>9, EntryMade
<1>11. EntryOK(f)
  BY <1>2, <1>4, <1>5, <1>10, ComposedOK DEF IsCompositable, Plain
<1> QED BY <1>5, <1>11 DEF f

\* Each entry stays, or shows the result it was asked for; the locked one stays.
LEMMA MergeFacts ==
  ASSUME NEW b, BufferOK(b), NEW sequence \in Nat, NEW request, NEW outcome, NEW lock
  PROVE  LET after == Merge(b, sequence, request, outcome, lock)
         IN  /\ BufferOK(after) /\ Grown(b, after)
             /\ DOMAIN after.entries = DOMAIN b.entries
             /\ \A i \in DOMAIN b.entries : after.entries[i].id = b.entries[i].id
             /\ \A i \in DOMAIN b.entries :
                  b.entries[i].id = lock => after.entries[i] = b.entries[i]
             /\ \A epoch, asked :
                  Known(b, epoch, asked) /\
                  (\A k \in 1..outcome.predicted : Asked(sequence, epoch, request[k]) \in asked)
                    => Known(after, epoch, asked)
<1> DEFINE hits(e) == Hits(e, sequence, request, outcome)
           new(e) == IF hits(e) # {} /\ e.id # lock
                     THEN Converted(e, sequence, \E k \in hits(e) : k \in outcome.singles)
                     ELSE e
           s == [i \in DOMAIN b.entries |-> new(b.entries[i])]
           after == Merge(b, sequence, request, outcome, lock)
<1>1. after = [b EXCEPT !.entries = s] BY DEF Merge
<1>2. DOMAIN s = DOMAIN b.entries /\ s = [i \in DOMAIN s |-> s[i]] OBVIOUS
<1>3. ASSUME NEW e, EntryOK(e)
      PROVE  /\ EntryOK(new(e)) /\ new(e).id = e.id
             /\ \/ new(e) = e
                \/ /\ new(e).version = e.version /\ new(e).by = sequence /\ new(e).id # lock
                   /\ \E k \in 1..outcome.predicted : StillSame(e, request[k], sequence)
  <2>1. CASE hits(e) # {} /\ e.id # lock
    <3>1. PICK single \in BOOLEAN : single = (\E k \in hits(e) : k \in outcome.singles)
      OBVIOUS
    <3>2. new(e) = Converted(e, sequence, single) BY <2>1, <3>1
    <3> HIDE DEF new
    <3>3. /\ EntryOK(new(e)) /\ new(e).id = e.id /\ new(e).version = e.version
          /\ new(e).by = sequence
      BY <1>3, <3>2, ConvertedOK
    <3>4. \E k \in 1..outcome.predicted : StillSame(e, request[k], sequence) BY <2>1 DEF Hits
    <3> QED BY <2>1, <3>3, <3>4
  <2>2. CASE ~(hits(e) # {} /\ e.id # lock) BY <1>3, <2>2
  <2> QED BY <2>1, <2>2
<1>4. \A i \in DOMAIN s : s[i] = new(b.entries[i]) OBVIOUS
<1> HIDE DEF s, new, after
<1>5. /\ b.entries \in Seq(Entry) /\ b.nextId \in Nat \ {0} /\ Len(b.entries) \in Nat
      /\ b.caret \in 0..Len(b.entries) /\ DOMAIN b.entries = 1..Len(b.entries)
      /\ b.revision \in Nat
      /\ \A i \in 1..Len(b.entries) : EntryOK(b.entries[i]) /\ b.entries[i].id < b.nextId
      /\ \A i, j \in 1..Len(b.entries) : b.entries[i].id = b.entries[j].id => i = j
  BY BufferParts
<1>6. \A i \in DOMAIN s : /\ EntryOK(s[i]) /\ s[i].id = b.entries[i].id /\ s[i] \in Entry
                          /\ b.entries[i].id = lock => s[i] = b.entries[i]
                          /\ \/ s[i] = b.entries[i]
                             \/ /\ s[i].version = b.entries[i].version /\ s[i].by = sequence
                                /\ \E k \in 1..outcome.predicted :
                                     StillSame(b.entries[i], request[k], sequence)
  BY <1>2, <1>3, <1>4, <1>5 DEF EntryOK
<1>7. s \in Seq(Entry) /\ Len(s) = Len(b.entries)
  BY <1>2, <1>5, <1>6
<1>8. after = [entries |-> s, caret |-> b.caret, revision |-> b.revision, nextId |-> b.nextId]
  BY <1>1, BufferExcept
<1>9. BufferOK(after)
  <2>1. \A i \in 1..Len(s) : EntryOK(s[i]) /\ s[i].id < b.nextId BY <1>2, <1>5, <1>6, <1>7
  <2>2. \A i, j \in 1..Len(s) : s[i].id = s[j].id => i = j BY <1>2, <1>5, <1>6, <1>7
  <2>3. b.caret \in 0..Len(s) BY <1>5, <1>7
  <2> QED BY <1>5, <1>7, <1>8, <2>1, <2>2, <2>3, BufferMade
<1>10. after.entries = s /\ after.nextId = b.nextId BY <1>8
<1>11. Grown(b, after)
  <2>1. ASSUME NEW i \in DOMAIN s PROVE Newer(b.entries[i], s[i])
    <3>1. b.entries[i] \in Entry BY <1>2, <1>5 DEF EntryOK
    <3>2. b.entries[i].by \in Nat BY <3>1, EntryParts
    <3>3. CASE s[i] = b.entries[i] BY <3>2, <3>3 DEF Newer
    <3>4. CASE /\ s[i].version = b.entries[i].version /\ s[i].by = sequence
               /\ \E k \in 1..outcome.predicted : StillSame(b.entries[i], request[k], sequence)
      BY <1>6, <3>2, <3>4 DEF Newer, StillSame
    <3> QED BY <1>6, <3>3, <3>4
  <2> QED BY <1>2, <1>5, <1>10, <2>1 DEF Grown
<1>12. ASSUME NEW epoch, NEW asked, Known(b, epoch, asked),
              \A k \in 1..outcome.predicted : Asked(sequence, epoch, request[k]) \in asked
       PROVE  Known(after, epoch, asked)
  <2> SUFFICES ASSUME NEW i \in DOMAIN s, IsModel(s[i])
               PROVE  Asked(s[i].by, epoch, s[i]) \in asked
    BY <1>10 DEF Known
  <2>1. CASE s[i] = b.entries[i] BY <1>2, <1>12, <2>1 DEF Known
  <2>2. CASE /\ s[i].version = b.entries[i].version /\ s[i].by = sequence
             /\ \E k \in 1..outcome.predicted : StillSame(b.entries[i], request[k], sequence)
    <3>1. PICK k \in 1..outcome.predicted : StillSame(b.entries[i], request[k], sequence) BY <2>2
    <3>2. Asked(s[i].by, epoch, s[i]) = Asked(sequence, epoch, request[k])
      BY <1>6, <2>2, <3>1 DEF Asked, StillSame
    <3> QED BY <1>12, <3>2
  <2> QED BY <1>6, <2>1, <2>2
<1> QED BY <1>2, <1>6, <1>9, <1>10, <1>11, <1>12 DEF after

-----------------------------------------------------------------------------
(***************************************************************************)
(* What a segment waits for: the inductive invariant Good                  *)
(***************************************************************************)
SegmentFields ==
  {"doc", "buffer", "shown", "preceding", "stage", "awaited", "erased", "placed"}

\* The records have the fields the methods assign.
IsState(st) ==
  /\ DOMAIN st = {"composition", "nextEpoch", "tracker", "segments", "connected", "queue", "owed"}
  /\ DOMAIN st.composition =
       {"epoch", "doc", "preceding", "buffer", "list", "lock", "held", "sent", "converted"}
  /\ DOMAIN st.tracker = {"sequence", "pending", "asked"}
  /\ \A e \in DOMAIN st.segments : DOMAIN st.segments[e] = SegmentFields

\* Requests and compositions are numbered, and a composition is open or sealed.
Numbered(tr) ==
  /\ tr.sequence \in Nat
  /\ DOMAIN tr.pending \subseteq 1..tr.sequence
  /\ \A a \in tr.asked : a[1] \in 1..tr.sequence

Counted(c, next, tr, segs) ==
  /\ Numbered(tr)
  /\ next \in Nat \ {0}
  /\ c.epoch \in 0..(next - 1)
  /\ DOMAIN segs \subseteq 1..(next - 1)
  /\ c.epoch \notin DOMAIN segs
  /\ \A s \in DOMAIN tr.pending : tr.pending[s].epoch \in 0..(next - 1)

\* No request of the composition is newer than this one; if it is not answered,
\* none was ever sent after it.
NewestOf(tr, epoch, sequence) ==
  /\ sequence \in 0..tr.sequence
  /\ sequence \in DOMAIN tr.pending =>
       tr.pending[sequence].epoch = epoch /\ ~SentLater(tr, sequence, epoch)
  /\ \A s \in DOMAIN tr.pending : tr.pending[s].epoch = epoch => s <= sequence

Awaiting(segs, tr) ==
  \A e \in DOMAIN segs : segs[e].stage = "converting" =>
    segs[e].awaited \in DOMAIN tr.pending /\ NewestOf(tr, e, segs[e].awaited)

SentNewest(c, tr) == c.epoch # 0 => NewestOf(tr, c.epoch, c.sent.sequence)

\* The invariant; without waits, of a state between two steps of a method, in
\* which the segments may wait for requests already forgotten.
Good(st, waits) ==
  /\ IsState(st)
  /\ Counted(st.composition, st.nextEpoch, st.tracker, st.segments)
  /\ SentNewest(st.composition, st.tracker)
  /\ waits => Awaiting(st.segments, st.tracker)

IInv == Good(Now, TRUE)

-----------------------------------------------------------------------------
(***************************************************************************)
(* The tracker                                                             *)
(***************************************************************************)
\* Send adds a request under a number that was never used.
LEMMA SendFacts ==
  ASSUME NEW tr, NEW request, Numbered(tr)
  PROVE  /\ DOMAIN Send(tr, request) = {"sequence", "pending", "asked"}
         /\ Send(tr, request).sequence = tr.sequence + 1
         /\ DOMAIN Send(tr, request).pending = DOMAIN tr.pending \union {tr.sequence + 1}
         /\ Send(tr, request).pending[tr.sequence + 1] = request
         /\ \A s \in DOMAIN tr.pending : Send(tr, request).pending[s] = tr.pending[s]
         /\ \A a \in Send(tr, request).asked :
              a \in tr.asked \/ (a[1] = tr.sequence + 1 /\ a[2] = request.epoch)
         /\ Numbered(Send(tr, request))
<1> DEFINE sent == Send(tr, request)
<1>1. /\ DOMAIN sent = {"sequence", "pending", "asked"}
      /\ sent.sequence = tr.sequence + 1
      /\ sent.pending = Put(tr.pending, tr.sequence + 1, request)
  BY DEF Send
<1>2. tr.sequence + 1 \notin DOMAIN tr.pending
  BY DEF Numbered
<1>3. /\ DOMAIN sent.pending = DOMAIN tr.pending \union {tr.sequence + 1}
      /\ sent.pending[tr.sequence + 1] = request
      /\ \A s \in DOMAIN tr.pending : sent.pending[s] = tr.pending[s]
  BY <1>1, <1>2 DEF Put
<1>4. \A a \in sent.asked :
        a \in tr.asked \/ (a[1] = tr.sequence + 1 /\ a[2] = request.epoch)
  BY DEF Send, Asked
<1> HIDE DEF sent
<1>5. Numbered(sent) BY <1>1, <1>3, <1>4 DEF Numbered
<1> QED BY <1>1, <1>3, <1>4, <1>5 DEF sent

\* The request just sent is the newest of its composition, and what was the
\* newest of another one still is.
LEMMA NewestAfterSend ==
  ASSUME NEW tr, NEW request, Numbered(tr)
  PROVE  /\ NewestOf(Send(tr, request), request.epoch, tr.sequence + 1)
         /\ \A epoch, s : NewestOf(tr, epoch, s) /\ epoch # request.epoch
              => NewestOf(Send(tr, request), epoch, s)
<1> DEFINE sent == Send(tr, request)
<1>1. /\ sent.sequence = tr.sequence + 1
      /\ DOMAIN sent.pending = DOMAIN tr.pending \union {tr.sequence + 1}
      /\ sent.pending[tr.sequence + 1] = request
      /\ \A s \in DOMAIN tr.pending : sent.pending[s] = tr.pending[s]
      /\ \A a \in sent.asked :
           a \in tr.asked \/ (a[1] = tr.sequence + 1 /\ a[2] = request.epoch)
  BY SendFacts
<1> HIDE DEF sent
<1>2. NewestOf(sent, request.epoch, tr.sequence + 1)
  BY <1>1 DEF NewestOf, SentLater, Numbered
<1>3. ASSUME NEW epoch, NEW s, NewestOf(tr, epoch, s), epoch # request.epoch
      PROVE  NewestOf(sent, epoch, s)
  BY <1>1, <1>3 DEF NewestOf, SentLater, Numbered
<1> QED BY <1>2, <1>3 DEF sent

-----------------------------------------------------------------------------
(***************************************************************************)
(* What preserves Good                                                     *)
(***************************************************************************)
\* Good depends on no more than this of a controller state.
LEMMA GoodFrame ==
  ASSUME NEW st, NEW waits \in BOOLEAN, NEW other, Good(st, waits), IsState(other),
         other.tracker = st.tracker, other.nextEpoch = st.nextEpoch,
         other.segments = st.segments,
         other.composition.epoch = st.composition.epoch,
         other.composition.sent = st.composition.sent
  PROVE  Good(other, waits)
BY DEF Good, Counted, SentNewest

LEMMA GoodWeaker ==
  ASSUME NEW st, Good(st, TRUE)
  PROVE  Good(st, FALSE)
BY DEF Good

LEMMA GoodRun ==
  ASSUME NEW st, NEW waits \in BOOLEAN, NEW d, NEW edit, Good(st, waits)
  PROVE  Good(Run(st, d, edit), waits)
BY DEF Good, IsState, Run

LEMMA GoodBuffer ==
  ASSUME NEW st, NEW waits \in BOOLEAN, NEW b, Good(st, waits)
  PROVE  Good(WithBuffer(st, b), waits)
BY GoodFrame DEF Good, IsState, WithBuffer

LEMMA GoodList ==
  ASSUME NEW st, NEW waits \in BOOLEAN, Good(st, waits)
  PROVE  Good(WithoutList(st), waits)
BY GoodFrame DEF Good, IsState, WithoutList

LEMMA GoodNone ==
  ASSUME NEW st, NEW waits \in BOOLEAN, Good(st, waits)
  PROVE  Good(WithoutComposition(st), waits)
<1> DEFINE t == WithoutComposition(st)
<1>1. /\ DOMAIN t = DOMAIN st
      /\ t.composition = NoComposition
      /\ t.tracker = st.tracker /\ t.nextEpoch = st.nextEpoch /\ t.segments = st.segments
  BY DEF WithoutComposition, Good, IsState
<1> HIDE DEF t
<1>2. NoComposition.epoch = 0
  BY DEF NoComposition, NewComposition
<1>3. DOMAIN NoComposition =
       {"epoch", "doc", "preceding", "buffer", "list", "lock", "held", "sent", "converted"}
  BY DEF NoComposition, NewComposition
<1>4. IsState(t) BY <1>1, <1>3 DEF Good, IsState
<1> QED BY <1>1, <1>2, <1>4 DEF Good, Counted, SentNewest, t

\* Changing a segment so that it waits for nothing new.
LEMMA GoodSegment ==
  ASSUME NEW st, NEW waits \in BOOLEAN, NEW e \in DOMAIN st.segments, NEW s, Good(st, waits),
         DOMAIN s = SegmentFields,
         s.stage = "converting" =>
           st.segments[e].stage = "converting" /\ s.awaited = st.segments[e].awaited
  PROVE  Good([st EXCEPT !.segments[e] = s], waits)
<1> DEFINE t == [st EXCEPT !.segments[e] = s]
<1>1. /\ DOMAIN t = DOMAIN st
      /\ t.composition = st.composition /\ t.tracker = st.tracker /\ t.nextEpoch = st.nextEpoch
      /\ t.segments = [st.segments EXCEPT ![e] = s]
  BY DEF Good, IsState
<1> HIDE DEF t
<1>2. IsState(t) BY <1>1 DEF Good, IsState
<1>3. waits => Awaiting(t.segments, t.tracker) BY <1>1 DEF Good, Awaiting
<1> QED BY <1>1, <1>2, <1>3 DEF Good, Counted, SentNewest, t

LEMMA FinishedFacts ==
  ASSUME NEW s, DOMAIN s = SegmentFields
  PROVE  DOMAIN FinishedLocally(s) = SegmentFields /\ FinishedLocally(s).stage = "finished"
BY DEF FinishedLocally, SegmentFields

\* FinishLocally leaves no segment converting.
LEMMA GoodFinishLocally ==
  ASSUME NEW st, Good(st, FALSE)
  PROVE  Good(FinishLocally(st), TRUE)
<1> DEFINE t == FinishLocally(st)
<1>1. /\ DOMAIN t = DOMAIN st
      /\ t.composition = st.composition /\ t.tracker = st.tracker /\ t.nextEpoch = st.nextEpoch
      /\ t.segments = AllFinished(st.segments)
  BY DEF FinishLocally, Good, IsState
<1> HIDE DEF t
<1>2. /\ DOMAIN t.segments = DOMAIN st.segments
      /\ \A e \in DOMAIN st.segments : t.segments[e] = FinishedLocally(st.segments[e])
  BY <1>1 DEF AllFinished
<1>3. \A e \in DOMAIN st.segments :
        DOMAIN t.segments[e] = SegmentFields /\ t.segments[e].stage = "finished"
  BY <1>2, FinishedFacts DEF Good, IsState
<1>4. IsState(t) BY <1>1, <1>2, <1>3 DEF Good, IsState
<1>5. Awaiting(t.segments, t.tracker) BY <1>2, <1>3 DEF Awaiting
<1> QED BY <1>1, <1>2, <1>4, <1>5 DEF Good, Counted, SentNewest, t

LEMMA GoodForget ==
  ASSUME NEW st, NEW waits \in BOOLEAN, Good(st, waits)
  PROVE  Good([st EXCEPT !.tracker = Forget(@)], FALSE)
<1> DEFINE t == [st EXCEPT !.tracker = Forget(@)]
<1>1. /\ DOMAIN t = DOMAIN st
      /\ t.composition = st.composition /\ t.segments = st.segments /\ t.nextEpoch = st.nextEpoch
      /\ t.tracker = Forget(st.tracker)
  BY DEF Good, IsState
<1> HIDE DEF t
<1>2. /\ DOMAIN t.tracker = DOMAIN st.tracker
      /\ t.tracker.sequence = st.tracker.sequence
      /\ DOMAIN t.tracker.pending = {} /\ t.tracker.asked = st.tracker.asked
  BY <1>1 DEF Forget, Good, IsState
<1>3. IsState(t) BY <1>1, <1>2 DEF Good, IsState
<1>4. Counted(t.composition, t.nextEpoch, t.tracker, t.segments)
  BY <1>1, <1>2 DEF Good, Counted, Numbered
<1>5. SentNewest(t.composition, t.tracker) BY <1>1, <1>2 DEF Good, SentNewest, NewestOf
<1> QED BY <1>3, <1>4, <1>5 DEF Good, t

\* A request that no segment awaits is answered or superseded.
LEMMA GoodTake ==
  ASSUME NEW st, NEW waits \in BOOLEAN, Good(st, waits), NEW sequence,
         waits => \A e \in DOMAIN st.segments :
           st.segments[e].stage = "converting" => st.segments[e].awaited # sequence
  PROVE  Good([st EXCEPT !.tracker = Take(@, sequence)], waits)
<1> DEFINE t == [st EXCEPT !.tracker = Take(@, sequence)]
<1>1. /\ DOMAIN t = DOMAIN st
      /\ t.composition = st.composition /\ t.segments = st.segments /\ t.nextEpoch = st.nextEpoch
      /\ t.tracker = Take(st.tracker, sequence)
  BY DEF Good, IsState
<1> HIDE DEF t
<1>2. /\ DOMAIN t.tracker = DOMAIN st.tracker
      /\ t.tracker.sequence = st.tracker.sequence
      /\ DOMAIN t.tracker.pending = DOMAIN st.tracker.pending \ {sequence}
      /\ \A s \in DOMAIN t.tracker.pending : t.tracker.pending[s] = st.tracker.pending[s]
      /\ t.tracker.asked = st.tracker.asked
  BY <1>1 DEF Take, Restrict, Good, IsState
<1>3. IsState(t) BY <1>1, <1>2 DEF Good, IsState
<1>4. Counted(t.composition, t.nextEpoch, t.tracker, t.segments)
  BY <1>1, <1>2 DEF Good, Counted, Numbered
<1>5. \A e, s : NewestOf(st.tracker, e, s) => NewestOf(t.tracker, e, s)
  BY <1>2 DEF NewestOf, SentLater
<1>6. waits => Awaiting(t.segments, t.tracker)
  BY <1>1, <1>2, <1>5 DEF Good, Awaiting
<1> QED BY <1>1, <1>3, <1>4, <1>5, <1>6 DEF Good, SentNewest, t

-----------------------------------------------------------------------------
(***************************************************************************)
(* Sending                                                                 *)
(***************************************************************************)
LEMMA GoodRequest ==
  ASSUME NEW st, NEW waits \in BOOLEAN, Good(st, waits)
  PROVE  Good(Request(st), waits)
<1>1. CASE ~Requests(st) BY <1>1 DEF Request
<1>2. CASE Requests(st)
  <2> DEFINE c == st.composition
             request == RequestOf(c.epoch, c.doc, c.buffer)
             t == Request(st)
  <2>1. /\ DOMAIN t = DOMAIN st /\ DOMAIN t.composition = DOMAIN st.composition
        /\ t.tracker = Send(st.tracker, request)
        /\ t.segments = st.segments /\ t.nextEpoch = st.nextEpoch
        /\ t.composition.epoch = c.epoch
        /\ t.composition.sent.sequence = st.tracker.sequence + 1
    BY <1>2 DEF Request, Good, IsState
  <2>2. request.epoch = c.epoch BY DEF RequestOf
  <2> HIDE DEF t, request
  <2>3. Numbered(st.tracker) BY DEF Good, Counted
  <2>4. IsState(t) BY <2>1, <2>3, SendFacts DEF Good, IsState
  <2>5. Counted(t.composition, t.nextEpoch, t.tracker, t.segments)
    BY <2>1, <2>2, <2>3, SendFacts DEF Good, Counted
  <2>6. SentNewest(t.composition, t.tracker)
    BY <2>1, <2>2, <2>3, NewestAfterSend DEF SentNewest
  <2>7. waits => Awaiting(t.segments, t.tracker)
    BY <2>1, <2>2, <2>3, SendFacts, NewestAfterSend DEF Good, Counted, Awaiting
  <2> QED BY <2>4, <2>5, <2>6, <2>7 DEF Good, t
<1> QED BY <1>1, <1>2

\* ConvertSegment sends the segment's content and waits for the answer, or
\* finishes it.
LEMMA GoodConvert ==
  ASSUME NEW st, NEW waits \in BOOLEAN, Good(st, waits), NEW e \in DOMAIN st.segments
  PROVE  /\ Good(ConvertSegment(st, e), waits)
         /\ DOMAIN ConvertSegment(st, e).segments = DOMAIN st.segments
<1> DEFINE s == st.segments[e]
           t == ConvertSegment(st, e)
<1>1. DOMAIN s = SegmentFields BY DEF Good, IsState
<1>2. CASE ~(st.connected /\ HasSnapshot(s.buffer))
  BY <1>2, <1>1, FinishedFacts, GoodSegment DEF ConvertSegment, Good, IsState
<1>3. CASE st.connected /\ HasSnapshot(s.buffer)
  <2> DEFINE request == RequestOf(e, s.doc, s.buffer)
             n == st.tracker.sequence + 1
  <2>1. /\ DOMAIN t = DOMAIN st
        /\ t.composition = st.composition /\ t.nextEpoch = st.nextEpoch
        /\ t.tracker = Send(st.tracker, request)
        /\ t.segments = [st.segments EXCEPT ![e].stage = "converting", ![e].awaited = n]
    BY <1>3 DEF ConvertSegment, Good, IsState
  <2>2. request.epoch = e BY DEF RequestOf
  <2> HIDE DEF t, request
  <2>3. /\ DOMAIN t.segments = DOMAIN st.segments
        /\ DOMAIN t.segments[e] = SegmentFields
        /\ t.segments[e].awaited = n
        /\ \A k \in DOMAIN st.segments \ {e} : t.segments[k] = st.segments[k]
    BY <1>1, <2>1 DEF SegmentFields
  <2>4. Numbered(st.tracker) BY DEF Good, Counted
  <2>5. IsState(t) BY <2>1, <2>3, <2>4, SendFacts DEF Good, IsState
  <2>6. Counted(t.composition, t.nextEpoch, t.tracker, t.segments)
    BY <2>1, <2>2, <2>3, <2>4, SendFacts DEF Good, Counted
  <2>7. SentNewest(t.composition, t.tracker)
    BY <2>1, <2>2, <2>4, NewestAfterSend DEF Good, Counted, SentNewest
  <2>8. waits => Awaiting(t.segments, t.tracker)
    BY <2>1, <2>2, <2>3, <2>4, SendFacts, NewestAfterSend DEF Good, Awaiting
  <2> QED BY <2>3, <2>5, <2>6, <2>7, <2>8 DEF Good, t
<1> QED BY <1>2, <1>3

LEMMA GoodWrite ==
  ASSUME NEW st, NEW waits \in BOOLEAN, Good(st, waits), NEW e
  PROVE  Good(WriteIfFinished(st, e), waits)
BY GoodRun DEF WriteIfFinished

-----------------------------------------------------------------------------
(***************************************************************************)
(* The other methods                                                       *)
(***************************************************************************)
LEMMA GoodOpen ==
  ASSUME NEW st, NEW waits \in BOOLEAN, Good(st, waits), NEW d
  PROVE  Good(Open(st, d), waits)
<1>1. CASE st.composition.epoch # 0 BY <1>1 DEF Open
<1>2. CASE st.composition.epoch = 0
  <2> DEFINE c == NewComposition(st.nextEpoch, d)
             t == [st EXCEPT !.composition = c, !.nextEpoch = @ + 1]
  <2>1. /\ DOMAIN t = DOMAIN st
        /\ t.composition = c /\ t.nextEpoch = st.nextEpoch + 1
        /\ t.tracker = st.tracker /\ t.segments = st.segments
    BY DEF Good, IsState
  <2> HIDE DEF t
  <2>2. /\ DOMAIN c =
             {"epoch", "doc", "preceding", "buffer", "list", "lock", "held", "sent", "converted"}
        /\ c.epoch = st.nextEpoch /\ c.sent.sequence = 0
    BY DEF NewComposition, NotSent
  <2> HIDE DEF c
  <2>3. IsState(t) BY <2>1, <2>2 DEF Good, IsState
  <2>4. Counted(t.composition, t.nextEpoch, t.tracker, t.segments)
    BY <2>1, <2>2 DEF Good, Counted
  <2>5. SentNewest(t.composition, t.tracker)
    BY <2>1, <2>2 DEF Good, Counted, Numbered, SentNewest, NewestOf
  <2>6. Good(t, waits) BY <2>1, <2>3, <2>4, <2>5 DEF Good
  <2> QED BY <1>2, <2>6, GoodRun DEF Open, t, c
<1> QED BY <1>1, <1>2

LEMMA GoodDiscard ==
  ASSUME NEW st, NEW waits \in BOOLEAN, Good(st, waits)
  PROVE  Good(Discard(st), waits)
BY GoodNone, GoodRun DEF Discard

LEMMA GoodUpdate ==
  ASSUME NEW st, NEW waits \in BOOLEAN, Good(st, waits)
  PROVE  Good(Update(st), waits)
BY GoodDiscard, GoodRequest, GoodRun DEF Update, ShowAgain

LEMMA GoodDiscardReading ==
  ASSUME NEW st, NEW waits \in BOOLEAN, Good(st, waits)
  PROVE  Good(DiscardReading(st), waits)
BY GoodUpdate, GoodBuffer DEF DiscardReading

\* Leave closes the composition and leaves the rest as it was.
LEMMA LeaveFacts ==
  ASSUME NEW st, NEW waits \in BOOLEAN, Good(st, waits)
  PROVE  /\ Good(Leave(st), waits)
         /\ Leave(st).composition = NoComposition
         /\ Leave(st).tracker = st.tracker /\ Leave(st).nextEpoch = st.nextEpoch
         /\ Leave(st).segments = st.segments
<1> DEFINE n == WithoutComposition(st)
           t == Leave(st)
<1>1. Good(n, waits) BY GoodNone
<1>2. /\ n.composition = NoComposition /\ n.tracker = st.tracker
      /\ n.nextEpoch = st.nextEpoch /\ n.segments = st.segments
  BY DEF WithoutComposition, Good, IsState
<1> HIDE DEF n
<1>3. /\ DOMAIN t = DOMAIN n
      /\ t.composition = n.composition /\ t.tracker = n.tracker
      /\ t.nextEpoch = n.nextEpoch /\ t.segments = n.segments
  BY <1>1 DEF Leave, n, Good, IsState
<1> HIDE DEF t
<1>4. IsState(t) BY <1>1, <1>3 DEF Good, IsState
<1>5. Good(t, waits) BY <1>1, <1>3, <1>4, GoodFrame
<1> QED BY <1>2, <1>3, <1>5 DEF t

LEMMA GoodCommit ==
  ASSUME NEW st, NEW waits \in BOOLEAN, Good(st, waits)
  PROVE  Good(Commit(st), waits)
BY LeaveFacts, GoodRun DEF Commit

\* AddSegment makes a segment of the composition c, just closed; inFlight says
\* that the newest conversion sent for c finishes it.
Added(st, c, inFlight) == [st EXCEPT !.segments = Put(@, c.epoch, NewSegment(c, inFlight))]

LEMMA AddedFacts ==
  ASSUME NEW st, NEW waits \in BOOLEAN, Good(st, waits), NEW c, NEW inFlight \in BOOLEAN,
         c.epoch \in 1..(st.nextEpoch - 1), c.epoch \notin DOMAIN st.segments,
         st.composition.epoch # c.epoch,
         inFlight => /\ c.sent.sequence \in DOMAIN st.tracker.pending
                     /\ NewestOf(st.tracker, c.epoch, c.sent.sequence)
  PROVE  LET t == Added(st, c, inFlight)
         IN  /\ Good(t, waits)
             /\ t.composition = st.composition /\ t.tracker = st.tracker
             /\ t.nextEpoch = st.nextEpoch /\ t.queue = st.queue
             /\ DOMAIN t.segments = DOMAIN st.segments \union {c.epoch}
             /\ t.segments[c.epoch].buffer = c.buffer
             /\ \A e \in DOMAIN st.segments : t.segments[e] = st.segments[e]
<1> DEFINE s == NewSegment(c, inFlight)
           t == [st EXCEPT !.segments = Put(@, c.epoch, s)]
<1>1. /\ DOMAIN t = DOMAIN st
      /\ t.composition = st.composition /\ t.tracker = st.tracker /\ t.nextEpoch = st.nextEpoch
      /\ t.segments = Put(st.segments, c.epoch, s) /\ t.queue = st.queue
  BY DEF Good, IsState
<1>2. /\ DOMAIN s = SegmentFields
      /\ s.stage = "converting" => inFlight /\ s.awaited = c.sent.sequence
      /\ s.buffer = c.buffer
  BY DEF NewSegment, SegmentOf, SegmentFields
<1>8. t = Added(st, c, inFlight) BY DEF Added
<1> HIDE DEF t, s
<1>3. /\ DOMAIN t.segments = DOMAIN st.segments \union {c.epoch}
      /\ t.segments[c.epoch] = s
      /\ \A e \in DOMAIN st.segments : t.segments[e] = st.segments[e]
  BY <1>1 DEF Put
<1>4. IsState(t) BY <1>1, <1>2, <1>3 DEF Good, IsState
<1>5. Counted(t.composition, t.nextEpoch, t.tracker, t.segments)
  BY <1>1, <1>3 DEF Good, Counted
<1>6. waits => Awaiting(t.segments, t.tracker)
  BY <1>1, <1>2, <1>3 DEF Good, Awaiting
<1>7. Good(t, waits) BY <1>1, <1>4, <1>5, <1>6 DEF Good
<1> QED BY <1>1, <1>2, <1>3, <1>7, <1>8

LEMMA GoodAddSegment ==
  ASSUME NEW st, NEW waits \in BOOLEAN, Good(st, waits), NEW c, NEW inFlight \in BOOLEAN,
         c.epoch \in 1..(st.nextEpoch - 1), c.epoch \notin DOMAIN st.segments,
         st.composition.epoch # c.epoch,
         inFlight => /\ c.sent.sequence \in DOMAIN st.tracker.pending
                     /\ NewestOf(st.tracker, c.epoch, c.sent.sequence)
  PROVE  Good(AddSegment(st, c, inFlight), waits)
<1> DEFINE t == Added(st, c, inFlight)
<1>1. Good(t, waits) /\ c.epoch \in DOMAIN t.segments BY AddedFacts
<1>2. \/ AddSegment(st, c, inFlight) = t
      \/ AddSegment(st, c, inFlight) = WriteIfFinished(ConvertSegment(t, c.epoch), c.epoch)
  BY DEF AddSegment, Added
<1> HIDE DEF t
<1> QED BY <1>1, <1>2, GoodConvert, GoodWrite

LEMMA GoodSeal ==
  ASSUME NEW st, NEW waits \in BOOLEAN, Good(st, waits)
  PROVE  Good(Seal(st), waits)
<1>1. CASE st.composition.epoch = 0 BY <1>1 DEF Seal
<1>2. CASE st.composition.epoch # 0
  <2> DEFINE frozen == FreezeReadings(st.composition.buffer)
             whole  == WithBuffer(st, frozen)
             c      == [st.composition EXCEPT !.buffer = frozen]
             left   == Leave(whole)
             flying == InFlight(st, frozen)
  <2>1. Good(whole, waits) BY GoodBuffer
  <2>2. /\ whole.tracker = st.tracker /\ whole.nextEpoch = st.nextEpoch
        /\ whole.segments = st.segments
    BY DEF WithBuffer, Good, IsState
  <2>3. c.epoch = st.composition.epoch /\ c.sent = st.composition.sent
    BY DEF Good, IsState
  <2>4. CASE Settled(c) BY <1>2, <2>1, <2>4, GoodCommit DEF Seal
  <2>5. CASE ~Settled(c)
    <3> HIDE DEF whole
    <3>1. /\ Good(left, waits) /\ left.composition = NoComposition
          /\ left.tracker = st.tracker /\ left.nextEpoch = st.nextEpoch
          /\ left.segments = st.segments
      BY <2>1, <2>2, LeaveFacts
    <3>2. left.composition.epoch = 0 BY <3>1 DEF NoComposition, NewComposition
    <3> HIDE DEF left
    <3>3. /\ flying \in BOOLEAN
          /\ flying => c.sent.sequence \in DOMAIN st.tracker.pending
      BY <2>3 DEF InFlight, Awaits
    <3>4. /\ c.epoch \in 1..(st.nextEpoch - 1) /\ c.epoch \notin DOMAIN st.segments
          /\ NewestOf(st.tracker, c.epoch, c.sent.sequence)
      BY <1>2, <2>3 DEF Good, Counted, SentNewest
    <3> HIDE DEF c, flying
    <3>5. Good(AddSegment(left, c, flying), waits)
      BY <1>2, <2>3, <3>1, <3>2, <3>3, <3>4, GoodAddSegment
    <3>6. Seal(st) = Run(AddSegment(left, c, flying), c.doc, SealEdit(c.epoch))
      BY <1>2, <2>5 DEF Seal, c, flying, left, whole
    <3> QED BY <3>5, <3>6, GoodRun
  <2> QED BY <2>4, <2>5
<1> QED BY <1>1, <1>2

LEMMA GoodContextReady ==
  ASSUME NEW st, NEW waits \in BOOLEAN, Good(st, waits), NEW epoch
  PROVE  Good(ContextReady(st, epoch), waits)
<1>1. CASE st.composition.epoch = epoch
  <2> DEFINE t == [st EXCEPT !.composition.preceding = TRUE]
  <2>1. Good(t, waits) BY GoodFrame DEF Good, IsState
  <2> QED BY <1>1, <2>1, GoodRequest DEF ContextReady
<1>2. CASE st.composition.epoch # epoch /\ epoch \notin DOMAIN st.segments
  BY <1>2 DEF ContextReady
<1>3. CASE st.composition.epoch # epoch /\ epoch \in DOMAIN st.segments
  <2> DEFINE s == [st.segments[epoch] EXCEPT !.preceding = TRUE]
             t == [st EXCEPT !.segments[epoch] = s]
  <2>1. /\ DOMAIN s = SegmentFields
        /\ s.stage = st.segments[epoch].stage /\ s.awaited = st.segments[epoch].awaited
    BY <1>3 DEF Good, IsState, SegmentFields
  <2> HIDE DEF s
  <2>2. Good(t, waits) BY <1>3, <2>1, GoodSegment
  <2>3. epoch \in DOMAIN t.segments BY <1>3 DEF Good, IsState
  <2>4. t = [st EXCEPT !.segments[epoch].preceding = TRUE] BY DEF s
  <2> HIDE DEF t
  <2>5. Good(WriteIfFinished(ConvertSegment(t, epoch), epoch), waits)
    BY <2>2, <2>3, GoodConvert, GoodWrite
  <2> QED BY <1>3, <2>2, <2>4, <2>5 DEF ContextReady
<1> QED BY <1>1, <1>2, <1>3

\* A segment that was converting either still is, for the same request, or is
\* finished.
LEMMA MergedFacts ==
  ASSUME NEW s, NEW sequence, NEW request, NEW outcome, DOMAIN s = SegmentFields
  PROVE  LET m == Merged(s, sequence, request, outcome)
         IN  /\ DOMAIN m = SegmentFields
             /\ m.stage = "converting" => /\ s.stage = "converting"
                                          /\ m.awaited = s.awaited
                                          /\ ~(sequence >= s.awaited)
BY DEF Merged, SegmentFields

LEMMA GoodMergeSealed ==
  ASSUME NEW st, NEW waits \in BOOLEAN, Good(st, waits),
         NEW sequence, NEW request, NEW outcome
  PROVE  Good(MergeSealed(st, sequence, request, outcome), waits)
<1>1. CASE request.epoch \notin DOMAIN st.segments BY <1>1 DEF MergeSealed
<1>2. CASE request.epoch \in DOMAIN st.segments
  <2> DEFINE m == Merged(st.segments[request.epoch], sequence, request, outcome)
  <2>1. Good([st EXCEPT !.segments[request.epoch] = m], waits)
    BY <1>2, MergedFacts, GoodSegment DEF Good, IsState
  <2> QED BY <1>2, <2>1, GoodWrite DEF MergeSealed
<1> QED BY <1>1, <1>2

LEMMA GoodBackendLost ==
  ASSUME NEW st, Good(st, FALSE)
  PROVE  Good(BackendLost(st), TRUE)
<1> DEFINE lost == FinishLocally([st EXCEPT !.tracker = Forget(@)])
           t    == [lost EXCEPT !.composition.sent = NotSent]
<1>1. Good(lost, TRUE) BY GoodForget, GoodFinishLocally
<1>2. DOMAIN lost.tracker.pending = {}
  BY DEF FinishLocally, Forget, Good, IsState
<1> HIDE DEF lost
<1>3. /\ DOMAIN t = DOMAIN lost /\ DOMAIN t.composition = DOMAIN lost.composition
      /\ t.composition.epoch = lost.composition.epoch /\ t.composition.sent = NotSent
      /\ t.tracker = lost.tracker /\ t.nextEpoch = lost.nextEpoch /\ t.segments = lost.segments
  BY <1>1 DEF Good, IsState
<1> HIDE DEF t
<1>4. IsState(t) BY <1>1, <1>3 DEF Good, IsState
<1>5. SentNewest(t.composition, t.tracker)
  BY <1>1, <1>2, <1>3 DEF SentNewest, NewestOf, NotSent, Good, Counted, Numbered
<1>6. Good(t, TRUE) BY <1>1, <1>3, <1>4, <1>5 DEF Good, Counted
<1> QED BY <1>1, <1>6, GoodRun DEF BackendLost, lost, t

\* The segments that are left, when some are removed.
LEMMA GoodRestrict ==
  ASSUME NEW st, NEW waits \in BOOLEAN, Good(st, waits), NEW S \in SUBSET DOMAIN st.segments,
         NEW other, IsState(other), other.segments = Restrict(st.segments, S),
         other.tracker = st.tracker, other.nextEpoch = st.nextEpoch,
         other.composition = st.composition
  PROVE  Good(other, waits)
BY DEF Restrict, Good, Counted, SentNewest, Awaiting

\* The answer to a request of a segment, or of none any more, is merged: the
\* segment that awaited it is finished.
LEMMA GoodAnswered ==
  ASSUME NEW st, Good(st, TRUE), NEW sequence \in DOMAIN st.tracker.pending, NEW outcome
  PROVE  Good(MergeSealed([st EXCEPT !.tracker = Take(@, sequence)], sequence,
                          st.tracker.pending[sequence], outcome), TRUE)
<1> DEFINE request == st.tracker.pending[sequence]
           e       == request.epoch
           taken   == [st EXCEPT !.tracker = Take(@, sequence)]
           m       == Merged(st.segments[e], sequence, request, outcome)
           merged  == [st EXCEPT !.segments[e] = m]
           both    == [taken EXCEPT !.segments[e] = m]
<1>1. \A k \in DOMAIN st.segments :
        st.segments[k].stage = "converting" /\ st.segments[k].awaited = sequence => k = e
  BY DEF Good, Awaiting, NewestOf
<1>2. taken.segments = st.segments BY DEF Good, IsState
<1>3. CASE e \notin DOMAIN st.segments
  BY <1>1, <1>3, GoodTake, <1>2 DEF MergeSealed
<1>4. CASE e \in DOMAIN st.segments
  <2>1. DOMAIN st.segments[e] = SegmentFields BY <1>4 DEF Good, IsState
  <2>2. /\ DOMAIN m = SegmentFields
        /\ m.stage = "converting" => /\ st.segments[e].stage = "converting"
                                     /\ m.awaited = st.segments[e].awaited
                                     /\ ~(sequence >= m.awaited)
    BY <2>1, MergedFacts
  <2> HIDE DEF m
  <2>3. Good(merged, TRUE) BY <1>4, <2>2, GoodSegment
  <2>4. /\ merged.segments = [st.segments EXCEPT ![e] = m]
        /\ merged.tracker = st.tracker /\ merged.composition = st.composition
        /\ merged.nextEpoch = st.nextEpoch /\ DOMAIN merged = DOMAIN st
    BY DEF Good, IsState
  <2> HIDE DEF merged
  <2>5. sequence \in Nat BY DEF Good, Counted, Numbered
  <2>6. \A k \in DOMAIN merged.segments :
          merged.segments[k].stage = "converting" => merged.segments[k].awaited # sequence
    BY <1>1, <1>4, <2>2, <2>4, <2>5
  <2>7. Good([merged EXCEPT !.tracker = Take(@, sequence)], TRUE) BY <2>3, <2>6, GoodTake
  <2> DEFINE other == [merged EXCEPT !.tracker = Take(@, sequence)]
  <2>8. /\ DOMAIN both = DOMAIN other /\ both.composition = other.composition
        /\ both.tracker = other.tracker /\ both.segments = other.segments
        /\ both.nextEpoch = other.nextEpoch
    BY <2>3, <2>4 DEF Good, IsState
  <2> HIDE DEF other, both
  <2>9. IsState(both) BY <2>7, <2>8 DEF Good, IsState, other
  <2>10. Good(both, TRUE) BY <2>7, <2>8, <2>9, GoodFrame DEF other
  <2> HIDE DEF taken
  <2>11. MergeSealed(taken, sequence, request, outcome) = WriteIfFinished(both, e)
    BY <1>2, <1>4 DEF MergeSealed, both, m
  <2> QED BY <2>10, <2>11, GoodWrite DEF taken
<1> QED BY <1>3, <1>4

-----------------------------------------------------------------------------
(***************************************************************************)
(* From a controller state to the next                                     *)
(***************************************************************************)
LEMMA BecomeGood ==
  ASSUME NEW st, Good(st, TRUE), Become(st)
  PROVE  IInv'
BY DEF Become, Now, Good, IsState, IInv

LEMMA InitInv == Init => IInv
<1> SUFFICES ASSUME Init PROVE IInv OBVIOUS
<1>1. /\ DOMAIN Now = {"composition", "nextEpoch", "tracker", "segments", "connected", "queue", "owed"}
      /\ Now.composition = NoComposition /\ Now.nextEpoch = 1
      /\ Now.tracker = NoRequests /\ Now.segments = <<>>
  BY DEF Now, Init, NoSegments
<1>2. /\ DOMAIN NoComposition =
           {"epoch", "doc", "preceding", "buffer", "list", "lock", "held", "sent", "converted"}
      /\ NoComposition.epoch = 0
      /\ DOMAIN NoRequests = {"sequence", "pending", "asked"}
      /\ NoRequests.sequence = 0 /\ NoRequests.pending = <<>> /\ NoRequests.asked = {}
  BY DEF NoComposition, NewComposition, NoRequests
<1>3. DOMAIN <<>> = {} OBVIOUS
<1> QED BY <1>1, <1>2, <1>3 DEF IInv, Good, IsState, Counted, Numbered, SentNewest, Awaiting

LEMMA PoppedGood ==
  ASSUME IInv, NEW d
  PROVE  Good(Popped(d), TRUE)
BY GoodFrame DEF IInv, Good, IsState, Popped, Now

-----------------------------------------------------------------------------
(***************************************************************************)
(* The second invariant: conversions and what they were asked for          *)
(***************************************************************************)
\* Every entry of a request is recorded as asked.
Requested(request, sequence, asked) ==
  /\ sequence \in Nat
  /\ request.snapshot \in Seq(Entry)
  /\ \A i \in DOMAIN request.snapshot :
       Asked(sequence, request.epoch, request.snapshot[i]) \in asked

Applies(edit, asked) ==
  /\ edit.epoch = edit.request.epoch
  /\ Requested(edit.request, edit.sequence, asked)
  /\ edit.outcome.predicted \in 0..Len(edit.request.snapshot)

Queued(q, asked) ==
  \E S : q \in Seq(S) /\ \A x \in S : x.do = "apply" => Applies(x, asked)

CompositionFit(c, asked) ==
  /\ BufferOK(c.buffer) /\ Known(c.buffer, c.epoch, asked)
  /\ c.epoch = 0 => c.buffer.entries = <<>> /\ c.held = {}
  /\ \A h \in c.held : h.sequence \in Nat /\ Asked(h.sequence, c.epoch, h.asked) \in asked

SegmentsFit(segs, asked) ==
  \A e \in DOMAIN segs : BufferOK(segs[e].buffer) /\ Known(segs[e].buffer, e, asked)

PendingFit(pending, asked) ==
  \A s \in DOMAIN pending : Requested(pending[s], s, asked)

QueuesFit(q, asked) == DOMAIN q = Docs /\ \A d \in Docs : Queued(q[d], asked)

\* The buffers, and every conversion sent and not yet merged into them.
Sound(st) ==
  /\ CompositionFit(st.composition, st.tracker.asked)
  /\ SegmentsFit(st.segments, st.tracker.asked)
  /\ PendingFit(st.tracker.pending, st.tracker.asked)
  /\ QueuesFit(st.queue, st.tracker.asked)

\* The buffers of the compositions, open and sealed.
BufferOf(st, e, b) ==
  \/ e # 0 /\ st.composition.epoch = e /\ b = st.composition.buffer
  \/ e \in DOMAIN st.segments /\ b = st.segments[e].buffer

\* Every buffer grew out of its composition's, or is a new composition's.
Grew(st, other) ==
  /\ st.nextEpoch <= other.nextEpoch
  /\ \A e, b : BufferOf(other, e, b) =>
       \/ e >= st.nextEpoch
       \/ \E a : BufferOf(st, e, a) /\ Grown(a, b)

Leads(st, other) == Sound(other) /\ Grew(st, other)

LEMMA AppendQueued ==
  ASSUME NEW q, NEW asked, Queued(q, asked), NEW edit,
         edit.do = "apply" => Applies(edit, asked)
  PROVE  Queued(Append(q, edit), asked)
<1>1. PICK S : q \in Seq(S) /\ \A x \in S : x.do = "apply" => Applies(x, asked) BY DEF Queued
<1> DEFINE T == S \union {edit}
<1>2. q \in Seq(T) /\ edit \in T BY <1>1
<1>3. \A x \in T : x.do = "apply" => Applies(x, asked) BY <1>1
<1> HIDE DEF T
<1>4. Append(q, edit) \in Seq(T) BY <1>2
<1> QED BY <1>3, <1>4 DEF Queued

LEMMA TailQueued ==
  ASSUME NEW q, NEW asked, Queued(q, asked), q # <<>>
  PROVE  /\ Queued(Tail(q), asked)
         /\ Head(q).do = "apply" => Applies(Head(q), asked)
<1>1. PICK S : q \in Seq(S) /\ \A x \in S : x.do = "apply" => Applies(x, asked) BY DEF Queued
<1>2. Tail(q) \in Seq(S) /\ Head(q) \in S BY <1>1
<1> QED BY <1>1, <1>2 DEF Queued

LEMMA NoneQueued == ASSUME NEW asked PROVE Queued(<<>>, asked)
<1>1. PICK S : S = {} OBVIOUS
<1>2. <<>> \in Seq(S) /\ \A x \in S : x.do = "apply" => Applies(x, asked) BY <1>1
<1> QED BY <1>2 DEF Queued

\* What was asked stays asked.
LEMMA FitsMore ==
  ASSUME NEW asked, NEW more, asked \subseteq more
  PROVE  /\ \A c : CompositionFit(c, asked) => CompositionFit(c, more)
         /\ \A segs : SegmentsFit(segs, asked) => SegmentsFit(segs, more)
         /\ \A pending : PendingFit(pending, asked) => PendingFit(pending, more)
         /\ \A q : QueuesFit(q, asked) => QueuesFit(q, more)
<1>1. \A b, e : Known(b, e, asked) => Known(b, e, more) BY DEF Known
<1>2. \A r, s : Requested(r, s, asked) => Requested(r, s, more) BY DEF Requested
<1>3. \A x : Applies(x, asked) => Applies(x, more) BY <1>2 DEF Applies
<1>4. ASSUME NEW q, Queued(q, asked) PROVE Queued(q, more)
  <2>1. PICK S : q \in Seq(S) /\ \A x \in S : x.do = "apply" => Applies(x, asked)
    BY <1>4 DEF Queued
  <2> QED BY <1>3, <2>1 DEF Queued
<1>5. \A c : CompositionFit(c, asked) => CompositionFit(c, more) BY <1>1 DEF CompositionFit
<1>6. \A segs : SegmentsFit(segs, asked) => SegmentsFit(segs, more) BY <1>1 DEF SegmentsFit
<1>7. \A pending : PendingFit(pending, asked) => PendingFit(pending, more)
  BY <1>2 DEF PendingFit
<1>8. \A q : QueuesFit(q, asked) => QueuesFit(q, more) BY <1>4 DEF QueuesFit
<1> QED BY <1>5, <1>6, <1>7, <1>8

LEMMA HasBuffer ==
  ASSUME NEW st, Sound(st), NEW e, NEW b, BufferOf(st, e, b)
  PROVE  BufferOK(b)
BY DEF BufferOf, Sound, CompositionFit, SegmentsFit

\* Nothing but new buffers where there were none.
LEMMA GrewSame ==
  ASSUME NEW st, NEW waits \in BOOLEAN, Good(st, waits), Sound(st), NEW other,
         other.nextEpoch = st.nextEpoch,
         \A e, b : BufferOf(other, e, b) => BufferOf(st, e, b)
  PROVE  Grew(st, other)
BY HasBuffer, GrownSame DEF Good, Counted, Grew

LEMMA GrewThen ==
  ASSUME NEW st, NEW waits \in BOOLEAN, Good(st, waits), Sound(st),
         NEW next, Good(next, waits), Leads(st, next),
         NEW last, Good(last, waits), Leads(next, last)
  PROVE  Leads(st, last)
<1>1. st.nextEpoch \in Nat /\ next.nextEpoch \in Nat /\ last.nextEpoch \in Nat
  BY DEF Good, Counted
<1>2. Sound(next) /\ Sound(last) /\ Grew(st, next) /\ Grew(next, last) BY DEF Leads
<1>3. \A e, b : BufferOf(last, e, b) => e \in Nat
  BY DEF BufferOf, Good, Counted
<1>4. ASSUME NEW e, NEW b, BufferOf(last, e, b)
      PROVE  e >= st.nextEpoch \/ \E a : BufferOf(st, e, a) /\ Grown(a, b)
  <2>1. BufferOK(b) BY <1>2, <1>4, HasBuffer
  <2>2. CASE e >= next.nextEpoch
    BY <1>2, <1>1, <1>3, <1>4, <2>2 DEF Grew
  <2>3. CASE \E a : BufferOf(next, e, a) /\ Grown(a, b)
    <3>1. PICK a : BufferOf(next, e, a) /\ Grown(a, b) BY <2>3
    <3>2. BufferOK(a) BY <1>2, <3>1, HasBuffer
    <3>3. CASE \E o : BufferOf(st, e, o) /\ Grown(o, a)
      <4>1. PICK o : BufferOf(st, e, o) /\ Grown(o, a) BY <3>3
      <4>2. BufferOK(o) BY <4>1, HasBuffer
      <4>3. Grown(o, b) BY <2>1, <3>1, <3>2, <4>1, <4>2, GrownThen
      <4> QED BY <4>1, <4>3
    <3> QED BY <1>2, <3>1, <3>3 DEF Grew
  <2> QED BY <1>2, <1>4, <2>2, <2>3 DEF Grew
<1>5. st.nextEpoch <= last.nextEpoch BY <1>1, <1>2 DEF Grew
<1> QED BY <1>2, <1>4, <1>5 DEF Leads, Grew

-----------------------------------------------------------------------------
(***************************************************************************)
(* What preserves it: the methods of the open composition                  *)
(***************************************************************************)
LEMMA LeadsFrame ==
  ASSUME NEW st, NEW waits \in BOOLEAN, Good(st, waits), Sound(st), NEW other,
         other.nextEpoch = st.nextEpoch, other.tracker = st.tracker,
         other.segments = st.segments, other.queue = st.queue,
         other.composition.epoch = st.composition.epoch,
         other.composition.buffer = st.composition.buffer,
         other.composition.held = st.composition.held
  PROVE  Leads(st, other)
BY GrewSame DEF Sound, CompositionFit, BufferOf, Leads

LEMMA LeadsSame ==
  ASSUME NEW st, NEW waits \in BOOLEAN, Good(st, waits), Sound(st)
  PROVE  Leads(st, st)
BY LeadsFrame

LEMMA LeadsRun ==
  ASSUME NEW st, NEW waits \in BOOLEAN, Good(st, waits), Sound(st), NEW d, NEW edit,
         edit.do = "apply" => Applies(edit, st.tracker.asked)
  PROVE  Leads(st, Run(st, d, edit))
<1> DEFINE t == Run(st, d, edit)
<1>1. /\ t.composition = st.composition /\ t.tracker = st.tracker /\ t.nextEpoch = st.nextEpoch
      /\ t.segments = st.segments
      /\ t.queue = [st.queue EXCEPT ![d] = Append(st.queue[d], edit)]
  BY DEF Good, IsState, Run
<1> HIDE DEF t
<1>2. QueuesFit(t.queue, t.tracker.asked)
  BY <1>1, AppendQueued DEF Sound, QueuesFit
<1>3. Sound(t) BY <1>1, <1>2 DEF Sound
<1>4. \A e, b : BufferOf(t, e, b) => BufferOf(st, e, b) BY <1>1 DEF BufferOf
<1> QED BY <1>1, <1>3, <1>4, GrewSame DEF Leads, t

\* An edited buffer in the place of the open composition's.
LEMMA LeadsBuffer ==
  ASSUME NEW st, NEW waits \in BOOLEAN, Good(st, waits), Sound(st), NEW b,
         st.composition.epoch # 0, Edited(st.composition.buffer, b)
  PROVE  Leads(st, WithBuffer(st, b))
<1> DEFINE t == WithBuffer(st, b)
<1>1. /\ t.tracker = st.tracker /\ t.nextEpoch = st.nextEpoch
      /\ t.segments = st.segments /\ t.queue = st.queue
      /\ t.composition.epoch = st.composition.epoch /\ t.composition.buffer = b
      /\ t.composition.held = st.composition.held
  BY DEF Good, IsState, WithBuffer
<1> HIDE DEF t
<1>2. BufferOK(st.composition.buffer) BY DEF Sound, CompositionFit
<1>3. /\ Grown(st.composition.buffer, b) /\ BufferOK(b)
      /\ \A epoch, asked : Known(st.composition.buffer, epoch, asked) => Known(b, epoch, asked)
  BY <1>2, EditedGrown
<1>4. Sound(t) BY <1>1, <1>3 DEF Sound, CompositionFit
<1>5. st.nextEpoch <= t.nextEpoch BY <1>1 DEF Good, Counted
<1>6. \A e, c : BufferOf(t, e, c) => \E a : BufferOf(st, e, a) /\ Grown(a, c)
  <2> SUFFICES ASSUME NEW e, NEW c, BufferOf(t, e, c) PROVE \E a : BufferOf(st, e, a) /\ Grown(a, c)
    OBVIOUS
  <2>1. CASE e # 0 /\ t.composition.epoch = e /\ c = t.composition.buffer
    BY <1>1, <2>1, <1>3 DEF BufferOf
  <2>2. CASE e \in DOMAIN t.segments /\ c = t.segments[e].buffer
    BY <1>1, <2>2, HasBuffer, GrownSame DEF BufferOf
  <2> QED BY <2>1, <2>2 DEF BufferOf
<1> QED BY <1>4, <1>5, <1>6 DEF Leads, Grew, t

LEMMA LeadsList ==
  ASSUME NEW st, NEW waits \in BOOLEAN, Good(st, waits), Sound(st)
  PROVE  Leads(st, WithoutList(st)) /\ WithoutList(st).composition.epoch = st.composition.epoch
         /\ WithoutList(st).composition.buffer = st.composition.buffer
<1> DEFINE t == WithoutList(st)
<1>1. /\ t.tracker = st.tracker /\ t.nextEpoch = st.nextEpoch
      /\ t.segments = st.segments /\ t.queue = st.queue
      /\ t.composition.epoch = st.composition.epoch
      /\ t.composition.buffer = st.composition.buffer
      /\ t.composition.held = st.composition.held
  BY DEF Good, IsState, WithoutList
<1> HIDE DEF t
<1> QED BY <1>1, LeadsFrame DEF t

LEMMA EmptyFit ==
  ASSUME NEW epoch, NEW d, NEW asked
  PROVE  /\ CompositionFit(NewComposition(epoch, d), asked)
         /\ NewComposition(epoch, d).epoch = epoch
<1> DEFINE c == NewComposition(epoch, d)
<1>1. c.epoch = epoch /\ c.buffer = EmptyBuffer /\ c.held = {} BY DEF NewComposition
<1> HIDE DEF c
<1>2. BufferOK(EmptyBuffer)
  <2>0. <<>> \in Seq(Entry) OBVIOUS
  <2>1. PICK q \in Seq(Entry) : q = <<>> BY <2>0
  <2>2. Len(q) = 0 BY <2>1
  <2>3. EmptyBuffer = [entries |-> q, caret |-> 0, revision |-> 0, nextId |-> 1]
    BY <2>1 DEF EmptyBuffer
  <2>4. PICK z \in 0..Len(q), o \in Nat \ {0} : z = 0 /\ o = 1 BY <2>2
  <2>5. z \in Nat BY <2>4
  <2>6. EmptyBuffer = [entries |-> q, caret |-> z, revision |-> z, nextId |-> o]
    BY <2>3, <2>4
  <2>7. /\ \A i \in 1..Len(q) : EntryOK(q[i]) /\ q[i].id < o
        /\ \A i, j \in 1..Len(q) : q[i].id = q[j].id => i = j
    BY <2>2
  <2> QED BY <2>5, <2>6, <2>7, BufferMade
<1>3. EmptyBuffer.entries = <<>> BY DEF EmptyBuffer
<1>4. Known(EmptyBuffer, epoch, asked) BY <1>3 DEF Known
<1> QED BY <1>1, <1>2, <1>3, <1>4 DEF CompositionFit, c

LEMMA LeadsNone ==
  ASSUME NEW st, NEW waits \in BOOLEAN, Good(st, waits), Sound(st)
  PROVE  Leads(st, WithoutComposition(st))
<1> DEFINE t == WithoutComposition(st)
<1>1. /\ t.tracker = st.tracker /\ t.nextEpoch = st.nextEpoch
      /\ t.segments = st.segments /\ t.queue = st.queue /\ t.composition = NoComposition
  BY DEF Good, IsState, WithoutComposition
<1> HIDE DEF t
<1>2. CompositionFit(NoComposition, t.tracker.asked) /\ NoComposition.epoch = 0
  BY EmptyFit DEF NoComposition
<1>3. Sound(t) BY <1>1, <1>2 DEF Sound
<1>4. \A e, b : BufferOf(t, e, b) => BufferOf(st, e, b) BY <1>1, <1>2 DEF BufferOf
<1> QED BY <1>1, <1>3, <1>4, GrewSame DEF Leads, t

LEMMA LeadsOpen ==
  ASSUME NEW st, NEW waits \in BOOLEAN, Good(st, waits), Sound(st), NEW d
  PROVE  Leads(st, Open(st, d)) /\ Open(st, d).composition.epoch # 0
         /\ BufferOK(Open(st, d).composition.buffer)
<1>1. CASE st.composition.epoch # 0
  BY <1>1, LeadsSame DEF Open, Sound, CompositionFit
<1>2. CASE st.composition.epoch = 0
  <2> DEFINE c == NewComposition(st.nextEpoch, d)
             u == [st EXCEPT !.composition = c, !.nextEpoch = @ + 1]
             edit == OpenEdit(st.nextEpoch)
             t == Run(u, d, edit)
  <2>1. /\ u.composition = c /\ u.nextEpoch = st.nextEpoch + 1 /\ u.tracker = st.tracker
        /\ u.segments = st.segments /\ u.queue = st.queue
    BY DEF Good, IsState
  <2>2. CompositionFit(c, st.tracker.asked) /\ c.epoch = st.nextEpoch BY EmptyFit
  <2> HIDE DEF c, u
  <2>3. st.nextEpoch \in Nat \ {0} /\ DOMAIN st.segments \subseteq 1..(st.nextEpoch - 1)
    BY DEF Good, Counted
  <2>4. Sound(u) BY <2>1, <2>2 DEF Sound
  <2>5. \A e, b : BufferOf(u, e, b) => e = st.nextEpoch \/ BufferOf(st, e, b) BY <2>1, <2>2 DEF BufferOf
  <2>6. Grew(st, u)
    BY <2>1, <2>3, <2>5, HasBuffer, GrownSame DEF Grew
  <2>7. Good(t, waits) /\ t = Open(st, d) BY <1>2, GoodOpen DEF Open, c, u
  <2>8. Good(u, waits) /\ edit.do # "apply"
    <3>1. edit.do # "apply" BY DEF OpenEdit
    <3>2. DOMAIN u = DOMAIN st /\ DOMAIN c = DOMAIN st.composition
      BY DEF Good, IsState, u, c, NewComposition
    <3>3. IsState(u) BY <2>1, <3>2 DEF Good, IsState
    <3>4. c.sent.sequence = 0 BY DEF c, NewComposition, NotSent
    <3>5. /\ t.composition = u.composition /\ t.tracker = u.tracker
          /\ t.nextEpoch = u.nextEpoch /\ t.segments = u.segments
      BY <3>3 DEF IsState, Run
    <3> HIDE DEF t
    <3> QED BY <2>7, <3>1, <3>3, <3>5, GoodFrame
  <2>9. Leads(u, t)
    <3> HIDE DEF edit
    <3> QED BY <2>4, <2>8, LeadsRun
  <2>10. t.composition = u.composition BY <2>8 DEF Good, IsState, Run
  <2> HIDE DEF t
  <2>11. Leads(st, t) BY <2>4, <2>6, <2>7, <2>8, <2>9, GrewThen DEF Leads
  <2>12. t.composition.epoch # 0 /\ BufferOK(t.composition.buffer)
    BY <2>1, <2>2, <2>3, <2>10 DEF CompositionFit
  <2> QED BY <2>7, <2>11, <2>12
<1> QED BY <1>1, <1>2

\* A request of what a sound buffer holds is recorded as it is sent.
LEMMA SendFit ==
  ASSUME NEW tr, Numbered(tr), NEW b, BufferOK(b), NEW epoch, NEW d, PendingFit(tr.pending, tr.asked)
  PROVE  LET sent == Send(tr, RequestOf(epoch, d, b))
         IN  tr.asked \subseteq sent.asked /\ PendingFit(sent.pending, sent.asked)
<1> DEFINE request == RequestOf(epoch, d, b)
           sent == Send(tr, request)
           n == tr.sequence + 1
<1>1. /\ DOMAIN sent.pending = DOMAIN tr.pending \union {n}
      /\ sent.pending[n] = request
      /\ \A s \in DOMAIN tr.pending : sent.pending[s] = tr.pending[s]
  BY SendFacts
<1>2. sent.asked = tr.asked \union
        {Asked(n, request.epoch, request.snapshot[i]) : i \in DOMAIN request.snapshot}
  BY DEF Send
<1>3. request.snapshot = b.entries BY DEF RequestOf
<1> HIDE DEF sent, request
<1>4. n \in Nat BY DEF Numbered
<1>5. request.snapshot \in Seq(Entry) BY <1>3, BufferParts
<1>6. Requested(request, n, sent.asked) BY <1>2, <1>4, <1>5 DEF Requested
<1>7. \A s \in DOMAIN tr.pending : Requested(tr.pending[s], s, sent.asked)
  BY <1>2 DEF PendingFit, Requested
<1>8. PendingFit(sent.pending, sent.asked) BY <1>1, <1>6, <1>7 DEF PendingFit
<1> QED BY <1>2, <1>8 DEF sent, request

LEMMA LeadsRequest ==
  ASSUME NEW st, NEW waits \in BOOLEAN, Good(st, waits), Sound(st)
  PROVE  Leads(st, Request(st))
<1>1. CASE ~Requests(st) BY <1>1, LeadsSame DEF Request
<1>2. CASE Requests(st)
  <2> DEFINE c == st.composition
             request == RequestOf(c.epoch, c.doc, c.buffer)
             t == Request(st)
             sent == Send(st.tracker, request)
  <2>1. /\ t.tracker = sent
        /\ t.segments = st.segments /\ t.nextEpoch = st.nextEpoch /\ t.queue = st.queue
        /\ t.composition.epoch = c.epoch /\ t.composition.buffer = c.buffer
        /\ t.composition.held = c.held
    BY <1>2 DEF Request, Good, IsState
  <2>2. st.tracker.asked \subseteq sent.asked /\ PendingFit(sent.pending, sent.asked)
    BY SendFit DEF Good, Counted, Sound, CompositionFit
  <2> HIDE DEF t, sent
  <2>3. /\ CompositionFit(c, sent.asked) /\ SegmentsFit(st.segments, sent.asked)
        /\ QueuesFit(st.queue, sent.asked)
    BY <2>2, FitsMore DEF Sound
  <2>4. Sound(t) BY <2>1, <2>2, <2>3 DEF Sound, CompositionFit
  <2>5. \A e, b : BufferOf(t, e, b) => BufferOf(st, e, b) BY <2>1 DEF BufferOf
  <2> QED BY <2>1, <2>4, <2>5, GrewSame DEF Leads, t
<1> QED BY <1>1, <1>2

LEMMA LeadsShow ==
  ASSUME NEW st, NEW waits \in BOOLEAN, Good(st, waits), Sound(st)
  PROVE  Leads(st, ShowAgain(st)) /\ Good(ShowAgain(st), waits)
BY LeadsRun, GoodRun DEF ShowEdit, ShowAgain

LEMMA LeadsDiscard ==
  ASSUME NEW st, NEW waits \in BOOLEAN, Good(st, waits), Sound(st)
  PROVE  Leads(st, Discard(st))
<1> DEFINE edit == DiscardEdit(st.composition.epoch)
           n == WithoutComposition(st)
<1>1. edit.do # "apply" BY DEF DiscardEdit
<1>2. Good(n, waits) /\ Leads(st, n) BY LeadsNone, GoodNone
<1>3. Discard(st) = Run(n, st.composition.doc, edit) BY DEF Discard
<1> HIDE DEF n, edit
<1>4. Leads(n, Discard(st)) /\ Good(Discard(st), waits)
  BY <1>1, <1>2, <1>3, LeadsRun, GoodRun DEF Leads
<1> QED BY <1>2, <1>4, GrewThen

LEMMA LeadsUpdate ==
  ASSUME NEW st, NEW waits \in BOOLEAN, Good(st, waits), Sound(st)
  PROVE  Leads(st, Update(st))
<1>1. CASE IsEmpty(st.composition.buffer) BY <1>1, LeadsDiscard DEF Update
<1>2. CASE ~IsEmpty(st.composition.buffer)
  <2> DEFINE n == ShowAgain(st)
  <2>1. Leads(st, n) /\ Good(n, waits) BY LeadsShow
  <2>2. Update(st) = Request(n) BY <1>2 DEF Update
  <2> HIDE DEF n
  <2>3. Leads(n, Request(n)) /\ Good(Request(n), waits) BY <2>1, LeadsRequest, GoodRequest DEF Leads
  <2> QED BY <2>1, <2>2, <2>3, GrewThen
<1> QED BY <1>1, <1>2

\* An edit of the open composition, shown and sent.
LEMMA LeadsEdited ==
  ASSUME NEW st, NEW waits \in BOOLEAN, Good(st, waits), Sound(st), NEW b,
         st.composition.epoch # 0, Edited(st.composition.buffer, b)
  PROVE  Leads(st, Update(WithBuffer(st, b))) /\ Good(Update(WithBuffer(st, b)), waits)
<1> DEFINE n == WithBuffer(st, b)
<1>1. Leads(st, n) /\ Good(n, waits) BY LeadsBuffer, GoodBuffer
<1> HIDE DEF n
<1>2. Leads(n, Update(n)) /\ Good(Update(n), waits) BY <1>1, LeadsUpdate, GoodUpdate DEF Leads
<1> QED BY <1>1, <1>2, GrewThen DEF n

LEMMA LeadsDiscardReading ==
  ASSUME NEW st, NEW waits \in BOOLEAN, Good(st, waits), Sound(st)
  PROVE  Leads(st, DiscardReading(st))
<1> DEFINE b == st.composition.buffer
<1>1. CASE ~CanDiscardReading(b) BY <1>1, LeadsSame DEF DiscardReading
<1>2. CASE CanDiscardReading(b)
  BY <1>2, EraseEdited, BufferParts, LeadsEdited DEF Sound, CompositionFit,
     CanDiscardReading, OnEntry, DiscardReading
<1> QED BY <1>1, <1>2

LEMMA LeadsLeave ==
  ASSUME NEW st, NEW waits \in BOOLEAN, Good(st, waits), Sound(st)
  PROVE  Leads(st, Leave(st))
<1> DEFINE n == WithoutComposition(st)
           t == Leave(st)
<1>1. Leads(st, n) BY LeadsNone
<1>2. /\ t.composition = NoComposition /\ t.tracker = st.tracker /\ t.nextEpoch = st.nextEpoch
      /\ t.segments = st.segments
  BY LeaveFacts
<1>3. t.queue = st.queue BY DEF Leave, WithoutComposition, Good, IsState
<1>4. /\ n.composition = NoComposition /\ n.tracker = st.tracker /\ n.nextEpoch = st.nextEpoch
      /\ n.segments = st.segments /\ n.queue = st.queue
  BY DEF WithoutComposition, Good, IsState
<1> HIDE DEF t, n
<1>5. Sound(t) BY <1>1, <1>2, <1>3, <1>4 DEF Leads, Sound
<1>6. \A e, b : BufferOf(t, e, b) => BufferOf(n, e, b) BY <1>2, <1>4 DEF BufferOf
<1>7. Grew(st, t) BY <1>1, <1>2, <1>4, <1>6 DEF Leads, Grew
<1> QED BY <1>5, <1>7 DEF Leads, t

LEMMA LeadsCommit ==
  ASSUME NEW st, NEW waits \in BOOLEAN, Good(st, waits), Sound(st)
  PROVE  Leads(st, Commit(st))
<1> DEFINE n == Leave(st)
           edit == CommitEdit(st.composition)
<1>1. Leads(st, n) /\ Good(n, waits) BY LeadsLeave, LeaveFacts
<1>2. edit.do # "apply" BY DEF CommitEdit
<1>3. Commit(st) = Run(n, st.composition.doc, edit) BY DEF Commit
<1> HIDE DEF n, edit
<1>4. Leads(n, Commit(st)) /\ Good(Commit(st), waits)
  BY <1>1, <1>2, <1>3, LeadsRun, GoodRun DEF Leads
<1> QED BY <1>1, <1>4, GrewThen

-----------------------------------------------------------------------------
(***************************************************************************)
(* Segments                                                                *)
(***************************************************************************)
\* The segments' buffers grow, some segments go; more is asked.
LEMMA LeadsSegments ==
  ASSUME NEW st, NEW waits \in BOOLEAN, Good(st, waits), Sound(st), NEW other,
         other.nextEpoch = st.nextEpoch,
         other.composition.epoch = st.composition.epoch,
         other.composition.buffer = st.composition.buffer,
         other.composition.held = st.composition.held,
         st.tracker.asked \subseteq other.tracker.asked,
         PendingFit(other.tracker.pending, other.tracker.asked),
         QueuesFit(other.queue, other.tracker.asked),
         DOMAIN other.segments \subseteq DOMAIN st.segments,
         \A e \in DOMAIN other.segments :
           /\ BufferOK(other.segments[e].buffer)
           /\ Known(other.segments[e].buffer, e, other.tracker.asked)
           /\ Grown(st.segments[e].buffer, other.segments[e].buffer)
  PROVE  Leads(st, other)
<1>1. CompositionFit(other.composition, other.tracker.asked)
  <2>1. CompositionFit(st.composition, other.tracker.asked) BY FitsMore DEF Sound
  <2> QED BY <2>1 DEF CompositionFit
<1>2. SegmentsFit(other.segments, other.tracker.asked) BY DEF SegmentsFit
<1>3. Sound(other) BY <1>1, <1>2 DEF Sound
<1>4. st.nextEpoch <= other.nextEpoch BY DEF Good, Counted
<1>5. ASSUME NEW e, NEW b, BufferOf(other, e, b) PROVE \E a : BufferOf(st, e, a) /\ Grown(a, b)
  BY HasBuffer, GrownSame, <1>5 DEF BufferOf
<1> QED BY <1>3, <1>4, <1>5 DEF Leads, Grew

\* One segment is another, its buffer grown.
LEMMA LeadsSegment ==
  ASSUME NEW st, NEW waits \in BOOLEAN, Good(st, waits), Sound(st),
         NEW e \in DOMAIN st.segments, NEW s,
         BufferOK(s.buffer), Known(s.buffer, e, st.tracker.asked),
         Grown(st.segments[e].buffer, s.buffer)
  PROVE  Leads(st, [st EXCEPT !.segments[e] = s])
<1> DEFINE t == [st EXCEPT !.segments[e] = s]
<1>1. /\ t.composition = st.composition /\ t.tracker = st.tracker /\ t.nextEpoch = st.nextEpoch
      /\ t.queue = st.queue
      /\ DOMAIN t.segments = DOMAIN st.segments /\ t.segments[e] = s
      /\ \A k \in DOMAIN st.segments : k # e => t.segments[k] = st.segments[k]
  BY DEF Good, IsState
<1> HIDE DEF t
<1>2. ASSUME NEW k \in DOMAIN t.segments
      PROVE  /\ BufferOK(t.segments[k].buffer) /\ Known(t.segments[k].buffer, k, st.tracker.asked)
             /\ Grown(st.segments[k].buffer, t.segments[k].buffer)
  BY <1>1, GrownSame DEF Sound, SegmentsFit
<1>3. PendingFit(st.tracker.pending, st.tracker.asked) /\ QueuesFit(st.queue, st.tracker.asked)
  BY DEF Sound
<1>4. Leads(st, t) BY <1>1, <1>2, <1>3, LeadsSegments
<1> QED BY <1>4 DEF t

\* A segment whose buffer is the same.
LEMMA LeadsStage ==
  ASSUME NEW st, NEW waits \in BOOLEAN, Good(st, waits), Sound(st),
         NEW e \in DOMAIN st.segments, NEW s, s.buffer = st.segments[e].buffer
  PROVE  Leads(st, [st EXCEPT !.segments[e] = s])
BY GrownSame, LeadsSegment DEF Sound, SegmentsFit

LEMMA FinishedBuffer ==
  ASSUME NEW s, DOMAIN s = SegmentFields, BufferOK(s.buffer)
  PROVE  LET f == FinishedLocally(s)
         IN  /\ BufferOK(f.buffer) /\ Grown(s.buffer, f.buffer)
             /\ \A epoch, asked : Known(s.buffer, epoch, asked) => Known(f.buffer, epoch, asked)
BY AcceptLocalEdited, EditedGrown DEF FinishedLocally, SegmentFields

LEMMA LeadsConvert ==
  ASSUME NEW st, NEW waits \in BOOLEAN, Good(st, waits), Sound(st), NEW e \in DOMAIN st.segments
  PROVE  Leads(st, ConvertSegment(st, e))
<1> DEFINE s == st.segments[e]
           t == ConvertSegment(st, e)
<1>1. DOMAIN s = SegmentFields BY DEF Good, IsState
<1>2. BufferOK(s.buffer) /\ Known(s.buffer, e, st.tracker.asked) BY DEF Sound, SegmentsFit
<1>3. CASE ~(st.connected /\ HasSnapshot(s.buffer))
  <2> DEFINE f == FinishedLocally(s)
  <2>1. t = [st EXCEPT !.segments[e] = f] BY <1>3 DEF ConvertSegment
  <2>2. BufferOK(f.buffer) /\ Grown(s.buffer, f.buffer) /\ Known(f.buffer, e, st.tracker.asked)
    BY <1>1, <1>2, FinishedBuffer
  <2> HIDE DEF f, t
  <2> QED BY <2>1, <2>2, LeadsSegment DEF t
<1>4. CASE st.connected /\ HasSnapshot(s.buffer)
  <2> DEFINE request == RequestOf(e, s.doc, s.buffer)
             sent == Send(st.tracker, request)
  <2>1. t = [st EXCEPT !.tracker = sent, !.segments[e].stage = "converting",
                       !.segments[e].awaited = st.tracker.sequence + 1]
    BY <1>4 DEF ConvertSegment
  <2>2. st.tracker.asked \subseteq sent.asked /\ PendingFit(sent.pending, sent.asked)
    BY <1>2, SendFit DEF Good, Counted, Sound
  <2> HIDE DEF sent
  <2>3. /\ t.composition = st.composition /\ t.nextEpoch = st.nextEpoch /\ t.queue = st.queue
        /\ t.tracker = sent
        /\ DOMAIN t.segments = DOMAIN st.segments
        /\ \A k \in DOMAIN st.segments : t.segments[k].buffer = st.segments[k].buffer
    BY <2>1 DEF Good, IsState, SegmentFields
  <2> HIDE DEF t
  <2>4. QueuesFit(st.queue, sent.asked) BY <2>2, FitsMore DEF Sound
  <2>5. SegmentsFit(st.segments, sent.asked) BY <2>2, FitsMore DEF Sound
  <2>6. \A k \in DOMAIN t.segments :
          /\ BufferOK(t.segments[k].buffer) /\ Known(t.segments[k].buffer, k, sent.asked)
          /\ Grown(st.segments[k].buffer, t.segments[k].buffer)
    BY <2>3, <2>5, GrownSame DEF SegmentsFit
  <2>7. Leads(st, t) BY <2>2, <2>3, <2>4, <2>6, LeadsSegments
  <2> QED BY <2>7 DEF t
<1> QED BY <1>3, <1>4

LEMMA LeadsWrite ==
  ASSUME NEW st, NEW waits \in BOOLEAN, Good(st, waits), Sound(st), NEW e
  PROVE  Leads(st, WriteIfFinished(st, e))
BY LeadsRun, LeadsSame DEF WriteEdit, WriteIfFinished

LEMMA LeadsConvertWrite ==
  ASSUME NEW st, NEW waits \in BOOLEAN, Good(st, waits), Sound(st), NEW e \in DOMAIN st.segments
  PROVE  Leads(st, WriteIfFinished(ConvertSegment(st, e), e))
<1> DEFINE n == ConvertSegment(st, e)
<1>1. Leads(st, n) /\ Good(n, waits) BY LeadsConvert, GoodConvert
<1> HIDE DEF n
<1>2. Leads(n, WriteIfFinished(n, e)) /\ Good(WriteIfFinished(n, e), waits)
  BY <1>1, LeadsWrite, GoodWrite DEF Leads
<1> QED BY <1>1, <1>2, GrewThen DEF n

\* The open composition is closed and its edited buffer goes into a segment.
LEMMA LeadsAdded ==
  ASSUME NEW st, NEW waits \in BOOLEAN, Good(st, waits), Sound(st), NEW other,
         st.composition.epoch # 0, NEW b, Edited(st.composition.buffer, b),
         other.composition = NoComposition, other.tracker = st.tracker,
         other.nextEpoch = st.nextEpoch, other.queue = st.queue,
         DOMAIN other.segments = DOMAIN st.segments \union {st.composition.epoch},
         other.segments[st.composition.epoch].buffer = b,
         \A e \in DOMAIN st.segments : other.segments[e] = st.segments[e]
  PROVE  Leads(st, other)
<1> DEFINE epoch == st.composition.epoch
           a == st.composition.buffer
<1>1. BufferOK(a) /\ Known(a, epoch, st.tracker.asked) BY DEF Sound, CompositionFit
<1>2. Grown(a, b) /\ BufferOK(b) /\ Known(b, epoch, st.tracker.asked) BY <1>1, EditedGrown
<1>3. SegmentsFit(other.segments, st.tracker.asked)
  BY <1>2 DEF SegmentsFit, Sound
<1>4. CompositionFit(NoComposition, st.tracker.asked) /\ NoComposition.epoch = 0
  BY EmptyFit DEF NoComposition
<1>5. Sound(other) BY <1>3, <1>4 DEF Sound
<1>6. st.nextEpoch <= other.nextEpoch BY DEF Good, Counted
<1>7. ASSUME NEW e, NEW d, BufferOf(other, e, d) PROVE \E o : BufferOf(st, e, o) /\ Grown(o, d)
  BY <1>4, <1>7, <1>2, HasBuffer, GrownSame DEF BufferOf
<1> QED BY <1>5, <1>6, <1>7 DEF Leads, Grew

LEMMA LeadsSeal ==
  ASSUME NEW st, NEW waits \in BOOLEAN, Good(st, waits), Sound(st)
  PROVE  Leads(st, Seal(st))
<1>1. CASE st.composition.epoch = 0 BY <1>1, LeadsSame DEF Seal
<1>2. CASE st.composition.epoch # 0
  <2> DEFINE frozen == FreezeReadings(st.composition.buffer)
             whole  == WithBuffer(st, frozen)
             c      == [st.composition EXCEPT !.buffer = frozen]
             left   == Leave(whole)
             flying == InFlight(st, frozen)
             added  == Added(left, c, flying)
             next   == AddSegment(left, c, flying)
             edit   == SealEdit(c.epoch)
  <2>0. Edited(st.composition.buffer, frozen)
    BY FreezeEdited DEF Sound, CompositionFit
  <2>1. Good(whole, waits) /\ Leads(st, whole) BY <1>2, <2>0, GoodBuffer, LeadsBuffer
  <2>2. /\ whole.tracker = st.tracker /\ whole.nextEpoch = st.nextEpoch
        /\ whole.segments = st.segments /\ whole.queue = st.queue
    BY DEF WithBuffer, Good, IsState
  <2>3. /\ c.epoch = st.composition.epoch /\ c.sent = st.composition.sent
        /\ c.buffer = frozen
    BY DEF Good, IsState
  <2>4. CASE Settled(c)
    <3>1. Seal(st) = Commit(whole) BY <1>2, <2>4 DEF Seal
    <3> HIDE DEF whole
    <3>2. Leads(whole, Commit(whole)) /\ Good(Commit(whole), waits)
      BY <2>1, LeadsCommit, GoodCommit DEF Leads
    <3> QED BY <2>1, <3>1, <3>2, GrewThen
  <2>5. CASE ~Settled(c)
    <3>0. Seal(st) = Run(next, c.doc, edit) BY <1>2, <2>5 DEF Seal
    <3>00. next = IF ~flying /\ c.preceding
                  THEN WriteIfFinished(ConvertSegment(added, c.epoch), c.epoch)
                  ELSE added
      BY DEF AddSegment, Added
    <3>01. edit.do # "apply" BY DEF SealEdit
    <3> HIDE DEF whole, edit
    <3>1. /\ Good(left, waits) /\ left.composition = NoComposition
          /\ left.tracker = st.tracker /\ left.nextEpoch = st.nextEpoch
          /\ left.segments = st.segments
      BY <2>1, <2>2, LeaveFacts
    <3>02. left.queue = st.queue
      BY <2>1, <2>2 DEF Leave, WithoutComposition, Good, IsState
    <3>2. left.composition.epoch = 0 BY <3>1 DEF NoComposition, NewComposition
    <3> HIDE DEF left
    <3>3. /\ flying \in BOOLEAN
          /\ flying => c.sent.sequence \in DOMAIN st.tracker.pending
      BY <2>3 DEF InFlight, Awaits
    <3>4. /\ c.epoch \in 1..(st.nextEpoch - 1) /\ c.epoch \notin DOMAIN st.segments
          /\ NewestOf(st.tracker, c.epoch, c.sent.sequence)
      BY <1>2, <2>3 DEF Good, Counted, SentNewest
    <3> HIDE DEF c, flying, next, frozen
    <3>5. /\ Good(added, waits)
          /\ added.composition = left.composition /\ added.tracker = left.tracker
          /\ added.nextEpoch = left.nextEpoch /\ added.queue = left.queue
          /\ DOMAIN added.segments = DOMAIN left.segments \union {c.epoch}
          /\ added.segments[c.epoch].buffer = c.buffer
          /\ \A e \in DOMAIN left.segments : added.segments[e] = left.segments[e]
      BY <1>2, <2>3, <3>1, <3>2, <3>3, <3>4, AddedFacts
    <3> HIDE DEF added
    <3>6. Leads(st, added) BY <1>2, <2>0, <2>3, <3>1, <3>02, <3>5, LeadsAdded
    <3>7. Good(next, waits) /\ Leads(st, next)
      <4>1. CASE ~flying /\ c.preceding
        <5> DEFINE n == WriteIfFinished(ConvertSegment(added, c.epoch), c.epoch)
        <5>1. c.epoch \in DOMAIN added.segments BY <3>5
        <5>2. Leads(added, n) /\ Good(n, waits)
          BY <3>5, <3>6, <5>1, LeadsConvertWrite, GoodConvert, GoodWrite DEF Leads
        <5>3. next = n BY <3>00, <4>1
        <5> HIDE DEF n
        <5> QED BY <3>5, <3>6, <5>2, <5>3, GrewThen
      <4>2. CASE ~(~flying /\ c.preceding) BY <3>00, <3>5, <3>6, <4>2
      <4> QED BY <4>1, <4>2
    <3>8. Leads(next, Run(next, c.doc, edit)) /\ Good(Run(next, c.doc, edit), waits)
      BY <3>01, <3>7, LeadsRun, GoodRun DEF Leads
    <3> QED BY <3>0, <3>7, <3>8, GrewThen
  <2> QED BY <2>4, <2>5
<1> QED BY <1>1, <1>2

LEMMA LeadsContextReady ==
  ASSUME NEW st, NEW waits \in BOOLEAN, Good(st, waits), Sound(st), NEW epoch
  PROVE  Leads(st, ContextReady(st, epoch))
<1>1. CASE st.composition.epoch = epoch
  <2> DEFINE t == [st EXCEPT !.composition.preceding = TRUE]
  <2>1. Good(t, waits) BY GoodFrame DEF Good, IsState
  <2>2. /\ t.tracker = st.tracker /\ t.nextEpoch = st.nextEpoch
        /\ t.segments = st.segments /\ t.queue = st.queue
        /\ t.composition.epoch = st.composition.epoch
        /\ t.composition.buffer = st.composition.buffer
        /\ t.composition.held = st.composition.held
    BY DEF Good, IsState
  <2>3. ContextReady(st, epoch) = Request(t) BY <1>1 DEF ContextReady
  <2> HIDE DEF t
  <2>4. Leads(st, t) BY <2>2, LeadsFrame
  <2>5. Leads(t, Request(t)) /\ Good(Request(t), waits)
    BY <2>1, <2>4, LeadsRequest, GoodRequest DEF Leads
  <2> QED BY <2>1, <2>3, <2>4, <2>5, GrewThen
<1>2. CASE st.composition.epoch # epoch /\ epoch \notin DOMAIN st.segments
  BY <1>2, LeadsSame DEF ContextReady
<1>3. CASE st.composition.epoch # epoch /\ epoch \in DOMAIN st.segments
  <2> DEFINE s == [st.segments[epoch] EXCEPT !.preceding = TRUE]
             t == [st EXCEPT !.segments[epoch] = s]
             n == WriteIfFinished(ConvertSegment(t, epoch), epoch)
  <2>1. /\ DOMAIN s = SegmentFields /\ s.buffer = st.segments[epoch].buffer
        /\ s.stage = st.segments[epoch].stage /\ s.awaited = st.segments[epoch].awaited
    BY <1>3 DEF Good, IsState, SegmentFields
  <2> HIDE DEF s
  <2>2. Good(t, waits) /\ Leads(st, t) BY <1>3, <2>1, GoodSegment, LeadsStage
  <2>3. epoch \in DOMAIN t.segments BY <1>3 DEF Good, IsState
  <2>4. t = [st EXCEPT !.segments[epoch].preceding = TRUE] BY DEF s
  <2> HIDE DEF t
  <2>5. Good(n, waits) /\ Leads(t, n)
    BY <2>2, <2>3, GoodConvert, GoodWrite, LeadsConvertWrite DEF Leads
  <2>6. ContextReady(st, epoch) = t \/ ContextReady(st, epoch) = n
    BY <1>3, <2>4 DEF ContextReady
  <2> HIDE DEF n
  <2> QED BY <2>2, <2>5, <2>6, GrewThen
<1> QED BY <1>1, <1>2, <1>3

\* Requests, segments and edits go.
LEMMA LeadsFewer ==
  ASSUME NEW st, NEW waits \in BOOLEAN, Good(st, waits), Sound(st), NEW other,
         other.nextEpoch = st.nextEpoch,
         other.composition.epoch = st.composition.epoch,
         other.composition.buffer = st.composition.buffer,
         other.composition.held = st.composition.held,
         other.tracker.asked = st.tracker.asked,
         DOMAIN other.tracker.pending \subseteq DOMAIN st.tracker.pending,
         \A s \in DOMAIN other.tracker.pending :
           other.tracker.pending[s] = st.tracker.pending[s],
         QueuesFit(other.queue, st.tracker.asked),
         DOMAIN other.segments \subseteq DOMAIN st.segments,
         \A e \in DOMAIN other.segments : other.segments[e] = st.segments[e]
  PROVE  Leads(st, other)
BY GrownSame, LeadsSegments DEF Sound, PendingFit, SegmentsFit

LEMMA LeadsTake ==
  ASSUME NEW st, NEW waits \in BOOLEAN, Good(st, waits), Sound(st), NEW sequence
  PROVE  LET t == [st EXCEPT !.tracker = Take(@, sequence)]
         IN  Leads(st, t) /\ t.tracker.asked = st.tracker.asked /\ t.segments = st.segments
<1> DEFINE t == [st EXCEPT !.tracker = Take(@, sequence)]
<1>1. /\ t.composition = st.composition /\ t.segments = st.segments /\ t.nextEpoch = st.nextEpoch
      /\ t.queue = st.queue /\ t.tracker = Take(st.tracker, sequence)
  BY DEF Good, IsState
<1> HIDE DEF t
<1>2. /\ DOMAIN t.tracker.pending = DOMAIN st.tracker.pending \ {sequence}
      /\ \A s \in DOMAIN t.tracker.pending : t.tracker.pending[s] = st.tracker.pending[s]
      /\ t.tracker.asked = st.tracker.asked
  BY <1>1 DEF Take, Restrict, Good, IsState
<1>3. QueuesFit(t.queue, st.tracker.asked) BY <1>1 DEF Sound
<1>4. Leads(st, t) BY <1>1, <1>2, <1>3, LeadsFewer
<1> QED BY <1>1, <1>2, <1>4 DEF t

LEMMA LeadsForget ==
  ASSUME NEW st, NEW waits \in BOOLEAN, Good(st, waits), Sound(st)
  PROVE  Leads(st, [st EXCEPT !.tracker = Forget(@)])
<1> DEFINE t == [st EXCEPT !.tracker = Forget(@)]
<1>1. /\ t.composition = st.composition /\ t.segments = st.segments /\ t.nextEpoch = st.nextEpoch
      /\ t.queue = st.queue /\ t.tracker = Forget(st.tracker)
  BY DEF Good, IsState
<1> HIDE DEF t
<1>2. DOMAIN t.tracker.pending = {} /\ t.tracker.asked = st.tracker.asked
  BY <1>1 DEF Forget, Good, IsState
<1>3. QueuesFit(t.queue, st.tracker.asked) BY <1>1 DEF Sound
<1>4. Leads(st, t) BY <1>1, <1>2, <1>3, LeadsFewer
<1> QED BY <1>4 DEF t

\* The segment of a request once its result is merged.
Merges(st, sequence, request, outcome) ==
  [st EXCEPT !.segments[request.epoch] = Merged(@, sequence, request, outcome)]

LEMMA LeadsMerged ==
  ASSUME NEW st, NEW waits \in BOOLEAN, Good(st, waits), Sound(st),
         NEW sequence, NEW request, NEW outcome,
         Requested(request, sequence, st.tracker.asked),
         outcome.predicted \in 0..Len(request.snapshot), request.epoch \in DOMAIN st.segments
  PROVE  LET t == Merges(st, sequence, request, outcome)
         IN  Good(t, waits) /\ Leads(st, t)
<1> DEFINE e == request.epoch
           s == st.segments[e]
           m == Merged(s, sequence, request, outcome)
           t == [st EXCEPT !.segments[e] = m]
<1>0. Merges(st, sequence, request, outcome) = t BY DEF Merges
<1>1. Good(t, waits) BY MergedFacts, GoodSegment DEF Good, IsState
<1>3. DOMAIN s = SegmentFields BY DEF Good, IsState
<1>4. m.buffer = Merge(s.buffer, sequence, request.snapshot, outcome, 0)
  BY <1>3 DEF Merged, SegmentFields
<1>5. BufferOK(s.buffer) /\ Known(s.buffer, e, st.tracker.asked) BY DEF Sound, SegmentsFit
<1>6. /\ sequence \in Nat
      /\ \A k \in 1..outcome.predicted :
           Asked(sequence, e, request.snapshot[k]) \in st.tracker.asked
  BY DEF Requested
<1> DEFINE after == Merge(s.buffer, sequence, request.snapshot, outcome, 0)
<1>7. BufferOK(after) /\ Grown(s.buffer, after) /\ Known(after, e, st.tracker.asked)
  BY <1>5, <1>6, MergeFacts
<1> HIDE DEF after
<1>8. BufferOK(m.buffer) /\ Grown(s.buffer, m.buffer) /\ Known(m.buffer, e, st.tracker.asked)
  BY <1>4, <1>7 DEF after
<1> HIDE DEF m
<1>9. Leads(st, t) BY <1>8, LeadsSegment
<1> QED BY <1>0, <1>1, <1>9

LEMMA LeadsMergeSealed ==
  ASSUME NEW st, NEW waits \in BOOLEAN, Good(st, waits), Sound(st),
         NEW sequence, NEW request, NEW outcome,
         Requested(request, sequence, st.tracker.asked),
         outcome.predicted \in 0..Len(request.snapshot)
  PROVE  Leads(st, MergeSealed(st, sequence, request, outcome))
<1>1. CASE request.epoch \notin DOMAIN st.segments BY <1>1, LeadsSame DEF MergeSealed
<1>2. CASE request.epoch \in DOMAIN st.segments
  <2> DEFINE e == request.epoch
             t == Merges(st, sequence, request, outcome)
  <2>1. Good(t, waits) /\ Leads(st, t) BY <1>2, LeadsMerged
  <2>2. MergeSealed(st, sequence, request, outcome) = WriteIfFinished(t, e)
    BY <1>2 DEF MergeSealed, Merges
  <2> HIDE DEF t
  <2>3. Leads(t, WriteIfFinished(t, e)) /\ Good(WriteIfFinished(t, e), waits)
    BY <2>1, LeadsWrite, GoodWrite DEF Leads
  <2> QED BY <2>1, <2>2, <2>3, GrewThen
<1> QED BY <1>1, <1>2

LEMMA LeadsFinishLocally ==
  ASSUME NEW st, NEW waits \in BOOLEAN, Good(st, waits), Sound(st)
  PROVE  Leads(st, FinishLocally(st))
<1> DEFINE t == FinishLocally(st)
<1>1. /\ t.composition = st.composition /\ t.tracker = st.tracker /\ t.nextEpoch = st.nextEpoch
      /\ t.segments = AllFinished(st.segments)
      /\ t.queue = [d \in Docs |->
                     IF \E e \in DOMAIN st.segments : st.segments[e].doc = d
                     THEN Append(st.queue[d], WriteEdit) ELSE st.queue[d]]
  BY DEF FinishLocally, Good, IsState
<1> HIDE DEF t
<1>2. /\ DOMAIN t.segments = DOMAIN st.segments
      /\ \A e \in DOMAIN st.segments : t.segments[e] = FinishedLocally(st.segments[e])
  BY <1>1 DEF AllFinished
<1>3. ASSUME NEW e \in DOMAIN t.segments
      PROVE  /\ BufferOK(t.segments[e].buffer)
             /\ Known(t.segments[e].buffer, e, st.tracker.asked)
             /\ Grown(st.segments[e].buffer, t.segments[e].buffer)
  <2> DEFINE s == st.segments[e]
  <2>1. DOMAIN s = SegmentFields BY <1>2 DEF Good, IsState
  <2>2. BufferOK(s.buffer) /\ Known(s.buffer, e, st.tracker.asked)
    BY <1>2 DEF Sound, SegmentsFit
  <2>3. t.segments[e] = FinishedLocally(s) BY <1>2
  <2> HIDE DEF s
  <2>4. /\ BufferOK(FinishedLocally(s).buffer) /\ Grown(s.buffer, FinishedLocally(s).buffer)
        /\ Known(FinishedLocally(s).buffer, e, st.tracker.asked)
    BY <2>1, <2>2, FinishedBuffer
  <2> QED BY <2>3, <2>4 DEF s
<1>4. QueuesFit(t.queue, st.tracker.asked)
  BY AppendQueued, <1>1 DEF Sound, QueuesFit, WriteEdit
<1>5. PendingFit(st.tracker.pending, st.tracker.asked) BY DEF Sound
<1>6. Leads(st, t) BY <1>1, <1>2, <1>3, <1>4, <1>5, LeadsSegments
<1> QED BY <1>6 DEF t

LEMMA LeadsBackendLost ==
  ASSUME NEW st, Good(st, FALSE), Sound(st)
  PROVE  Leads(st, BackendLost(st))
<1> DEFINE forgot == [st EXCEPT !.tracker = Forget(@)]
           lost == FinishLocally(forgot)
           t    == [lost EXCEPT !.composition.sent = NotSent]
           c    == st.composition
           edit == LostEdit(c.epoch)
<1>1. Good(forgot, FALSE) /\ Leads(st, forgot) BY GoodForget, LeadsForget
<1>2. BackendLost(st) = lost \/ BackendLost(st) = Run(t, c.doc, edit) BY DEF BackendLost
<1>3. edit.do # "apply" BY DEF LostEdit
<1>4. Good(BackendLost(st), FALSE) BY GoodBackendLost, GoodWeaker
<1>5. DOMAIN lost.tracker.pending = {}
  BY DEF FinishLocally, Forget, Good, IsState
<1> HIDE DEF forgot
<1>6. Good(lost, FALSE) /\ Leads(forgot, lost)
  BY <1>1, GoodFinishLocally, GoodWeaker, LeadsFinishLocally DEF Leads
<1> HIDE DEF lost
<1>7. Leads(st, lost) BY <1>1, <1>6, GrewThen
<1>8. /\ DOMAIN t = DOMAIN lost /\ DOMAIN t.composition = DOMAIN lost.composition
      /\ t.composition.epoch = lost.composition.epoch /\ t.composition.sent = NotSent
      /\ t.composition.buffer = lost.composition.buffer
      /\ t.composition.held = lost.composition.held
      /\ t.tracker = lost.tracker /\ t.nextEpoch = lost.nextEpoch /\ t.segments = lost.segments
      /\ t.queue = lost.queue
  BY <1>6 DEF Good, IsState
<1> HIDE DEF t, edit
<1>9. Leads(lost, t) BY <1>6, <1>7, <1>8, LeadsFrame DEF Leads
<1>10. Good(t, FALSE)
  BY <1>6, <1>8, <1>5 DEF Good, IsState, SentNewest, NewestOf, NotSent, Counted, Numbered
<1>11. Leads(st, t) BY <1>6, <1>7, <1>9, <1>10, GrewThen
<1>12. Leads(t, Run(t, c.doc, edit)) /\ Good(Run(t, c.doc, edit), FALSE)
  BY <1>3, <1>10, <1>11, LeadsRun, GoodRun DEF Leads
<1>13. Leads(st, Run(t, c.doc, edit)) BY ZenonT(30), <1>10, <1>11, <1>12, GrewThen
<1> QED BY <1>2, <1>7, <1>13

-----------------------------------------------------------------------------
(***************************************************************************)
(* The invariant of the specification                                      *)
(***************************************************************************)
\* The open composition's buffer grows; results for it may be held back.
LEMMA LeadsGrown ==
  ASSUME NEW st, NEW waits \in BOOLEAN, Good(st, waits), Sound(st), NEW other,
         other.tracker = st.tracker, other.nextEpoch = st.nextEpoch,
         other.segments = st.segments, other.queue = st.queue,
         st.composition.epoch # 0, other.composition.epoch = st.composition.epoch,
         BufferOK(other.composition.buffer),
         Grown(st.composition.buffer, other.composition.buffer),
         Known(other.composition.buffer, st.composition.epoch, st.tracker.asked),
         \A h \in other.composition.held :
           h.sequence \in Nat /\ Asked(h.sequence, st.composition.epoch, h.asked) \in st.tracker.asked
  PROVE  Leads(st, other)
<1>1. Sound(other) BY DEF Sound, CompositionFit
<1>2. st.nextEpoch <= other.nextEpoch BY DEF Good, Counted
<1>3. ASSUME NEW e, NEW b, BufferOf(other, e, b) PROVE \E a : BufferOf(st, e, a) /\ Grown(a, b)
  BY HasBuffer, GrownSame, <1>3 DEF BufferOf
<1> QED BY <1>1, <1>2, <1>3 DEF Leads, Grew

-----------------------------------------------------------------------------
SInv == IInv /\ Sound(Now)

LEMMA NowSound ==
  ASSUME SInv
  PROVE  /\ Good(Now, TRUE) /\ Sound(Now)
         /\ Now.composition = composition /\ Now.tracker = tracker /\ Now.segments = segments
         /\ Now.nextEpoch = nextEpoch /\ Now.queue = queue
BY DEF SInv, IInv, Now

LEMMA BecomeLeads ==
  ASSUME NEW st, Leads(Now, st), Become(st)
  PROVE  Leads(Now, Now')
BY DEF Become, Now, Leads, Sound, BufferOf, Grew

LEMMA UnchangedLeads ==
  ASSUME SInv, UNCHANGED controller
  PROVE  Leads(Now, Now')
BY NowSound, LeadsSame DEF Now, controller

LEMMA InitSound == Init => Sound(Now)
<1> SUFFICES ASSUME Init PROVE Sound(Now) OBVIOUS
<1>1. /\ Now.composition = NoComposition /\ Now.tracker = NoRequests
      /\ Now.segments = <<>> /\ Now.queue = [d \in Docs |-> <<>>]
  BY DEF Now, Init, NoSegments
<1>2. CompositionFit(NoComposition, {}) BY EmptyFit DEF NoComposition
<1>3. SegmentsFit(<<>>, {}) BY DEF SegmentsFit
<1>4. PendingFit(<<>>, {}) BY DEF PendingFit
<1>5. QueuesFit([d \in Docs |-> <<>>], {}) BY NoneQueued DEF QueuesFit
<1>6. NoRequests.asked = {} /\ NoRequests.pending = <<>> BY DEF NoRequests
<1> QED BY <1>1, <1>2, <1>3, <1>4, <1>5, <1>6 DEF Sound

LEMMA PoppedLeads ==
  ASSUME SInv, NEW d \in Docs, queue[d] # <<>>
  PROVE  /\ Leads(Now, Popped(d))
         /\ Head(queue[d]).do = "apply" => Applies(Head(queue[d]), tracker.asked)
<1> DEFINE p == Popped(d)
<1>1. /\ p.composition = composition /\ p.tracker = tracker /\ p.segments = segments
      /\ p.nextEpoch = nextEpoch /\ p.queue = [queue EXCEPT ![d] = Tail(queue[d])]
  BY DEF Popped, Now
<1> HIDE DEF p
<1>2. DOMAIN queue = Docs /\ \A k \in Docs : Queued(queue[k], tracker.asked)
  BY NowSound DEF Sound, QueuesFit
<1>3. /\ Queued(Tail(queue[d]), tracker.asked)
      /\ Head(queue[d]).do = "apply" => Applies(Head(queue[d]), tracker.asked)
  BY <1>2, TailQueued
<1>4. QueuesFit(p.queue, tracker.asked)
  BY <1>1, <1>2, <1>3 DEF QueuesFit
<1>5. Leads(Now, p) BY <1>1, <1>4, NowSound, LeadsFewer
<1> QED BY <1>3, <1>5 DEF p

\* What is done after an edit is taken from its queue.
LEMMA ProceedLeads ==
  ASSUME SInv, NEW d \in Docs, queue[d] # <<>>, NEW st, Good(st, TRUE), Leads(Popped(d), st),
         Proceed(d, st)
  PROVE  Leads(Now, Now')
BY NowSound, PoppedGood, PoppedLeads, GrewThen, BecomeLeads DEF SInv, Proceed

-----------------------------------------------------------------------------
(***************************************************************************)
(* The actions                                                             *)
(***************************************************************************)
\* The state after a step that goes on from st.
LEMMA BecomeStep ==
  ASSUME NEW st, Good(st, TRUE), Leads(Now, st), Become(st)
  PROVE  IInv' /\ Leads(Now, Now')
BY BecomeGood, BecomeLeads

LEMMA ProceedStep ==
  ASSUME SInv, NEW d \in Docs, queue[d] # <<>>, NEW st, Good(st, TRUE), Leads(Popped(d), st),
         Proceed(d, st)
  PROVE  IInv' /\ Leads(Now, Now')
BY ProceedLeads, BecomeGood DEF Proceed

\* A result merged into the open composition.
LEMMA ApplyStep ==
  ASSUME SInv, NEW d \in Docs, RunApply(d)
  PROVE  IInv' /\ Leads(Now, Now')
<1> DEFINE p == Popped(d)
           edit == Head(queue[d])
           b    == Merge(composition.buffer, edit.sequence, edit.request.snapshot,
                         edit.outcome, composition.lock)
           held == HeldBack(composition.buffer, edit.sequence, edit.request.snapshot,
                            edit.outcome, composition.lock)
           after == [composition EXCEPT
                       !.buffer = b,
                       !.held = IF held = {} \/ (\E h \in @ : h.sequence > edit.sequence)
                                THEN @ ELSE held,
                       !.converted = IF edit.request.revision = b.revision THEN b.revision ELSE @]
           live == [p EXCEPT !.composition = after]
           sealed == MergeSealed(p, edit.sequence, edit.request, edit.outcome)
<1>1. queue[d] # <<>> /\ edit.do = "apply" BY DEF RunApply, Taken, CanRun
<1>2. Good(p, TRUE) /\ Leads(Now, p) /\ Applies(edit, tracker.asked)
  BY <1>1, PoppedGood, PoppedLeads DEF SInv
<1>3. /\ p.composition = composition /\ p.segments = segments /\ p.tracker = tracker
      /\ p.nextEpoch = nextEpoch
  BY DEF Popped, Now
<1>4. /\ edit.epoch = edit.request.epoch /\ edit.sequence \in Nat
      /\ \A k \in 1..edit.outcome.predicted :
           Asked(edit.sequence, edit.epoch, edit.request.snapshot[k]) \in tracker.asked
  BY <1>2 DEF Applies, Requested
<1>5. CASE ~Live(edit.epoch)
  <2>1. Proceed(d, sealed) BY <1>5 DEF RunApply
  <2> HIDE DEF p
  <2>2. Good(sealed, TRUE) BY <1>2, GoodMergeSealed
  <2>3. Leads(p, sealed)
    BY <1>2, <1>3, LeadsMergeSealed DEF Applies, Leads
  <2> QED BY <1>1, <2>1, <2>2, <2>3, ProceedStep DEF p
<1>6. CASE Live(edit.epoch)
  <2>1. Proceed(d, live) BY <1>6 DEF RunApply
  <2>2. composition.epoch = edit.epoch /\ composition.epoch # 0 BY <1>6 DEF Live, Active
  <2>3. /\ CompositionFit(composition, tracker.asked)
    BY NowSound DEF Sound
  <2>4. BufferOK(composition.buffer) /\ Known(composition.buffer, edit.epoch, tracker.asked)
    BY <2>2, <2>3 DEF CompositionFit
  <2>5. BufferOK(b) /\ Grown(composition.buffer, b) /\ Known(b, edit.epoch, tracker.asked)
    BY <1>4, <2>4, MergeFacts
  <2>6. \A h \in held : h.sequence \in Nat /\ Asked(h.sequence, edit.epoch, h.asked) \in tracker.asked
    BY <1>4 DEF HeldBack
  <2>7. \A h \in composition.held :
          h.sequence \in Nat /\ Asked(h.sequence, edit.epoch, h.asked) \in tracker.asked
    BY <2>2, <2>3 DEF CompositionFit
  <2> HIDE DEF b, held
  <2>8. /\ DOMAIN after = DOMAIN composition
        /\ after.epoch = composition.epoch /\ after.sent = composition.sent
        /\ after.buffer = b /\ (after.held = composition.held \/ after.held = held)
    BY <1>2, <1>3 DEF Good, IsState
  <2> HIDE DEF after, p
  <2>9. /\ DOMAIN live = DOMAIN p /\ live.composition = after
        /\ live.tracker = p.tracker /\ live.nextEpoch = p.nextEpoch
        /\ live.segments = p.segments /\ live.queue = p.queue
    BY <1>2 DEF Good, IsState
  <2> HIDE DEF live
  <2>10. IsState(live) BY <1>2, <1>3, <2>8, <2>9 DEF Good, IsState
  <2>11. Good(live, TRUE) BY <1>2, <1>3, <2>8, <2>9, <2>10, GoodFrame
  <2>12. \A h \in after.held :
          h.sequence \in Nat /\ Asked(h.sequence, edit.epoch, h.asked) \in tracker.asked
    BY <2>6, <2>7, <2>8
  <2>13. Leads(p, live)
    BY <1>2, <1>3, <2>2, <2>5, <2>8, <2>9, <2>12, LeadsGrown DEF Leads
  <2> QED BY <1>1, <2>1, <2>11, <2>13, ProceedStep DEF p
<1> QED BY <1>5, <1>6

LEMMA RunEditStep ==
  ASSUME SInv, NEW d \in Docs, RunEdit(d)
  PROVE  IInv' /\ Leads(Now, Now')
<1> DEFINE p == Popped(d)
           edit == Head(queue[d])
<1>0. queue[d] # <<>>
  BY DEF RunEdit, RunOpen, RunShow, RunApply, RunCommit, RunDiscard, RunSeal, RunLost, RunErase,
         RunInsert, RunWrite, Taken, CanRun
<1>1. Good(p, TRUE) /\ Sound(p) BY <1>0, PoppedGood, PoppedLeads DEF SInv, Leads
<1>2. p.composition = composition /\ p.segments = segments BY DEF Popped, Now
<1>3. ASSUME NEW st, Proceed(d, st), Good(st, TRUE), Leads(p, st)
      PROVE  IInv' /\ Leads(Now, Now')
  BY <1>0, <1>3, ProceedStep
<1>4. Leads(p, p) BY <1>1, LeadsSame
<1> HIDE DEF p
<1>5. Good(WithoutList(p), TRUE) /\ Leads(p, WithoutList(p)) BY <1>1, GoodList, LeadsList
<1>6. CASE RunOpen(d)
  BY <1>1, GoodContextReady, LeadsContextReady, <1>6, <1>3, <1>4 DEF RunOpen, p
<1>7. CASE RunShow(d) BY <1>1, <1>3, <1>4, <1>7 DEF RunShow, p
<1>8. CASE RunApply(d) BY <1>8, ApplyStep
<1>9. CASE RunCommit(d) BY <1>3, <1>5, <1>9 DEF RunCommit, p
<1>10. CASE RunDiscard(d) BY <1>3, <1>5, <1>10 DEF RunDiscard, p
<1>11. CASE RunSeal(d)
  <2> DEFINE st == WithoutList(p)
             s  == [segments[edit.epoch] EXCEPT !.placed = TRUE]
             placed == [st EXCEPT !.segments[edit.epoch] = s]
             last == WriteIfFinished(placed, edit.epoch)
  <2>1. Good(st, TRUE) /\ Leads(p, st) BY <1>5
  <2>2. st.segments = segments BY <1>1, <1>2 DEF WithoutList, Good, IsState
  <2> HIDE DEF st
  <2>3. CASE edit.epoch \notin DOMAIN segments
    BY <1>3, <1>11, <2>1, <2>3 DEF RunSeal, st, p
  <2>4. CASE edit.epoch \in DOMAIN segments
    <3>1. /\ DOMAIN s = SegmentFields /\ s.buffer = segments[edit.epoch].buffer
          /\ s.stage = segments[edit.epoch].stage /\ s.awaited = segments[edit.epoch].awaited
      BY <2>1, <2>2, <2>4 DEF Good, IsState, SegmentFields
    <3>2. placed = [st EXCEPT !.segments[edit.epoch].placed = TRUE] BY <2>2
    <3> HIDE DEF s
    <3>3. Good(placed, TRUE) /\ Leads(st, placed)
      BY <2>1, <2>2, <2>4, <3>1, GoodSegment, LeadsStage DEF Leads
    <3> HIDE DEF placed
    <3>4. Leads(p, placed) BY <1>1, <2>1, <3>3, GrewThen
    <3>5. Proceed(d, last)
      BY <1>11, <2>4, <3>2 DEF RunSeal, st, p
    <3>6. Good(last, TRUE) /\ Leads(placed, last) BY <3>3, GoodWrite, LeadsWrite DEF Leads
    <3> HIDE DEF last
    <3>7. Leads(p, last) BY <1>1, <3>3, <3>4, <3>6, GrewThen
    <3> QED BY <1>3, <3>5, <3>6, <3>7
  <2> QED BY <2>3, <2>4
<1>12. CASE RunLost(d)
  <2> DEFINE b == AcceptLocalCandidates(composition.buffer)
             lost == [p EXCEPT !.composition.converted = b.revision, !.composition.buffer = b]
  <2>1. CASE Live(edit.epoch)
    <3>1. Proceed(d, lost) BY <1>12, <2>1 DEF RunLost, p
    <3>2. Good(lost, TRUE) BY <1>1, GoodFrame DEF Good, IsState
    <3>3. /\ lost.tracker = p.tracker /\ lost.nextEpoch = p.nextEpoch
          /\ lost.segments = p.segments /\ lost.queue = p.queue
          /\ lost.composition.epoch = p.composition.epoch
          /\ lost.composition.buffer = b /\ lost.composition.held = p.composition.held
      BY <1>1 DEF Good, IsState
    <3> HIDE DEF lost
    <3>4. p.composition.epoch # 0 BY <1>2, <2>1 DEF Live, Active
    <3>5. CompositionFit(p.composition, p.tracker.asked) BY <1>1 DEF Sound
    <3>6. BufferOK(p.composition.buffer)
          /\ Known(p.composition.buffer, p.composition.epoch, p.tracker.asked)
      BY <3>5 DEF CompositionFit
    <3>7. Edited(p.composition.buffer, b) BY <1>2, <3>6, AcceptLocalEdited
    <3> HIDE DEF b
    <3>8. /\ BufferOK(b) /\ Grown(p.composition.buffer, b)
          /\ Known(b, p.composition.epoch, p.tracker.asked)
      BY <3>6, <3>7, EditedGrown
    <3>9. \A h \in lost.composition.held :
            h.sequence \in Nat /\ Asked(h.sequence, p.composition.epoch, h.asked) \in p.tracker.asked
      BY <3>3, <3>5 DEF CompositionFit
    <3>10. Leads(p, lost) BY <1>1, <3>3, <3>4, <3>8, <3>9, LeadsGrown
    <3> QED BY <1>3, <3>1, <3>2, <3>10
  <2>2. CASE ~Live(edit.epoch)
    BY <1>12, <2>2, <1>1, <1>3, <1>4 DEF RunLost, p
  <2> QED BY <2>1, <2>2
<1>13. CASE RunErase(d)
  <2>1. CASE Proceed(d, p) BY <1>1, <1>3, <1>4, <2>1
  <2>2. ASSUME NEW e \in SegmentsOf(d),
               Proceed(d, WriteIfFinished([p EXCEPT !.segments[e] = EraseLast(@)], e))
        PROVE  IInv' /\ Leads(Now, Now')
    <3> DEFINE s == EraseLast(segments[e])
               t == [p EXCEPT !.segments[e] = s]
               last == WriteIfFinished(t, e)
    <3>1. e \in DOMAIN segments BY DEF SegmentsOf
    <3>2. DOMAIN segments[e] = SegmentFields BY <1>1, <1>2, <3>1 DEF Good, IsState
    <3>3. /\ DOMAIN s = SegmentFields /\ s.buffer = segments[e].buffer
          /\ s.stage = "converting" =>
               segments[e].stage = "converting" /\ s.awaited = segments[e].awaited
      BY <3>2 DEF EraseLast, SegmentFields
    <3>4. Proceed(d, last) BY <1>2, <2>2
    <3> HIDE DEF s
    <3>5. Good(t, TRUE) /\ Leads(p, t) BY <1>1, <1>2, <3>1, <3>3, GoodSegment, LeadsStage
    <3> HIDE DEF t
    <3>6. Good(last, TRUE) /\ Leads(t, last) BY <3>5, GoodWrite, LeadsWrite DEF Leads
    <3> HIDE DEF last
    <3>7. Leads(p, last) BY <1>1, <3>5, <3>6, GrewThen
    <3> QED BY <1>3, <3>4, <3>6, <3>7
  <2> QED BY <1>13, <2>1, <2>2 DEF RunErase, Erasable, p
<1>14. CASE RunInsert(d) BY <1>1, <1>3, <1>4, <1>14 DEF RunInsert, p
<1>15. CASE RunWrite(d)
  <2>1. CASE Proceed(d, p) BY <1>1, <1>3, <1>4, <2>1
  <2>2. ASSUME NEW e, Proceed(d, [Now EXCEPT !.segments = Restrict(@, DOMAIN segments \ {e})])
        PROVE  IInv' /\ Leads(Now, Now')
    <3> DEFINE other == [Now EXCEPT !.segments = Restrict(@, DOMAIN segments \ {e})]
               S == DOMAIN segments \ {e}
    <3>0. Good(Now, TRUE) /\ Sound(Now) BY NowSound
    <3>1. /\ DOMAIN other = DOMAIN Now /\ other.segments = Restrict(segments, S)
          /\ other.tracker = Now.tracker /\ other.nextEpoch = Now.nextEpoch
          /\ other.composition = Now.composition /\ Now.segments = segments
          /\ other.queue = Now.queue
      BY DEF Now
    <3> HIDE DEF other
    <3>2. IsState(other) BY <3>0, <3>1 DEF Good, IsState, Restrict
    <3>3. Good(other, TRUE) BY <3>0, <3>1, <3>2, GoodRestrict
    <3>4. DOMAIN other.segments = S /\ \A k \in S : other.segments[k] = segments[k]
      BY <3>1 DEF Restrict
    <3>5. QueuesFit(other.queue, Now.tracker.asked) BY <3>0, <3>1 DEF Sound
    <3>6. Leads(Now, other) BY <3>0, <3>1, <3>4, <3>5, LeadsFewer
    <3> QED BY <2>2, <3>3, <3>6, BecomeStep DEF other, Proceed
  <2> QED BY <1>15, <2>1, <2>2 DEF RunWrite, p
<1> QED
  BY <1>6, <1>7, <1>8, <1>9, <1>10, <1>11, <1>12, <1>13, <1>14, <1>15 DEF RunEdit

LEMMA HandledStep ==
  ASSUME NEW d, NEW st, Handled(d, st), Good(st, TRUE), Leads(Now, st)
  PROVE  IInv' /\ Leads(Now, Now')
BY BecomeStep DEF Handled

\* The state after an edit of the open composition in st.
LEMMA EditedStep ==
  ASSUME SInv, NEW d, NEW st, Good(st, TRUE), Leads(Now, st), st.composition.epoch # 0,
         NEW b, Edited(st.composition.buffer, b), Handled(d, Update(WithBuffer(st, b)))
  PROVE  IInv' /\ Leads(Now, Now')
<1> DEFINE last == Update(WithBuffer(st, b))
<1>1. Leads(st, last) /\ Good(last, TRUE) BY LeadsEdited DEF Leads
<1> HIDE DEF last
<1>2. Good(Now, TRUE) /\ Sound(Now) BY NowSound
<1>3. Leads(Now, last) BY <1>1, <1>2, GrewThen
<1> QED BY <1>1, <1>3, HandledStep DEF last

\* The states in which a key finds the composition.
LEMMA UnlistedStep ==
  ASSUME SInv, NEW d
  PROVE  LET n == WithoutList(Now)
             open == Open(n, d)
             without == DiscardReading(n)
             again == Open(without, d)
         IN  /\ Good(Now, TRUE) /\ Sound(Now) /\ BufferOK(composition.buffer)
             /\ Now.composition = composition
             /\ Good(n, TRUE) /\ Leads(Now, n) /\ n.composition.epoch = composition.epoch
             /\ n.composition.buffer = composition.buffer
             /\ Good(open, TRUE) /\ Leads(Now, open) /\ open.composition.epoch # 0
             /\ BufferOK(open.composition.buffer)
             /\ Good(without, TRUE) /\ Leads(Now, without)
             /\ Good(again, TRUE) /\ Leads(Now, again) /\ again.composition.epoch # 0
             /\ BufferOK(again.composition.buffer)
<1> DEFINE n == WithoutList(Now)
<1>1. /\ Good(Now, TRUE) /\ Sound(Now) /\ BufferOK(composition.buffer)
      /\ Now.composition = composition
  BY NowSound DEF Sound, CompositionFit
<1>2. /\ Good(n, TRUE) /\ Leads(Now, n) /\ n.composition.epoch = composition.epoch
      /\ n.composition.buffer = composition.buffer
  BY <1>1, GoodList, LeadsList
<1> HIDE DEF n
<1>3. Sound(n) BY <1>2 DEF Leads
<1> DEFINE open == Open(n, d)
           without == DiscardReading(n)
<1>4. /\ Good(open, TRUE) /\ Leads(n, open) /\ open.composition.epoch # 0
      /\ BufferOK(open.composition.buffer)
  BY <1>2, <1>3, GoodOpen, LeadsOpen
<1>5. Good(without, TRUE) /\ Leads(n, without)
  BY <1>2, <1>3, GoodDiscardReading, LeadsDiscardReading
<1> HIDE DEF open, without
<1>6. Leads(Now, open) /\ Leads(Now, without) BY <1>1, <1>2, <1>4, <1>5, GrewThen
<1>7. Sound(without) BY <1>5 DEF Leads
<1> DEFINE again == Open(without, d)
<1>8. /\ Good(again, TRUE) /\ Leads(without, again) /\ again.composition.epoch # 0
      /\ BufferOK(again.composition.buffer)
  BY <1>5, <1>7, GoodOpen, LeadsOpen
<1> HIDE DEF again
<1>9. Leads(Now, again) BY <1>1, <1>5, <1>6, <1>8, GrewThen
<1> QED BY <1>1, <1>2, <1>4, <1>5, <1>6, <1>8, <1>9 DEF n, open, without, again

LEMMA TypingStep ==
  ASSUME SInv, NEW d \in Docs, Typing(d)
  PROVE  IInv' /\ Leads(Now, Now')
<1> DEFINE n == WithoutList(Now)
           open == Open(n, d)
           without == DiscardReading(n)
           again == Open(without, d)
<1>0. /\ Good(Now, TRUE) /\ Sound(Now) /\ BufferOK(composition.buffer)
      /\ Now.composition = composition
      /\ Good(n, TRUE) /\ Leads(Now, n) /\ n.composition.epoch = composition.epoch
      /\ n.composition.buffer = composition.buffer
      /\ Good(open, TRUE) /\ Leads(Now, open) /\ open.composition.epoch # 0
      /\ BufferOK(open.composition.buffer)
      /\ Good(without, TRUE) /\ Leads(Now, without)
      /\ Good(again, TRUE) /\ Leads(Now, again) /\ again.composition.epoch # 0
      /\ BufferOK(again.composition.buffer)
  BY UnlistedStep
<1>00. Owns(d) => composition.epoch # 0 BY DEF Owns, Active
<1>1. ASSUME NEW key \in Keys, TypeReading(d, key) PROVE IInv' /\ Leads(Now, Now')
  <2>1. Handled(d, Update(WithBuffer(open, Add(open.composition.buffer, key))))
    BY <1>1 DEF TypeReading, Composed
  <2> HIDE DEF n, open
  <2>2. Edited(open.composition.buffer, Add(open.composition.buffer, key)) BY <1>0, AddEdited
  <2> QED BY <1>0, <2>1, <2>2, EditedStep
<1>2. CASE TypeText(d)
  <2>1. Handled(d, Update(WithBuffer(open, AddChosenCandidate(open.composition.buffer))))
    BY <1>2 DEF TypeText, Composed
  <2> HIDE DEF n, open
  <2>2. Edited(open.composition.buffer, AddChosenCandidate(open.composition.buffer))
    BY <1>0, AddChosenEdited
  <2> QED BY <1>0, <2>1, <2>2, EditedStep
<1>3. CASE ComposeEnglish(d)
  <2>1. Handled(d, Update(WithBuffer(again, AddChosenCandidate(again.composition.buffer))))
    BY <1>3 DEF ComposeEnglish, Composed
  <2> HIDE DEF n, without, again
  <2>2. Edited(again.composition.buffer, AddChosenCandidate(again.composition.buffer))
    BY <1>0, AddChosenEdited
  <2> QED BY <1>0, <2>1, <2>2, EditedStep
<1>4. CASE Shift(d)
  <2>1. Become(without) BY <1>4 DEF Shift
  <2> HIDE DEF n, without
  <2> QED BY <1>0, <2>1, BecomeStep
<1>5. CASE Backspace(d)
  <2>1. /\ Handled(d, Update(WithBuffer(n, RemoveLast(composition.buffer))))
        /\ OnEntry(composition.buffer) /\ composition.epoch # 0
    BY <1>00, <1>5 DEF Backspace
  <2> HIDE DEF n
  <2>2. Edited(composition.buffer, RemoveLast(composition.buffer))
    BY <1>0, <2>1, RemoveLastEdited
  <2> QED BY <1>0, <2>1, <2>2, EditedStep
<1>6. ASSUME NEW forward \in BOOLEAN, NEW toEdge \in BOOLEAN, MoveCaret(d, forward, toEdge)
      PROVE  IInv' /\ Leads(Now, Now')
  <2> DEFINE b == Move(composition.buffer, forward, toEdge)
             moved == WithBuffer(Now, b)
             last == ShowAgain(moved)
  <2>1. Handled(d, last) BY <1>6 DEF MoveCaret
  <2>2. composition.epoch # 0 /\ CanMove(composition.buffer, forward)
    BY <1>00, <1>6 DEF MoveCaret
  <2>3. Edited(composition.buffer, b) BY <1>0, <2>2, MoveEdited
  <2> HIDE DEF b
  <2>4. Good(moved, TRUE) /\ Leads(Now, moved)
    BY <1>0, <2>2, <2>3, GoodBuffer, LeadsBuffer
  <2> HIDE DEF moved
  <2>5. Leads(moved, last) /\ Good(last, TRUE) BY <2>4, LeadsShow DEF Leads
  <2> HIDE DEF last
  <2>6. Leads(Now, last) BY <1>0, <2>4, <2>5, GrewThen
  <2> QED BY <2>1, <2>5, <2>6, HandledStep
<1>7. CASE Enter(d)
  <2>1. CASE Handled(d, Commit(Now))
    BY <1>0, GoodCommit, LeadsCommit, <2>1, HandledStep
  <2>2. CASE Handled(d, Seal(Request(Now)))
    <3> DEFINE r == Request(Now)
    <3>1. Good(r, TRUE) /\ Leads(Now, r) BY <1>0, GoodRequest, LeadsRequest
    <3> HIDE DEF r
    <3>2. Good(Seal(r), TRUE) /\ Leads(r, Seal(r)) BY <3>1, GoodSeal, LeadsSeal DEF Leads
    <3>3. Leads(Now, Seal(r)) BY <1>0, <3>1, <3>2, GrewThen
    <3> QED BY <2>2, <3>2, <3>3, HandledStep DEF r
  <2> QED BY <1>7, <2>1, <2>2 DEF Enter
<1>8. CASE Escape(d)
  BY <1>0, GoodDiscard, LeadsDiscard, <1>8, HandledStep DEF Escape
<1>9. ASSUME NEW chars, NEW edit, edit.do # "apply",
             Handled(d, Run([Now EXCEPT !.owed[d] = chars], d, edit))
      PROVE  IInv' /\ Leads(Now, Now')
  <2> DEFINE st == [Now EXCEPT !.owed[d] = chars]
             last == Run(st, d, edit)
  <2>1. IsState(st) BY <1>0 DEF Good, IsState, Now
  <2>2. /\ st.composition = Now.composition /\ st.tracker = Now.tracker
        /\ st.nextEpoch = Now.nextEpoch /\ st.segments = Now.segments /\ st.queue = Now.queue
    BY DEF Now
  <2> HIDE DEF st
  <2>3. Good(st, TRUE) /\ Leads(Now, st) BY <1>0, <2>1, <2>2, GoodFrame, LeadsFrame
  <2>4. Good(last, TRUE) /\ Leads(st, last) BY <1>9, <2>3, GoodRun, LeadsRun DEF Leads
  <2>5. Leads(Now, last) BY <1>0, <2>3, <2>4, GrewThen
  <2> QED BY <1>9, <2>4, <2>5, HandledStep DEF st
<1>10. CASE BackspaceInOrder(d)
  BY <1>10, <1>9 DEF BackspaceInOrder, EraseEdit
<1>11. CASE InsertText(d)
  BY <1>11, <1>9 DEF InsertText, InsertEdit
<1> QED
  BY <1>1, <1>2, <1>3, <1>4, <1>5, <1>6, <1>7, <1>8, <1>10, <1>11 DEF Typing

LEMMA ChoosingStep ==
  ASSUME SInv, NEW d \in Docs, Choosing(d)
  PROVE  IInv' /\ Leads(Now, Now')
<1> DEFINE n == WithoutList(Now)
<1>0. /\ Good(Now, TRUE) /\ Sound(Now) /\ BufferOK(composition.buffer)
      /\ Now.composition = composition
      /\ Good(n, TRUE) /\ Leads(Now, n) /\ n.composition.epoch = composition.epoch
      /\ n.composition.buffer = composition.buffer
  BY UnlistedStep
<1>00. Owns(d) => composition.epoch # 0 BY DEF Owns, Active
<1>1. CASE OpenCandidates(d)
  <2> DEFINE id == CandidateTarget(composition.buffer).id
             st == [Now EXCEPT !.composition.list = TRUE, !.composition.lock = id]
  <2>1. IsState(st) BY <1>0 DEF Good, IsState, Now
  <2>2. /\ st.composition.epoch = Now.composition.epoch
        /\ st.composition.sent = Now.composition.sent
        /\ st.composition.buffer = Now.composition.buffer
        /\ st.composition.held = Now.composition.held
        /\ st.tracker = Now.tracker /\ st.nextEpoch = Now.nextEpoch
        /\ st.segments = Now.segments /\ st.queue = Now.queue
    BY <1>0 DEF Good, IsState
  <2>3. Handled(d, st) BY <1>1 DEF OpenCandidates
  <2> HIDE DEF st
  <2>4. Good(st, TRUE) /\ Leads(Now, st) BY <1>0, <2>1, <2>2, GoodFrame, LeadsFrame
  <2> QED BY <2>3, <2>4, HandledStep
<1>2. ASSUME NEW b, Edited(composition.buffer, b), Handled(d, Finalized(b)), composition.epoch # 0
      PROVE  IInv' /\ Leads(Now, Now')
  <2>1. BufferOK(b) BY <1>2 DEF Edited
  <2>2. Edited(b, StepForward(b)) BY <2>1, StepForwardEdited
  <2>3. Edited(composition.buffer, StepForward(b)) BY <1>0, <1>2, <2>2, EditedThen
  <2>4. Handled(d, Update(WithBuffer(n, StepForward(b)))) BY <1>2 DEF Finalized
  <2> HIDE DEF n
  <2> QED BY <1>0, <1>2, <2>3, <2>4, EditedStep
<1>3. CASE Choose(d)
  <2>1. PICK literal \in BOOLEAN :
          Handled(d, Finalized(SelectCandidate(composition.buffer, composition.lock, literal)))
    BY <1>3 DEF Choose
  <2>2. composition.epoch # 0 BY <1>00, <1>3 DEF Choose
  <2>3. Edited(composition.buffer, SelectCandidate(composition.buffer, composition.lock, literal))
    BY <1>0, SelectEdited
  <2> QED BY <1>2, <2>1, <2>2, <2>3
<1>4. CASE ChooseReading(d)
  <2>1. PICK withTone \in BOOLEAN :
          Handled(d, Finalized(SelectReading(composition.buffer, composition.lock, withTone)))
    BY <1>4 DEF ChooseReading
  <2>2. composition.epoch # 0 /\ CanSelectReading(composition.buffer, composition.lock)
    BY <1>00, <1>4 DEF ChooseReading
  <2>3. Edited(composition.buffer, SelectReading(composition.buffer, composition.lock, withTone))
    BY <1>0, <2>2, SelectReadingEdited
  <2> QED BY <1>2, <2>1, <2>2, <2>3
<1>5. CASE CloseCandidates(d)
  <2>1. Handled(d, n) BY <1>5 DEF CloseCandidates
  <2> HIDE DEF n
  <2> QED BY <1>0, <2>1, HandledStep
<1> QED BY <1>1, <1>3, <1>4, <1>5 DEF Choosing

LEMMA AfterKeyStep ==
  ASSUME SInv, AfterKey
  PROVE  IInv' /\ Leads(Now, Now')
<1> DEFINE c  == composition
           h  == CHOOSE h \in c.held : TRUE
           b  == IF c.held = {} THEN c.buffer ELSE MergeHeld(c.buffer, h)
           after == [c EXCEPT !.lock = 0, !.held = {}, !.buffer = b]
           st == [Now EXCEPT !.composition = after]
           last == ShowAgain(st)
<1>0. Good(Now, TRUE) /\ Sound(Now) /\ Now.composition = c BY NowSound
<1>1. Become(st) \/ Become(last) BY DEF AfterKey
<1>2. CompositionFit(c, Now.tracker.asked) BY <1>0 DEF Sound
<1>3. CASE c.held = {}
  <2>1. b = c.buffer BY <1>3
  <2> HIDE DEF b
  <2>2. DOMAIN after = DOMAIN c /\ after.epoch = c.epoch /\ after.sent = c.sent
        /\ after.buffer = c.buffer /\ after.held = c.held
    BY <1>0, <1>3, <2>1 DEF Good, IsState
  <2> HIDE DEF after
  <2>3. /\ DOMAIN st = DOMAIN Now /\ st.composition = after
        /\ st.tracker = Now.tracker /\ st.nextEpoch = Now.nextEpoch
        /\ st.segments = Now.segments /\ st.queue = Now.queue
    BY DEF Now
  <2> HIDE DEF st
  <2>4. IsState(st) BY <1>0, <2>2, <2>3 DEF Good, IsState
  <2>5. Good(st, TRUE) BY <1>0, <2>2, <2>3, <2>4, GoodFrame
  <2>6. Leads(Now, st) BY <1>0, <2>2, <2>3, LeadsFrame
  <2>7. Leads(st, last) /\ Good(last, TRUE) BY <2>5, <2>6, LeadsShow DEF Leads
  <2> HIDE DEF last
  <2>8. Leads(Now, last) BY <1>0, <2>5, <2>6, <2>7, GrewThen
  <2> QED BY <1>1, <2>5, <2>6, <2>7, <2>8, BecomeStep
<1>4. CASE c.held # {}
  <2>1. b = MergeHeld(c.buffer, h) BY <1>4
  <2>2. h \in c.held BY <1>4
  <2> HIDE DEF h, b
  <2>3. c.epoch # 0 /\ h.sequence \in Nat /\ Asked(h.sequence, c.epoch, h.asked) \in tracker.asked
        /\ BufferOK(c.buffer) /\ Known(c.buffer, c.epoch, tracker.asked)
    BY <1>2, <1>4, <2>2, NowSound DEF CompositionFit
  <2> DEFINE outcome == [predicted |-> 1, singles |-> IF h.single THEN {1} ELSE {}]
             request == <<h.asked>>
  <2>4. b = Merge(c.buffer, h.sequence, request, outcome, 0) BY <2>1 DEF MergeHeld
  <2>5. \A k \in 1..outcome.predicted : Asked(h.sequence, c.epoch, request[k]) \in tracker.asked
    <3>1. outcome.predicted = 1 /\ request[1] = h.asked OBVIOUS
    <3>2. \A k \in 1..1 : k = 1 OBVIOUS
    <3> HIDE DEF outcome, request
    <3> QED BY <2>3, <3>1, <3>2
  <2> HIDE DEF outcome, request
  <2>6. BufferOK(b) /\ Grown(c.buffer, b) /\ Known(b, c.epoch, tracker.asked)
    BY <2>3, <2>4, <2>5, MergeFacts
  <2>7. DOMAIN after = DOMAIN c /\ after.epoch = c.epoch /\ after.sent = c.sent
        /\ after.buffer = b /\ after.held = {}
    BY <1>0 DEF Good, IsState
  <2> HIDE DEF after
  <2>8. /\ DOMAIN st = DOMAIN Now /\ st.composition = after
        /\ st.tracker = Now.tracker /\ st.nextEpoch = Now.nextEpoch
        /\ st.segments = Now.segments /\ st.queue = Now.queue
    BY DEF Now
  <2> HIDE DEF st
  <2>9. IsState(st) BY <1>0, <2>7, <2>8 DEF Good, IsState
  <2>10. Good(st, TRUE) BY <1>0, <2>7, <2>8, <2>9, GoodFrame
  <2>11. Leads(Now, st)
    BY <1>0, <2>3, <2>6, <2>7, <2>8, NowSound, LeadsGrown
  <2>12. Leads(st, last) /\ Good(last, TRUE) BY <2>10, <2>11, LeadsShow DEF Leads
  <2> HIDE DEF last
  <2>13. Leads(Now, last) BY <1>0, <2>10, <2>11, <2>12, GrewThen
  <2> QED BY <1>1, <2>10, <2>11, <2>12, <2>13, BecomeStep
<1> QED BY <1>3, <1>4

LEMMA UnchangedStep ==
  ASSUME SInv, UNCHANGED controller
  PROVE  IInv' /\ Leads(Now, Now')
BY UnchangedLeads DEF SInv, IInv, Now, controller

LEMMA HostStep ==
  ASSUME SInv, NEW d \in Docs, Host(d)
  PROVE  IInv' /\ Leads(Now, Now')
<1>0. Good(Now, TRUE) /\ Sound(Now) BY NowSound
<1>1. CASE LeaveOtherDocument(d)
  <2> DEFINE n == WithoutList(Now)
  <2>1. Good(n, TRUE) /\ Leads(Now, n) BY <1>0, GoodList, LeadsList
  <2>2. Become(Seal(n)) BY <1>1 DEF LeaveOtherDocument
  <2> HIDE DEF n
  <2>3. Good(Seal(n), TRUE) /\ Leads(n, Seal(n)) BY <2>1, GoodSeal, LeadsSeal DEF Leads
  <2>4. Leads(Now, Seal(n)) BY <1>0, <2>1, <2>3, GrewThen
  <2> QED BY <2>2, <2>3, <2>4, BecomeStep
<1>2. CASE CloseDocument(d)
  <2> DEFINE left == IF Owns(d) THEN WithoutComposition(Now) ELSE Now
             S  == DOMAIN segments \ SegmentsOf(d)
             st == [left EXCEPT !.segments = Restrict(@, S), !.queue[d] = <<>>, !.owed[d] = <<>>]
  <2>1. Become(st) BY <1>2 DEF CloseDocument
  <2>2. Good(left, TRUE) /\ Leads(Now, left) BY <1>0, GoodNone, LeadsNone, LeadsSame
  <2>3. left.segments = segments /\ left.tracker = tracker /\ left.queue = queue
    BY DEF WithoutComposition, Now
  <2> HIDE DEF left
  <2>4. /\ DOMAIN st = DOMAIN left /\ st.composition = left.composition
        /\ st.tracker = left.tracker /\ st.nextEpoch = left.nextEpoch
        /\ st.segments = Restrict(segments, S)
        /\ st.queue = [queue EXCEPT ![d] = <<>>]
    BY <2>2, <2>3 DEF Good, IsState
  <2> HIDE DEF st
  <2>5. IsState(st) BY <2>2, <2>3, <2>4 DEF Good, IsState, Restrict
  <2>6. Good(st, TRUE) BY <2>2, <2>3, <2>4, <2>5, GoodRestrict
  <2>7. DOMAIN st.segments = S /\ \A k \in S : st.segments[k] = segments[k]
    BY <2>4 DEF Restrict
  <2>8. QueuesFit(st.queue, tracker.asked)
    BY NowSound, <2>4, NoneQueued DEF Sound, QueuesFit
  <2>9. Leads(left, st)
    BY <2>2, <2>3, <2>7, <2>4, <2>8, LeadsFewer DEF Leads
  <2>10. Leads(Now, st) BY <1>0, <2>2, <2>6, <2>9, GrewThen
  <2> QED BY <2>1, <2>6, <2>10, BecomeStep
<1>3. CASE \E epoch \in ranges : UserEdits(d, epoch) BY <1>3, UnchangedStep DEF UserEdits
<1> QED BY <1>1, <1>2, <1>3 DEF Host

LEMMA ServiceStep ==
  ASSUME SInv, ChangeSetting \/ Terminate \/ EndTermination \/ Deactivate \/ Stop
  PROVE  IInv' /\ Leads(Now, Now')
<1>0. Good(Now, TRUE) /\ Sound(Now) BY NowSound
<1>1. CASE ChangeSetting BY <1>1, UnchangedStep DEF ChangeSetting
<1>2. CASE Terminate
  <2> DEFINE n == WithoutList(Now)
             without == DiscardReading(n)
             last == Seal(without)
  <2>1. Good(n, TRUE) /\ Leads(Now, n) BY <1>0, GoodList, LeadsList
  <2>2. Become(last) \/ Become(n) BY <1>2 DEF Terminate
  <2> HIDE DEF n
  <2>3. Good(without, TRUE) /\ Leads(n, without)
    BY <2>1, GoodDiscardReading, LeadsDiscardReading DEF Leads
  <2> HIDE DEF without
  <2>4. Leads(Now, without) BY <1>0, <2>1, <2>3, GrewThen
  <2>5. Good(last, TRUE) /\ Leads(without, last) BY <2>3, GoodSeal, LeadsSeal DEF Leads
  <2> HIDE DEF last
  <2>6. Leads(Now, last) BY <1>0, <2>3, <2>4, <2>5, GrewThen
  <2> QED BY <2>1, <2>2, <2>5, <2>6, BecomeStep
<1>3. CASE EndTermination BY <1>3, UnchangedStep DEF EndTermination
<1>4. CASE Deactivate
  <2> DEFINE forgotten == [Now EXCEPT !.tracker = Forget(@)]
             st == [Now EXCEPT !.connected = FALSE, !.tracker = Forget(@)]
             n == WithoutList(st)
             sealed == Seal(n)
             last == FinishLocally(sealed)
  <2>00. Good(Now, FALSE) /\ Sound(Now) BY <1>0, GoodWeaker
  <2>0. Become(last) BY <1>4 DEF Deactivate
  <2>1. Good(forgotten, FALSE) /\ Leads(Now, forgotten) BY <1>0, GoodForget, LeadsForget
  <2>2. /\ DOMAIN st = DOMAIN forgotten /\ st.composition = forgotten.composition
        /\ st.tracker = forgotten.tracker /\ st.nextEpoch = forgotten.nextEpoch
        /\ st.segments = forgotten.segments /\ st.queue = forgotten.queue
    BY DEF Now
  <2> HIDE DEF forgotten, st
  <2>3. IsState(st) BY <2>1, <2>2 DEF Good, IsState
  <2>4. Good(st, FALSE) /\ Leads(forgotten, st)
    BY <2>1, <2>2, <2>3, GoodFrame, LeadsFrame DEF Leads
  <2>5. Leads(Now, st) BY <2>00, <2>1, <2>4, GrewThen
  <2>6. Good(n, FALSE) /\ Leads(st, n) BY <2>4, GoodList, LeadsList DEF Leads
  <2> HIDE DEF n
  <2>7. Leads(Now, n) BY <2>00, <2>4, <2>5, <2>6, GrewThen
  <2>8. Good(sealed, FALSE) /\ Leads(n, sealed) BY <2>6, GoodSeal, LeadsSeal DEF Leads
  <2> HIDE DEF sealed
  <2>9. Leads(Now, sealed) BY <2>00, <2>6, <2>7, <2>8, GrewThen
  <2>10. Good(last, TRUE) /\ Leads(sealed, last)
    BY <2>8, GoodFinishLocally, LeadsFinishLocally DEF Leads
  <2> HIDE DEF last
  <2>11. Good(last, FALSE) BY <2>10, GoodWeaker
  <2>12. Leads(Now, last) BY <2>00, <2>8, <2>9, <2>10, <2>11, GrewThen
  <2> QED BY <2>0, <2>10, <2>12, BecomeStep
<1>5. CASE Stop
  <2> DEFINE n  == WithoutComposition(Now)
             none == [d \in Docs |-> <<>>]
             st == [n EXCEPT !.queue = none]
  <2>0. Become(st) BY <1>5 DEF Stop
  <2>1. Good(n, TRUE) /\ Leads(Now, n) BY <1>0, GoodNone, LeadsNone
  <2> HIDE DEF n
  <2>2. QueuesFit(none, n.tracker.asked) BY NoneQueued DEF QueuesFit
  <2> HIDE DEF none
  <2>3. /\ DOMAIN st = DOMAIN n /\ st.composition = n.composition
        /\ st.tracker = n.tracker /\ st.nextEpoch = n.nextEpoch
        /\ st.segments = n.segments /\ st.queue = none
    BY <2>1 DEF Good, IsState
  <2> HIDE DEF st
  <2>4. IsState(st) BY <2>1, <2>3 DEF Good, IsState
  <2>5. Good(st, TRUE) BY <2>1, <2>3, <2>4, GoodFrame
  <2>6. Leads(n, st) BY <2>1, <2>2, <2>3, LeadsFewer DEF Leads
  <2>7. Leads(Now, st) BY <1>0, <2>1, <2>5, <2>6, GrewThen
  <2> QED BY <2>0, <2>5, <2>7, BecomeStep
<1> QED BY <1>1, <1>2, <1>3, <1>4, <1>5

LEMMA BackendStep ==
  ASSUME SInv, NEW sequence \in DOMAIN tracker.pending, Backend(sequence)
  PROVE  IInv' /\ Leads(Now, Now')
<1> DEFINE taken == [Now EXCEPT !.tracker = Take(@, sequence)]
           request == tracker.pending[sequence]
<1>0. Good(Now, TRUE) /\ Sound(Now) /\ Now.tracker = tracker /\ Now.segments = segments
      /\ Now.composition = composition /\ Good(Now, FALSE)
  BY NowSound, GoodWeaker
<1>1. Good(taken, FALSE) BY <1>0, GoodTake
<1>10. Leads(Now, taken) /\ taken.tracker.asked = tracker.asked BY <1>0, LeadsTake
<1>11. Requested(request, sequence, tracker.asked) BY <1>0 DEF Sound, PendingFit
<1>2. CASE Answer(sequence)
  <2>1. PICK outcome \in Outcomes(request.snapshot) :
          Become(IF Live(request.epoch)
                 THEN Run(taken, request.doc, ApplyEdit(request, sequence, outcome))
                 ELSE MergeSealed(taken, sequence, request, outcome))
    BY <1>2 DEF Answer
  <2>2. outcome.predicted \in 0..Len(request.snapshot) BY DEF Outcomes
  <2>3. CASE Live(request.epoch)
    <3> DEFINE edit == ApplyEdit(request, sequence, outcome)
               last == Run(taken, request.doc, edit)
    <3>1. \A e \in DOMAIN segments :
            segments[e].stage = "converting" => segments[e].awaited # sequence
      BY <1>0, <2>3 DEF Live, Good, Counted, Awaiting, NewestOf
    <3>2. Good(taken, TRUE) BY <1>0, <3>1, GoodTake
    <3>3. Applies(edit, tracker.asked)
      <4>1. /\ edit.epoch = edit.request.epoch /\ edit.request = request
            /\ edit.sequence = sequence /\ edit.outcome = outcome
        BY DEF ApplyEdit
      <4> HIDE DEF edit
      <4> QED BY <1>11, <2>2, <4>1 DEF Applies
    <3>4. Become(last) BY <2>1, <2>3
    <3> HIDE DEF taken, edit
    <3>5. Good(last, TRUE) /\ Leads(taken, last)
      BY <1>10, <3>2, <3>3, GoodRun, LeadsRun DEF Leads
    <3> HIDE DEF last
    <3>6. Leads(Now, last) BY <1>0, <1>10, <3>2, <3>5, GrewThen
    <3> QED BY <3>4, <3>5, <3>6, BecomeStep
  <2>4. CASE ~Live(request.epoch)
    <3> DEFINE last == MergeSealed(taken, sequence, request, outcome)
    <3>1. Good(last, TRUE) BY <1>0, GoodAnswered
    <3>2. Become(last) BY <2>1, <2>4
    <3> HIDE DEF taken, request
    <3>3. Leads(taken, last) BY <1>1, <1>10, <1>11, <2>2, LeadsMergeSealed DEF Leads
    <3> HIDE DEF last
    <3>4. Good(last, FALSE) BY <3>1, GoodWeaker
    <3>5. Leads(Now, last) BY <1>0, <1>1, <1>10, <3>3, <3>4, GrewThen
    <3> QED BY <3>1, <3>2, <3>5, BecomeStep
  <2> QED BY <2>3, <2>4
<1>3. CASE Supersede(sequence)
  <2>1. SentLater(tracker, sequence, request.epoch)
    BY <1>3 DEF Supersede
  <2>2. \A e \in DOMAIN segments :
          segments[e].stage = "converting" => segments[e].awaited # sequence
    BY <1>0, <2>1 DEF Good, Counted, Numbered, Awaiting, NewestOf
  <2>3. Good(taken, TRUE) BY <1>0, <2>2, GoodTake
  <2> QED BY <1>3, <1>10, <2>3, BecomeStep DEF Supersede
<1>4. CASE Lose(sequence)
  <2> DEFINE last == BackendLost(taken)
  <2>1. Become(last) BY <1>4 DEF Lose
  <2> HIDE DEF taken
  <2>2. Good(last, TRUE) /\ Leads(taken, last)
    BY <1>1, <1>10, GoodBackendLost, LeadsBackendLost DEF Leads
  <2> HIDE DEF last
  <2>3. Good(last, FALSE) BY <2>2, GoodWeaker
  <2>4. Leads(Now, last) BY <1>0, <1>1, <1>10, <2>2, <2>3, GrewThen
  <2> QED BY <2>1, <2>2, <2>4, BecomeStep
<1> QED BY <1>2, <1>3, <1>4 DEF Backend

-----------------------------------------------------------------------------
LEMMA NextStep == SInv /\ [Next]_vars => SInv' /\ Leads(Now, Now')
<1> SUFFICES ASSUME SInv, [Next]_vars PROVE IInv' /\ Leads(Now, Now')
  BY DEF SInv, Leads
<1>1. CASE UNCHANGED vars BY <1>1, UnchangedStep DEF vars
<1>2. CASE Next
  BY <1>2, RunEditStep, TypingStep, ChoosingStep, HostStep, AfterKeyStep, ServiceStep, BackendStep
     DEF Next
<1> QED BY <1>1, <1>2

LEMMA InvImplies == IInv => AwaitedStillPending
BY DEF IInv, Good, Now, Awaiting, NewestOf, AwaitedStillPending, Awaits

\* Whatever the user types, and however late documents grant their edits and
\* the backend answers, a segment that waits for a conversion (SealedSegment in
\* the stage Converting) waits for a request that is still unanswered, was sent
\* for its own composition, and is the newest one sent for it.
THEOREM AwaitedAlwaysPending == Spec => []AwaitedStillPending
<1>1. Init => SInv BY InitInv, InitSound DEF SInv
<1>2. SInv /\ [Next]_vars => SInv' BY NextStep
<1>3. SInv => AwaitedStillPending BY InvImplies DEF SInv
<1> QED BY <1>1, <1>2, <1>3, PTL DEF Spec

LEMMA SoundMatches == SInv => ConversionMatchesReading
<1> SUFFICES ASSUME SInv, NEW p \in Entries(composition, segments), IsModel(p[2])
             PROVE  Asked(p[2].by, p[1], p[2]) \in tracker.asked
  BY DEF ConversionMatchesReading
<1>1. CompositionFit(composition, tracker.asked) /\ SegmentsFit(segments, tracker.asked)
  BY NowSound DEF Sound
<1>2. CASE p \in {<<composition.epoch, composition.buffer.entries[i]>> :
                    i \in DOMAIN composition.buffer.entries}
  BY <1>1, <1>2 DEF CompositionFit, Known
<1>3. CASE \E e \in DOMAIN segments :
             p \in {<<e, segments[e].buffer.entries[i]>> : i \in DOMAIN segments[e].buffer.entries}
  BY <1>1, <1>3 DEF SegmentsFit, Known
<1> QED BY <1>2, <1>3 DEF Entries

\* A conversion is only ever shown for the reading it was computed for: StillSame
\* (merge_converted) compares identity and version, every edit of an entry gives
\* it a new version, and a result is merged into the composition or the segment
\* of the epoch that asked for it, or held back for it while its list is open.
THEOREM AlwaysMatches == Spec => []ConversionMatchesReading
<1>1. Init => SInv BY InitInv, InitSound DEF SInv
<1>2. SInv /\ [Next]_vars => SInv' BY NextStep
<1>3. SInv => ConversionMatchesReading BY SoundMatches
<1> QED BY <1>1, <1>2, <1>3, PTL DEF Spec

-----------------------------------------------------------------------------
(***************************************************************************)
(* Newer conversions win                                                   *)
(***************************************************************************)
\* An entry of a composition, open or sealed.
LEMMA EntryHas ==
  ASSUME NEW st, Sound(st), NEW p \in Entries(st.composition, st.segments)
  PROVE  \E b : BufferOf(st, p[1], b) /\ \E i \in DOMAIN b.entries : b.entries[i] = p[2]
<1>1. CASE p \in {<<st.composition.epoch, st.composition.buffer.entries[i]>> :
                    i \in DOMAIN st.composition.buffer.entries}
  <2> DEFINE c == st.composition
  <2>1. PICK i \in DOMAIN c.buffer.entries : p = <<c.epoch, c.buffer.entries[i]>> BY <1>1
  <2>2. c.epoch # 0
    BY <2>1 DEF Sound, CompositionFit
  <2>3. BufferOf(st, p[1], c.buffer) BY <2>1, <2>2 DEF BufferOf
  <2> QED BY <2>1, <2>3
<1>2. CASE \E e \in DOMAIN st.segments :
             p \in {<<e, st.segments[e].buffer.entries[i]>> :
                      i \in DOMAIN st.segments[e].buffer.entries}
  <2>1. PICK e \in DOMAIN st.segments : \E i \in DOMAIN st.segments[e].buffer.entries :
             p = <<e, st.segments[e].buffer.entries[i]>>
    BY <1>2
  <2>2. BufferOf(st, p[1], st.segments[e].buffer) BY <2>1 DEF BufferOf
  <2> QED BY <2>1, <2>2
<1> QED BY <1>1, <1>2 DEF Entries

\* There is one buffer of each composition.
LEMMA OneBuffer ==
  ASSUME NEW st, NEW waits \in BOOLEAN, Good(st, waits), NEW e, NEW a, NEW b,
         BufferOf(st, e, a), BufferOf(st, e, b)
  PROVE  a = b
BY DEF Good, Counted, BufferOf

\* What grows out of an entry of a buffer with the same identity.
LEMMA GrownNewer ==
  ASSUME NEW a, BufferOK(a), NEW b, BufferOK(b), Grown(a, b),
         NEW i \in DOMAIN a.entries, NEW j \in DOMAIN b.entries,
         a.entries[i].id = b.entries[j].id
  PROVE  Newer(a.entries[i], b.entries[j])
<1>1. /\ a.nextId \in Nat /\ a.entries[i].id \in Nat /\ a.entries[i].id < a.nextId
  BY EntryParts DEF BufferOK, Buffer, EntryOK
<1>2. ~(b.entries[j].id >= a.nextId) BY <1>1
<1>3. PICK k \in DOMAIN a.entries : Newer(a.entries[k], b.entries[j]) BY <1>2 DEF Grown
<1>4. k = i BY <1>3 DEF Newer, BufferOK, Distinct
<1> QED BY <1>3, <1>4

NewestWins ==
  \A p \in Entries(composition, segments), q \in Entries(composition', segments') :
    (p[1] = q[1] /\ p[2].id = q[2].id /\ p[2].version = q[2].version) => p[2].by <= q[2].by

LEMMA GrewNewest == SInv /\ [Next]_vars => NewestWins
<1> SUFFICES ASSUME SInv, [Next]_vars,
                    NEW p \in Entries(composition, segments),
                    NEW q \in Entries(composition', segments'),
                    p[1] = q[1], p[2].id = q[2].id, p[2].version = q[2].version
             PROVE  p[2].by <= q[2].by
  BY DEF NewestWins
<1>1. Leads(Now, Now') /\ Sound(Now') BY NextStep DEF Leads
<1>2. Good(Now, TRUE) /\ Sound(Now) BY NowSound
<1>3. PICK a : BufferOf(Now, p[1], a) /\ \E i \in DOMAIN a.entries : a.entries[i] = p[2]
  BY <1>2, EntryHas DEF Now
<1>4. PICK b : BufferOf(Now', q[1], b) /\ \E i \in DOMAIN b.entries : b.entries[i] = q[2]
  BY <1>1, EntryHas DEF Now
<1>5. BufferOK(a) /\ BufferOK(b) BY <1>1, <1>2, <1>3, <1>4, HasBuffer
<1>6. ~(q[1] >= Now.nextEpoch)
  BY <1>2, <1>3 DEF BufferOf, Good, Counted
<1>7. PICK o : BufferOf(Now, q[1], o) /\ Grown(o, b) BY <1>1, <1>4, <1>6 DEF Leads, Grew
<1>8. o = a BY <1>2, <1>3, <1>7, OneBuffer
<1>9. PICK i \in DOMAIN a.entries : a.entries[i] = p[2] BY <1>3
<1>10. PICK j \in DOMAIN b.entries : b.entries[j] = q[2] BY <1>4
<1>11. Newer(a.entries[i], b.entries[j]) BY <1>5, <1>7, <1>8, <1>9, <1>10, GrownNewer
<1>12. q[2].version \in Nat /\ q[2].by \in Nat /\ p[2].by \in Nat
  BY <1>5, <1>9, <1>10, EntryParts DEF BufferOK, EntryOK
<1> QED BY <1>9, <1>10, <1>11, <1>12 DEF Newer

-----------------------------------------------------------------------------
\* The calls' bound shrinks by every call of the user.
LEMMA CallsUse ==
  ASSUME calls \in Use, NEW operation, Call(operation)
  PROVE  calls' \in Use /\ calls' # calls
BY DEF Call, Use

LEMMA CallSteps ==
  ASSUME NEW d, Typing(d) \/ Choosing(d) \/ Host(d) \/ ChangeSetting \/ Terminate \/ Deactivate
  PROVE  \E operation : Call(operation)
<1>1. CASE Typing(d)
  BY <1>1 DEF Typing, TypeReading, TypeText, ComposeEnglish, Shift, Backspace, MoveCaret, Enter,
              Escape, BackspaceInOrder, InsertText, Key
<1>2. CASE Choosing(d)
  BY <1>2 DEF Choosing, OpenCandidates, Choose, ChooseReading, CloseCandidates, Key
<1>3. CASE Host(d) BY <1>3 DEF Host, LeaveOtherDocument, CloseDocument, UserEdits
<1>4. CASE ChangeSetting \/ Terminate \/ Deactivate
  BY <1>4 DEF ChangeSetting, Terminate, Deactivate
<1> QED BY <1>1, <1>2, <1>3, <1>4

LEMMA CallsInv == calls \in Use /\ [Next]_vars => calls' \in Use
<1> SUFFICES ASSUME calls \in Use, [Next]_vars PROVE calls' \in Use OBVIOUS
<1>1. CASE UNCHANGED vars BY <1>1 DEF vars, others
<1>2. ASSUME NEW d, Typing(d) \/ Choosing(d) \/ Host(d) \/ ChangeSetting \/ Terminate \/ Deactivate
      PROVE  calls' \in Use
  BY <1>2, CallSteps, CallsUse
<1>3. ASSUME NEW d, RunEdit(d) PROVE calls' = calls
  BY <1>3 DEF RunEdit, RunOpen, RunShow, RunApply, RunCommit, RunDiscard, RunSeal, RunLost,
              RunErase, RunInsert, RunWrite, others
<1>4. CASE AfterKey \/ EndTermination \/ Stop BY <1>4 DEF AfterKey, EndTermination, Stop, others
<1>5. ASSUME NEW sequence, Backend(sequence) PROVE calls' = calls
  BY <1>5 DEF Backend, Answer, Supersede, Lose, others
<1> QED BY <1>1, <1>2, <1>3, <1>4, <1>5 DEF Next

-----------------------------------------------------------------------------
(***************************************************************************)
(* The locked entry keeps its text                                         *)
(***************************************************************************)
\* The methods that leave the open composition's buffer.
LEMMA BufferStays ==
  ASSUME NEW st, NEW waits \in BOOLEAN, Good(st, waits)
  PROVE  /\ \A d, edit : Run(st, d, edit).composition = st.composition
         /\ \A e : WriteIfFinished(st, e).composition = st.composition
         /\ \A e : ConvertSegment(st, e).composition = st.composition
         /\ Request(st).composition.buffer = st.composition.buffer
         /\ WithoutList(st).composition.buffer = st.composition.buffer
BY DEF Good, IsState, Run, WriteIfFinished, ConvertSegment, Request, WithoutList

LEMMA ContextStays ==
  ASSUME NEW st, NEW waits \in BOOLEAN, Good(st, waits), NEW epoch
  PROVE  ContextReady(st, epoch).composition.buffer = st.composition.buffer
<1>1. CASE st.composition.epoch = epoch
  <2> DEFINE t == [st EXCEPT !.composition.preceding = TRUE]
  <2>1. Good(t, waits) BY GoodFrame DEF Good, IsState
  <2>2. t.composition.buffer = st.composition.buffer BY DEF Good, IsState
  <2>3. ContextReady(st, epoch) = Request(t) BY <1>1 DEF ContextReady
  <2> HIDE DEF t
  <2> QED BY <2>1, <2>2, <2>3, BufferStays
<1>2. CASE st.composition.epoch # epoch /\ epoch \notin DOMAIN st.segments
  BY <1>2 DEF ContextReady
<1>3. CASE st.composition.epoch # epoch /\ epoch \in DOMAIN st.segments
  <2> DEFINE s == [st.segments[epoch] EXCEPT !.preceding = TRUE]
             t == [st EXCEPT !.segments[epoch] = s]
             n == ConvertSegment(t, epoch)
  <2>1. /\ DOMAIN s = SegmentFields
        /\ s.stage = st.segments[epoch].stage /\ s.awaited = st.segments[epoch].awaited
    BY <1>3 DEF Good, IsState, SegmentFields
  <2> HIDE DEF s
  <2>2. Good(t, waits) BY <1>3, <2>1, GoodSegment
  <2>3. epoch \in DOMAIN t.segments /\ t.composition = st.composition
    BY <1>3 DEF Good, IsState
  <2>4. t = [st EXCEPT !.segments[epoch].preceding = TRUE] BY DEF s
  <2> HIDE DEF t
  <2>5. Good(n, waits) /\ n.composition = t.composition
    BY <2>2, <2>3, GoodConvert, BufferStays
  <2>6. ContextReady(st, epoch) = t \/ ContextReady(st, epoch) = WriteIfFinished(n, epoch)
    BY <1>3, <2>4 DEF ContextReady
  <2> HIDE DEF n
  <2>7. WriteIfFinished(n, epoch).composition = n.composition BY <2>5, BufferStays
  <2> QED BY <2>3, <2>5, <2>6, <2>7
<1> QED BY <1>1, <1>2, <1>3

LEMMA SealedStays ==
  ASSUME NEW st, NEW waits \in BOOLEAN, Good(st, waits), NEW sequence, NEW request, NEW outcome
  PROVE  MergeSealed(st, sequence, request, outcome).composition = st.composition
<1>1. CASE request.epoch \notin DOMAIN st.segments BY <1>1 DEF MergeSealed
<1>2. CASE request.epoch \in DOMAIN st.segments
  <2> DEFINE m == Merged(st.segments[request.epoch], sequence, request, outcome)
             t == [st EXCEPT !.segments[request.epoch] = m]
  <2>1. Good(t, waits) BY <1>2, MergedFacts, GoodSegment DEF Good, IsState
  <2>2. t.composition = st.composition BY DEF Good, IsState
  <2>3. MergeSealed(st, sequence, request, outcome) = WriteIfFinished(t, request.epoch)
    BY <1>2 DEF MergeSealed
  <2> HIDE DEF t
  <2> QED BY <2>1, <2>2, <2>3, BufferStays
<1> QED BY <1>1, <1>2

LEMMA LostStays ==
  ASSUME NEW st, Good(st, FALSE)
  PROVE  BackendLost(st).composition.buffer = st.composition.buffer
<1> DEFINE forgot == [st EXCEPT !.tracker = Forget(@)]
           lost == FinishLocally(forgot)
           t    == [lost EXCEPT !.composition.sent = NotSent]
           c    == st.composition
           edit == LostEdit(c.epoch)
<1>1. Good(forgot, FALSE) /\ forgot.composition = c BY GoodForget DEF Good, IsState
<1>2. BackendLost(st) = lost \/ BackendLost(st) = Run(t, c.doc, edit) BY DEF BackendLost
<1> HIDE DEF forgot
<1>3. Good(lost, FALSE) BY <1>1, GoodFinishLocally, GoodWeaker
<1>4. lost.composition = c BY <1>1 DEF FinishLocally, Good, IsState
<1> HIDE DEF lost
<1>5. t.composition.buffer = c.buffer BY <1>3, <1>4 DEF Good, IsState
<1>6. Run(t, c.doc, edit).composition = t.composition BY <1>3 DEF Good, IsState, Run
<1> QED BY <1>2, <1>4, <1>5, <1>6

-----------------------------------------------------------------------------
\* The text of the locked entry in a buffer and in what became of it.
TextKept(b, after, lock) ==
  \A i \in DOMAIN b.entries, j \in DOMAIN after.entries :
    b.entries[i].id = lock /\ after.entries[j].id = lock
      => b.entries[i].text = after.entries[j].text

LockKept ==
  composition.lock # 0 /\ composition'.lock = composition.lock /\ calls' = calls
    => TextKept(composition.buffer, composition'.buffer, composition.lock)

LEMMA SameKept ==
  ASSUME SInv, composition'.buffer = composition.buffer
  PROVE  LockKept
BY NowSound DEF Sound, CompositionFit, LockKept, TextKept, BufferOK, Distinct

LEMMA BecomeBuffer ==
  ASSUME NEW st, Become(st)
  PROVE  composition' = st.composition
BY DEF Become

LEMMA RunKept ==
  ASSUME SInv, NEW d \in Docs, RunEdit(d)
  PROVE  LockKept
<1> DEFINE p == Popped(d)
           edit == Head(queue[d])
           n == WithoutList(p)
<1>1. Good(p, TRUE) /\ Good(Now, TRUE) BY PoppedGood, NowSound DEF SInv
<1>2. p.composition = composition /\ p.segments = segments BY DEF Popped, Now
<1>3. ASSUME NEW st, Proceed(d, st), st.composition.buffer = composition.buffer
      PROVE  LockKept
  BY <1>3, SameKept, BecomeBuffer DEF Proceed
<1>4. BufferOK(composition.buffer) BY NowSound DEF Sound, CompositionFit
<1> HIDE DEF p
<1>5. Good(n, TRUE) /\ n.composition.buffer = composition.buffer
  BY <1>1, <1>2, GoodList, BufferStays
<1>6. n.segments = segments BY <1>1, <1>2 DEF WithoutList, Good, IsState
<1>7. CASE RunOpen(d)
  BY <1>1, <1>2, ContextStays, <1>7, <1>3 DEF RunOpen, p
<1>8. CASE RunShow(d) BY <1>2, <1>3, <1>8 DEF RunShow, p
<1>9. CASE RunApply(d)
  <2> DEFINE b    == Merge(composition.buffer, edit.sequence, edit.request.snapshot,
                           edit.outcome, composition.lock)
             held == HeldBack(composition.buffer, edit.sequence, edit.request.snapshot,
                              edit.outcome, composition.lock)
             after == [composition EXCEPT
                         !.buffer = b,
                         !.held = IF held = {} \/ (\E h \in @ : h.sequence > edit.sequence)
                                  THEN @ ELSE held,
                         !.converted = IF edit.request.revision = b.revision THEN b.revision ELSE @]
             live == [p EXCEPT !.composition = after]
             sealed == MergeSealed(p, edit.sequence, edit.request, edit.outcome)
  <2>1. CASE Proceed(d, sealed)
    <3>1. sealed.composition = composition
      <4>1. PICK st : st = p OBVIOUS
      <4>2. PICK ed : ed = edit OBVIOUS
      <4>3. sealed = MergeSealed(st, ed.sequence, ed.request, ed.outcome) BY <4>1, <4>2
      <4> HIDE DEF edit, sealed
      <4>4. Good(st, TRUE) BY <1>1, <4>1
      <4>5. PICK sequence, request, outcome :
              sequence = ed.sequence /\ request = ed.request /\ outcome = ed.outcome
        OBVIOUS
      <4>6. MergeSealed(st, sequence, request, outcome).composition = st.composition
        BY <4>4, SealedStays
      <4> QED BY <4>1, <4>3, <4>5, <4>6, <1>2
    <3> HIDE DEF sealed
    <3> QED BY <1>3, <2>1, <3>1
  <2>2. CASE Proceed(d, live)
    <3>1. composition' = live.composition
      <4> HIDE DEF live
      <4>1. Become(live) BY <2>2 DEF Proceed
      <4> QED BY <4>1, BecomeBuffer
    <3>2. live.composition = after BY <1>1 DEF Good, IsState
    <3>3. after.buffer = b BY <1>1, <1>2 DEF Good, IsState
    <3>4. queue[d] # <<>> /\ edit.do = "apply" BY <1>9 DEF RunApply, Taken, CanRun
    <3>5. edit.sequence \in Nat BY <3>4, PoppedLeads DEF Applies, Requested
    <3>6. /\ DOMAIN b.entries = DOMAIN composition.buffer.entries
          /\ \A i \in DOMAIN composition.buffer.entries :
               b.entries[i].id = composition.buffer.entries[i].id
          /\ \A i \in DOMAIN composition.buffer.entries :
               composition.buffer.entries[i].id = composition.lock
                 => b.entries[i] = composition.buffer.entries[i]
      BY <1>4, <3>5, MergeFacts
    <3> HIDE DEF live, after, b
    <3>7. TextKept(composition.buffer, b, composition.lock)
      BY <1>4, <3>6 DEF TextKept, BufferOK, Distinct
    <3> QED BY <3>1, <3>2, <3>3, <3>7 DEF LockKept
  <2> QED BY <1>9, <2>1, <2>2 DEF RunApply, p
<1>10. CASE RunCommit(d) BY <1>3, <1>5, <1>10 DEF RunCommit, p
<1>11. CASE RunDiscard(d) BY <1>3, <1>5, <1>11 DEF RunDiscard, p
<1>12. CASE RunSeal(d)
  <2> HIDE DEF n
  <2>1. CASE edit.epoch \notin DOMAIN segments
    BY <1>3, <1>5, <1>12, <2>1 DEF RunSeal, n, p
  <2>2. CASE edit.epoch \in DOMAIN segments
    <3> DEFINE s  == [segments[edit.epoch] EXCEPT !.placed = TRUE]
               placed == [n EXCEPT !.segments[edit.epoch] = s]
    <3>1. /\ DOMAIN s = SegmentFields
          /\ s.stage = segments[edit.epoch].stage /\ s.awaited = segments[edit.epoch].awaited
      BY <1>5, <1>6, <2>2 DEF Good, IsState, SegmentFields
    <3>2. placed = [n EXCEPT !.segments[edit.epoch].placed = TRUE] BY <1>6
    <3> HIDE DEF s
    <3>3. Good(placed, TRUE) BY <1>5, <1>6, <2>2, <3>1, GoodSegment
    <3>6. placed.composition = n.composition BY <1>5 DEF Good, IsState
    <3> HIDE DEF placed
    <3>4. Proceed(d, WriteIfFinished(placed, edit.epoch))
      BY <1>12, <2>2, <3>2 DEF RunSeal, n, p
    <3>5. WriteIfFinished(placed, edit.epoch).composition = placed.composition
      BY <3>3, BufferStays
    <3> QED BY <1>3, <1>5, <3>6, <3>4, <3>5
  <2> QED BY <2>1, <2>2
<1>13. CASE RunLost(d)
  <2> DEFINE b == AcceptLocalCandidates(composition.buffer)
             lost == [p EXCEPT !.composition.converted = b.revision, !.composition.buffer = b]
  <2>1. CASE Proceed(d, p) BY <1>2, <1>3, <2>1
  <2>2. CASE Proceed(d, lost)
    <3>1. composition' = lost.composition BY <2>2, BecomeBuffer DEF Proceed
    <3>2. lost.composition.buffer = b BY <1>1, <1>2 DEF Good, IsState
    <3>3. /\ DOMAIN b.entries = DOMAIN composition.buffer.entries
          /\ \A i \in DOMAIN b.entries :
               b.entries[i] = [composition.buffer.entries[i] EXCEPT !.pending = FALSE]
      BY <1>4 DEF AcceptLocalCandidates, BufferOK, Buffer
    <3>4. \A i \in DOMAIN b.entries :
            /\ b.entries[i].id = composition.buffer.entries[i].id
            /\ b.entries[i].text = composition.buffer.entries[i].text
      <4> SUFFICES ASSUME NEW i \in DOMAIN b.entries
                   PROVE  /\ b.entries[i].id = composition.buffer.entries[i].id
                          /\ b.entries[i].text = composition.buffer.entries[i].text
        OBVIOUS
      <4>1. DOMAIN composition.buffer.entries[i] =
              {"id", "version", "kind", "symbols", "pending", "by", "text"}
        BY <1>4, <3>3, EntryParts DEF BufferOK, EntryOK
      <4> QED BY <3>3, <4>1
    <3> HIDE DEF b, lost
    <3>5. TextKept(composition.buffer, b, composition.lock)
      BY <1>4, <3>3, <3>4 DEF TextKept, BufferOK, Distinct
    <3> QED BY <3>1, <3>2, <3>5 DEF LockKept
  <2> QED BY <1>13, <2>1, <2>2 DEF RunLost, p
<1>14. CASE RunErase(d)
  <2>1. CASE Proceed(d, p) BY <1>2, <1>3, <2>1
  <2>2. ASSUME NEW e \in SegmentsOf(d),
               Proceed(d, WriteIfFinished([p EXCEPT !.segments[e] = EraseLast(@)], e))
        PROVE  LockKept
    <3> DEFINE t == [p EXCEPT !.segments[e] = EraseLast(@)]
    <3>1. t.composition = composition /\ WriteIfFinished(t, e).composition = t.composition
      <4>1. /\ t.composition = composition
            /\ DOMAIN t = {"composition", "nextEpoch", "tracker", "segments", "connected",
                           "queue", "owed"}
        BY <1>1, <1>2 DEF Good, IsState
      <4> HIDE DEF t
      <4> QED BY <4>1 DEF WriteIfFinished, Run
    <3> QED BY <1>3, <2>2, <3>1
  <2> QED BY <1>14, <2>1, <2>2 DEF RunErase, Erasable, p
<1>15. CASE RunInsert(d) BY <1>2, <1>3, <1>15 DEF RunInsert, p
<1>16. CASE RunWrite(d)
  BY <1>2, <1>3, <1>16 DEF Now, RunWrite, p
<1> QED
  BY <1>7, <1>8, <1>9, <1>10, <1>11, <1>12, <1>13, <1>14, <1>15, <1>16 DEF RunEdit

LEMMA BackendKept ==
  ASSUME SInv, NEW sequence \in DOMAIN tracker.pending, Backend(sequence)
  PROVE  LockKept
<1> DEFINE taken == [Now EXCEPT !.tracker = Take(@, sequence)]
           request == tracker.pending[sequence]
<1>0. Good(Now, TRUE) /\ Good(Now, FALSE) /\ Now.composition = composition
  BY NowSound, GoodWeaker
<1>1. Good(taken, FALSE) BY <1>0, GoodTake
<1>2. taken.composition = composition BY DEF Now
<1>3. ASSUME NEW st, Become(st), st.composition.buffer = composition.buffer
      PROVE  LockKept
  BY <1>3, SameKept, BecomeBuffer
<1>4. CASE Answer(sequence)
  <2>1. PICK outcome \in Outcomes(request.snapshot) :
          Become(IF Live(request.epoch)
                 THEN Run(taken, request.doc, ApplyEdit(request, sequence, outcome))
                 ELSE MergeSealed(taken, sequence, request, outcome))
    BY <1>4 DEF Answer
  <2> HIDE DEF taken, request
  <2>2. PICK r : r = request OBVIOUS
  <2>3. Run(taken, r.doc, ApplyEdit(r, sequence, outcome)).composition = taken.composition
    BY ZenonT(30), <1>1, BufferStays
  <2>4. MergeSealed(taken, sequence, r, outcome).composition = taken.composition
    BY <1>1, SealedStays
  <2> QED BY <1>2, <1>3, <2>1, <2>2, <2>3, <2>4
<1>5. CASE Supersede(sequence) BY <1>2, <1>3, <1>5 DEF Supersede
<1>6. CASE Lose(sequence)
  <2>1. Become(BackendLost(taken)) BY <1>6 DEF Lose
  <2> HIDE DEF taken
  <2> QED BY <1>1, <1>2, <1>3, <2>1, LostStays
<1> QED BY <1>4, <1>5, <1>6 DEF Backend

LEMMA NextKept == SInv /\ calls \in Use /\ [Next]_vars => LockKept
<1> SUFFICES ASSUME SInv, calls \in Use, [Next]_vars PROVE LockKept OBVIOUS
<1>1. CASE UNCHANGED controller \/ EndTermination
  BY <1>1, SameKept DEF controller, EndTermination
<1>2. CASE AfterKey
  <2> DEFINE c == composition
             b == IF c.held = {} THEN c.buffer ELSE MergeHeld(c.buffer, CHOOSE h \in c.held : TRUE)
             after == [c EXCEPT !.lock = 0, !.held = {}, !.buffer = b]
             st == [Now EXCEPT !.composition = after]
  <2>1. Become(st) \/ Become(ShowAgain(st)) BY <1>2 DEF AfterKey
  <2>2. ShowAgain(st).composition = st.composition BY DEF ShowAgain, Run, Now
  <2>3. st.composition = after BY DEF Now
  <2>4. after.lock = 0 BY NowSound DEF Good, IsState, Now
  <2> HIDE DEF st, after
  <2>5. composition' = after BY <2>1, <2>2, <2>3, BecomeBuffer
  <2> QED BY <2>4, <2>5 DEF LockKept
<1>3. CASE Stop
  <2> DEFINE st == [WithoutComposition(Now) EXCEPT !.queue = [d \in Docs |-> <<>>]]
  <2>1. Become(st) BY <1>3 DEF Stop
  <2>2. st.composition = NoComposition BY DEF WithoutComposition, Now
  <2> HIDE DEF st
  <2>3. composition'.lock = 0 BY <2>1, <2>2, BecomeBuffer DEF NoComposition, NewComposition
  <2> QED BY <2>3 DEF LockKept
<1>4. ASSUME NEW d, Typing(d) \/ Choosing(d) \/ Host(d) \/ ChangeSetting \/ Terminate \/ Deactivate
      PROVE  LockKept
  BY <1>4, CallSteps, CallsUse DEF LockKept
<1>5. UNCHANGED vars => UNCHANGED controller BY DEF vars
<1> QED BY <1>1, <1>2, <1>3, <1>4, <1>5, RunKept, BackendKept DEF Next

\* The two promises of a step, of a state in which they can be made.
LEMMA NextKeepsPlace ==
  SInv /\ calls \in Use /\ [Next]_vars =>
    /\ NewestWins
    /\ (composition.lock # 0 /\ composition'.lock = composition.lock /\ calls' = calls) =>
         \A p \in Entries(composition, <<>>), q \in Entries(composition', <<>>) :
           (p[2].id = composition.lock /\ q[2].id = p[2].id /\ p[1] = q[1])
             => p[2].text = q[2].text
<1> SUFFICES ASSUME SInv, calls \in Use, [Next]_vars,
                    composition.lock # 0, composition'.lock = composition.lock, calls' = calls,
                    NEW p \in Entries(composition, <<>>), NEW q \in Entries(composition', <<>>),
                    p[2].id = composition.lock, q[2].id = p[2].id
             PROVE  p[2].text = q[2].text
  BY GrewNewest
<1>1. TextKept(composition.buffer, composition'.buffer, composition.lock)
  BY NextKept DEF LockKept
<1>2. DOMAIN <<>> = {} OBVIOUS
<1>3. PICK i \in DOMAIN composition.buffer.entries : p[2] = composition.buffer.entries[i]
  BY <1>2 DEF Entries
<1>4. PICK j \in DOMAIN composition'.buffer.entries : q[2] = composition'.buffer.entries[j]
  BY <1>2 DEF Entries
<1> QED BY <1>1, <1>3, <1>4 DEF TextKept

\* No step puts an older request's result where a newer one's is shown
\* (converted_by, kept through sealing and FinishLocally), and while an entry's
\* candidate list is open only a key changes its text: on_conversion holds the
\* result back, and the loss of the backend only ends what is pending.
THEOREM AlwaysInPlace == Spec => ResultsKeepTheirPlace
<1> DEFINE Inv == SInv /\ calls \in Use
<1>1. Init => Inv BY InitInv, InitSound, UsesAssumption DEF SInv, Init
<1>2. Inv /\ [Next]_vars => Inv' BY NextStep, CallsInv
<1>3. Inv /\ [Next]_vars =>
        /\ NewestWins
        /\ (composition.lock # 0 /\ composition'.lock = composition.lock /\ calls' = calls) =>
             \A p \in Entries(composition, <<>>), q \in Entries(composition', <<>>) :
               (p[2].id = composition.lock /\ q[2].id = p[2].id /\ p[1] = q[1])
                 => p[2].text = q[2].text
  BY NextKeepsPlace
<1> QED BY <1>1, <1>2, <1>3, PTL DEF Spec, ResultsKeepTheirPlace, NewestConversionWins,
                                      LockedEntryUnchanged, NewestWins

-----------------------------------------------------------------------------
(***************************************************************************)
(* Types                                                                   *)
(***************************************************************************)
LEMMA FlattenType ==
  ASSUME NEW T, NEW s \in Seq(Seq(T))
  PROVE  FlattenSeq(s) \in Seq(T)
<1>1. PICK f : Joined(f, T, s) BY JoinedExists
<1>2. FlattenSeq(s) = f[Len(s)] BY <1>1, FlattenJoined
<1>3. Len(s) \in 0..Len(s) OBVIOUS
<1> QED BY <1>1, <1>2, <1>3 DEF Joined

LEMMA DisplayedType ==
  ASSUME NEW e \in Entry, NEW now
  PROVE  Displayed(e, now) \in Seq(Letter)
BY EntryParts, PlainCharacters DEF Forms, Displayed

LEMMA ShownType ==
  ASSUME NEW b, b.entries \in Seq(Entry), NEW now
  PROVE  Shown(b, now) \in Seq(Letter)
<1> DEFINE s == [i \in DOMAIN b.entries |-> Displayed(b.entries[i], now)]
<1>1. \A i \in DOMAIN b.entries : b.entries[i] \in Entry OBVIOUS
<1>2. \A i \in DOMAIN b.entries : s[i] \in Seq(Letter) BY <1>1, DisplayedType
<1>3. DOMAIN b.entries = 1..Len(b.entries) /\ Len(b.entries) \in Nat OBVIOUS
<1>4. Shown(b, now) = FlattenSeq(s) BY DEF Shown
<1>5. s = [i \in 1..Len(b.entries) |-> s[i]] BY <1>3
<1> HIDE DEF s
<1>6. [i \in 1..Len(b.entries) |-> s[i]] \in Seq(Seq(Letter)) BY <1>2, <1>3
<1> QED BY <1>4, <1>5, <1>6, FlattenType

LEMMA TextType ==
  ASSUME NEW q \in Seq(Entry)
  PROVE  TextOf(q) \in Seq(Letter)
<1> DEFINE s == [i \in DOMAIN q |-> q[i].text]
<1>1. \A i \in DOMAIN q : q[i] \in Entry OBVIOUS
<1>2. \A i \in DOMAIN q : s[i] \in Seq(Letter) BY <1>1, EntryParts
<1>3. DOMAIN q = 1..Len(q) /\ Len(q) \in Nat OBVIOUS
<1>4. TextOf(q) = FlattenSeq(s) BY DEF TextOf
<1>5. s = [i \in 1..Len(q) |-> s[i]] BY <1>3
<1> HIDE DEF s
<1>6. [i \in 1..Len(q) |-> s[i]] \in Seq(Seq(Letter)) BY <1>2, <1>3
<1> QED BY <1>4, <1>5, <1>6, FlattenType

\* Edits as the methods queue them.
RequestOK(r) == r \in RequestType /\ Distinct(r.snapshot)
QueuedEdits(next) ==
  {x \in EditType : /\ x.epoch < next
                    /\ x.do = "apply" => RequestOK(x.request) /\ x.sequence # 0
                    /\ x.do \in {"erase", "write", "insert"} <=> x.epoch = 0}

\* A composition with at most one result held back.
CompositionTyped(c) ==
  /\ c \in CompositionType
  /\ c.epoch # 0 => c.doc \in Docs
  /\ \A x, y \in c.held : x = y

\* A controller state.
Typed1(st) ==
  /\ CompositionTyped(st.composition)
  /\ \A s \in DOMAIN st.tracker.pending : RequestOK(st.tracker.pending[s])
  /\ \A e \in DOMAIN st.segments : st.segments[e] \in SegmentType
  /\ st.connected \in BOOLEAN
  /\ st.queue \in [Docs -> Seq(QueuedEdits(st.nextEpoch))]
  /\ st.owed \in [Docs -> Seq(Nat)]

\* All that a method may count on.
Fine(st, waits) == Good(st, waits) /\ Sound(st) /\ Typed1(st)

LEMMA PlainEdits ==
  ASSUME NEW next \in Nat, NEW epoch \in 1..(next - 1)
  PROVE  {OpenEdit(epoch), DiscardEdit(epoch), SealEdit(epoch), LostEdit(epoch)}
           \subseteq QueuedEdits(next)
BY DEF QueuedEdits, EditType, OpenEdit, DiscardEdit, SealEdit, LostEdit

LEMMA OtherEdits ==
  ASSUME NEW next \in Nat \ {0}
  PROVE  {EraseEdit, WriteEdit, InsertEdit} \subseteq QueuedEdits(next)
BY DEF QueuedEdits, EditType, EraseEdit, WriteEdit, InsertEdit

LEMMA ShowTyped ==
  ASSUME NEW next \in Nat, NEW c, c.epoch \in 1..(next - 1), c.buffer.entries \in Seq(Entry)
  PROVE  ShowEdit(c) \in QueuedEdits(next)
BY ShownType DEF ShowEdit, QueuedEdits, EditType

LEMMA SampleTyped ==
  ASSUME NEW epoch \in Nat \ {0}, NEW b, b.entries \in Seq(Entry)
  PROVE  Sample(epoch, b) \in SUBSET SampleType
BY TextType DEF Sample, SampleType, FinalText

LEMMA CommitTyped ==
  ASSUME NEW next \in Nat, NEW c, c.epoch \in 1..(next - 1), c.buffer.entries \in Seq(Entry)
  PROVE  CommitEdit(c) \in QueuedEdits(next)
BY SampleTyped DEF CommitEdit, QueuedEdits, EditType

LEMMA ApplyTyped ==
  ASSUME NEW next \in Nat, NEW request, RequestOK(request), request.epoch < next,
         NEW sequence \in Nat \ {0},
         NEW outcome \in Outcomes(request.snapshot)
  PROVE  ApplyEdit(request, sequence, outcome) \in QueuedEdits(next)
<1>1. request.snapshot \in Seq(Entry) /\ request.epoch \in Nat \ {0}
  BY DEF RequestOK, RequestType
<1>2. outcome \in OutcomeType
  <2>1. Len(request.snapshot) \in Nat BY <1>1
  <2>2. PICK n \in 0..Len(request.snapshot) :
          outcome \in {[predicted |-> n, singles |-> S] :
                         S \in SUBSET {k \in 1..n : ~IsChosen(request.snapshot[k])}}
    BY DEF Outcomes
  <2>3. n \in Nat /\ \A S \in SUBSET {k \in 1..n : ~IsChosen(request.snapshot[k])} : S \in SUBSET Nat
    BY <2>1, <2>2
  <2>4. PICK S \in SUBSET {k \in 1..n : ~IsChosen(request.snapshot[k])} :
          outcome = [predicted |-> n, singles |-> S]
    BY <2>2
  <2> QED BY <2>3, <2>4 DEF OutcomeType
<1> QED BY <1>1, <1>2 DEF ApplyEdit, QueuedEdits, EditType, RequestOK


LEMMA TypedRun ==
  ASSUME NEW st, NEW waits \in BOOLEAN, Good(st, waits), Typed1(st), NEW d \in Docs,
         NEW edit \in QueuedEdits(st.nextEpoch)
  PROVE  Typed1(Run(st, d, edit))
<1> DEFINE t == Run(st, d, edit)
<1>1. /\ t.composition = st.composition /\ t.tracker = st.tracker /\ t.connected = st.connected
      /\ t.segments = st.segments /\ t.owed = st.owed /\ t.nextEpoch = st.nextEpoch
      /\ t.queue = [st.queue EXCEPT ![d] = Append(st.queue[d], edit)]
  BY DEF Good, IsState, Run
<1> HIDE DEF t
<1>2. st.queue \in [Docs -> Seq(QueuedEdits(st.nextEpoch))] BY DEF Typed1
<1>3. Append(st.queue[d], edit) \in Seq(QueuedEdits(st.nextEpoch)) BY <1>2
<1>4. t.queue \in [Docs -> Seq(QueuedEdits(st.nextEpoch))] BY <1>1, <1>2, <1>3
<1> QED BY <1>1, <1>4 DEF Typed1, t

LEMMA FineRun ==
  ASSUME NEW st, NEW waits \in BOOLEAN, Fine(st, waits), NEW d \in Docs,
         NEW edit \in QueuedEdits(st.nextEpoch), edit.do = "apply" => Applies(edit, st.tracker.asked)
  PROVE  Fine(Run(st, d, edit), waits)
BY TypedRun, GoodRun, LeadsRun DEF Fine, Leads

\* What the lemmas below need of a composition and its buffer.
LEMMA FineParts ==
  ASSUME NEW st, NEW waits \in BOOLEAN, Fine(st, waits)
  PROVE  /\ CompositionTyped(st.composition) /\ BufferOK(st.composition.buffer)
         /\ st.composition.buffer.entries \in Seq(Entry)
         /\ st.composition.epoch \in 0..(st.nextEpoch - 1)
         /\ st.composition.epoch = 0 => IsEmpty(st.composition.buffer)
         /\ st.nextEpoch \in Nat \ {0} /\ st.nextEpoch \in Nat
BY BufferParts DEF Fine, Good, Counted, Sound, CompositionFit, Typed1, IsEmpty

\* Only the composition changes.
LEMMA TypedFrame ==
  ASSUME NEW st, Typed1(st), NEW other, CompositionTyped(other.composition),
         other.tracker = st.tracker, other.connected = st.connected, other.segments = st.segments,
         other.nextEpoch = st.nextEpoch,
         other.queue = st.queue, other.owed = st.owed
  PROVE  Typed1(other)
BY DEF Typed1

LEMMA FineList ==
  ASSUME NEW st, NEW waits \in BOOLEAN, Fine(st, waits)
  PROVE  Fine(WithoutList(st), waits)
<1> DEFINE t == WithoutList(st)
<1>1. /\ t.composition = [st.composition EXCEPT !.list = FALSE]
      /\ t.tracker = st.tracker /\ t.connected = st.connected /\ t.segments = st.segments
      /\ t.queue = st.queue /\ t.owed = st.owed /\ t.nextEpoch = st.nextEpoch
  BY DEF Fine, Good, IsState, WithoutList
<1> HIDE DEF t
<1>2. CompositionTyped(t.composition)
  BY <1>1 DEF Fine, Typed1, CompositionTyped, CompositionType
<1>3. Typed1(t) BY <1>1, <1>2, TypedFrame DEF Fine
<1> QED BY <1>3, GoodList, LeadsList DEF Fine, Leads, t

LEMMA FineBuffer ==
  ASSUME NEW st, NEW waits \in BOOLEAN, Fine(st, waits), NEW b, st.composition.epoch # 0,
         Edited(st.composition.buffer, b)
  PROVE  Fine(WithBuffer(st, b), waits)
<1> DEFINE t == WithBuffer(st, b)
<1>1. /\ t.composition = [st.composition EXCEPT !.buffer = b]
      /\ t.tracker = st.tracker /\ t.connected = st.connected /\ t.segments = st.segments
      /\ t.queue = st.queue /\ t.owed = st.owed /\ t.nextEpoch = st.nextEpoch
  BY DEF Fine, Good, IsState, WithBuffer
<1> HIDE DEF t
<1>2. b \in Buffer BY DEF Edited, BufferOK
<1>3. CompositionTyped(t.composition)
  BY <1>1, <1>2 DEF Fine, Typed1, CompositionTyped, CompositionType
<1>4. Typed1(t) BY <1>1, <1>3, TypedFrame DEF Fine
<1> QED BY <1>4, GoodBuffer, LeadsBuffer DEF Fine, Leads, t

LEMMA EmptyTyped ==
  ASSUME NEW epoch \in Nat, NEW d \in Docs \union {NoDoc}, epoch # 0 => d \in Docs
  PROVE  CompositionTyped(NewComposition(epoch, d))
<1> DEFINE c == NewComposition(epoch, d)
<1>1. EmptyBuffer \in Buffer BY DEF EmptyBuffer, Buffer
<1>2. -1 \in Nat \union {-1} /\ 0 \in Nat /\ -1 \in Int OBVIOUS
<1>3. NotSent \in [revision : Nat \union {-1}, sequence : Nat] BY DEF NotSent
<1>4. c \in CompositionType BY <1>1, <1>3 DEF CompositionType, NewComposition
<1> QED BY <1>4 DEF CompositionTyped, NewComposition

LEMMA FineNone ==
  ASSUME NEW st, NEW waits \in BOOLEAN, Fine(st, waits)
  PROVE  Fine(WithoutComposition(st), waits)
<1> DEFINE t == WithoutComposition(st)
<1>1. /\ t.composition = NoComposition
      /\ t.tracker = st.tracker /\ t.connected = st.connected /\ t.segments = st.segments
      /\ t.queue = st.queue /\ t.owed = st.owed /\ t.nextEpoch = st.nextEpoch
  BY DEF Fine, Good, IsState, WithoutComposition
<1> HIDE DEF t
<1>2. CompositionTyped(t.composition) BY <1>1, EmptyTyped DEF NoComposition
<1>3. Typed1(t) BY <1>1, <1>2, TypedFrame DEF Fine
<1> QED BY <1>3, GoodNone, LeadsNone DEF Fine, Leads, t

LEMMA MoreEdits ==
  ASSUME NEW next \in Nat, NEW more \in Nat, next <= more
  PROVE  QueuedEdits(next) \subseteq QueuedEdits(more)
BY DEF EditType, QueuedEdits

LEMMA FineOpen ==
  ASSUME NEW st, NEW waits \in BOOLEAN, Fine(st, waits), NEW d \in Docs
  PROVE  Fine(Open(st, d), waits) /\ Open(st, d).composition.epoch # 0
<1>1. Good(Open(st, d), waits) /\ Sound(Open(st, d)) /\ Open(st, d).composition.epoch # 0
  BY GoodOpen, LeadsOpen DEF Fine, Leads
<1>2. Typed1(Open(st, d))
  <2>1. CASE st.composition.epoch # 0 BY <2>1 DEF Open, Fine
  <2>2. CASE st.composition.epoch = 0
    <3> DEFINE c == NewComposition(st.nextEpoch, d)
               t == [st EXCEPT !.composition = c, !.nextEpoch = @ + 1]
               u == Run(t, d, OpenEdit(st.nextEpoch))
               next == st.nextEpoch + 1
    <3>1. Open(st, d) = u BY <2>2 DEF Open
    <3>2. /\ u.composition = c /\ u.tracker = st.tracker /\ u.connected = st.connected
          /\ u.segments = st.segments /\ u.owed = st.owed /\ u.nextEpoch = next
          /\ u.queue = [st.queue EXCEPT ![d] = Append(st.queue[d], OpenEdit(st.nextEpoch))]
      BY DEF Fine, Good, IsState, Run
    <3>3. CompositionTyped(c) BY FineParts, EmptyTyped
    <3>4. st.nextEpoch \in 1..(next - 1) /\ next \in Nat /\ st.nextEpoch \in Nat
          /\ st.nextEpoch <= next
      BY FineParts
    <3> HIDE DEF u, c, next
    <3>5. OpenEdit(st.nextEpoch) \in QueuedEdits(next) BY <3>4, PlainEdits
    <3>6. QueuedEdits(st.nextEpoch) \subseteq QueuedEdits(next) BY <3>4, MoreEdits
    <3>7. st.queue \in [Docs -> Seq(QueuedEdits(st.nextEpoch))] BY DEF Fine, Typed1
    <3>8. \A k \in Docs : st.queue[k] \in Seq(QueuedEdits(next)) BY <3>6, <3>7
    <3>9. Append(st.queue[d], OpenEdit(st.nextEpoch)) \in Seq(QueuedEdits(next)) BY <3>5, <3>8
    <3>10. u.queue \in [Docs -> Seq(QueuedEdits(next))] BY <3>2, <3>7, <3>8, <3>9
    <3> QED BY <3>1, <3>2, <3>3, <3>10 DEF Fine, Typed1
  <2> QED BY <2>1, <2>2
<1> QED BY <1>1, <1>2 DEF Fine

\* A snapshot taken of a buffer.
LEMMA RequestTyped ==
  ASSUME NEW epoch \in Nat \ {0}, NEW d \in Docs, NEW b, BufferOK(b)
  PROVE  RequestOK(RequestOf(epoch, d, b))
BY BufferParts DEF BufferOK, RequestOf, RequestOK, RequestType

LEMMA SendTyped ==
  ASSUME NEW tr, Numbered(tr), NEW request, RequestOK(request),
         \A s \in DOMAIN tr.pending : RequestOK(tr.pending[s])
  PROVE  \A s \in DOMAIN Send(tr, request).pending : RequestOK(Send(tr, request).pending[s])
BY SendFacts

LEMMA FineRequest ==
  ASSUME NEW st, NEW waits \in BOOLEAN, Fine(st, waits)
  PROVE  Fine(Request(st), waits)
<1>1. Good(Request(st), waits) /\ Sound(Request(st)) BY GoodRequest, LeadsRequest DEF Fine, Leads
<1>2. CASE ~Requests(st) BY <1>1, <1>2 DEF Fine, Request
<1>3. CASE Requests(st)
  <2> DEFINE c == st.composition
             r == RequestOf(c.epoch, c.doc, c.buffer)
             t == Request(st)
  <2>1. ~IsEmpty(c.buffer) BY <1>3 DEF Requests, HasSnapshot
  <2>2. c.epoch \in Nat \ {0} /\ c.doc \in Docs /\ BufferOK(c.buffer) /\ CompositionTyped(c)
    BY <2>1, FineParts DEF CompositionTyped
  <2>3. RequestOK(r) /\ c.buffer.revision \in Nat BY <2>2, RequestTyped, BufferParts
  <2>4. st.tracker.sequence + 1 \in Nat BY DEF Fine, Good, Counted, Numbered
  <2>5. t = [st EXCEPT !.tracker = Send(st.tracker, r),
                       !.composition.sent = [revision |-> c.buffer.revision,
                                             sequence |-> st.tracker.sequence + 1]]
    BY <1>3 DEF Request
  <2> HIDE DEF r, t
  <2>6. /\ t.tracker = Send(st.tracker, r)
        /\ t.composition = [c EXCEPT !.sent = [revision |-> c.buffer.revision,
                                               sequence |-> st.tracker.sequence + 1]]
        /\ t.connected = st.connected /\ t.segments = st.segments
        /\ t.queue = st.queue /\ t.owed = st.owed /\ t.nextEpoch = st.nextEpoch
    BY <2>5 DEF Fine, Good, IsState
  <2>7. CompositionTyped(t.composition)
    BY <2>2, <2>3, <2>4, <2>6 DEF CompositionTyped, CompositionType
  <2>8. \A s \in DOMAIN t.tracker.pending : RequestOK(t.tracker.pending[s])
    BY <2>3, <2>6, SendTyped DEF Fine, Typed1, Good, Counted
  <2>9. Typed1(t) BY <2>6, <2>7, <2>8 DEF Fine, Typed1
  <2> QED BY <1>1, <2>9 DEF Fine, t
<1> QED BY <1>2, <1>3

LEMMA FineShow ==
  ASSUME NEW st, NEW waits \in BOOLEAN, Fine(st, waits), st.composition.epoch # 0
  PROVE  Fine(ShowAgain(st), waits)
<1>1. st.composition.epoch \in 1..(st.nextEpoch - 1) /\ st.composition.doc \in Docs
      /\ st.composition.buffer.entries \in Seq(Entry)
  BY FineParts DEF CompositionTyped
<1>2. ShowEdit(st.composition) \in QueuedEdits(st.nextEpoch) BY <1>1, FineParts, ShowTyped
<1>3. ShowEdit(st.composition).do # "apply" BY DEF ShowEdit
<1> QED BY <1>1, <1>2, <1>3, FineRun DEF ShowAgain

LEMMA FineDiscard ==
  ASSUME NEW st, NEW waits \in BOOLEAN, Fine(st, waits), st.composition.epoch # 0
  PROVE  Fine(Discard(st), waits)
BY FineParts, PlainEdits, FineNone, FineRun DEF CompositionTyped, DiscardEdit,
   WithoutComposition, Fine, Good, IsState, Discard

LEMMA FineUpdate ==
  ASSUME NEW st, NEW waits \in BOOLEAN, Fine(st, waits), st.composition.epoch # 0
  PROVE  Fine(Update(st), waits)
BY FineDiscard, FineShow, FineRequest DEF Update

LEMMA FineEdited ==
  ASSUME NEW st, NEW waits \in BOOLEAN, Fine(st, waits), st.composition.epoch # 0, NEW b,
         Edited(st.composition.buffer, b)
  PROVE  Fine(Update(WithBuffer(st, b)), waits)
BY FineBuffer, FineUpdate DEF Fine, Good, IsState, WithBuffer

LEMMA FineDiscardReading ==
  ASSUME NEW st, NEW waits \in BOOLEAN, Fine(st, waits), st.composition.epoch # 0
  PROVE  Fine(DiscardReading(st), waits)
BY FineParts, EraseEdited, FineEdited DEF CanDiscardReading, DiscardReading

LEMMA FineLeave ==
  ASSUME NEW st, NEW waits \in BOOLEAN, Fine(st, waits), st.composition.epoch # 0
  PROVE  Fine(Leave(st), waits)
<1> DEFINE c == st.composition
           n == WithoutComposition(st)
           more == [i \in DOMAIN c.buffer.entries |-> c.epoch]
           t == Leave(st)
<1>1. c.epoch \in Nat /\ c.doc \in Docs /\ c.buffer.entries \in Seq(Entry)
  BY FineParts DEF CompositionTyped
<1>2. Fine(n, waits) /\ n.owed = st.owed BY FineNone DEF WithoutComposition, Fine, Good, IsState
<1>3. t = [n EXCEPT !.owed[c.doc] = @ \o more] BY <1>2 DEF Leave
<1>4. more \in Seq(Nat)
  BY <1>1
<1> HIDE DEF more, n, t
<1>5. /\ t.composition = n.composition /\ t.tracker = n.tracker /\ t.connected = n.connected
      /\ t.segments = n.segments /\ t.queue = n.queue /\ t.nextEpoch = n.nextEpoch
      /\ t.owed = [n.owed EXCEPT ![c.doc] = n.owed[c.doc] \o more]
  BY <1>2, <1>3 DEF Fine, Good, IsState
<1>6. n.owed \in [Docs -> Seq(Nat)] BY <1>2 DEF Fine, Typed1
<1>7. n.owed[c.doc] \o more \in Seq(Nat) BY <1>1, <1>4, <1>6
<1>8. t.owed \in [Docs -> Seq(Nat)] BY <1>5, <1>6, <1>7
<1>9. Typed1(t) BY <1>2, <1>5, <1>8 DEF Fine, Typed1
<1> QED BY <1>9, LeaveFacts, LeadsLeave DEF Fine, Leads, t

LEMMA FineCommit ==
  ASSUME NEW st, NEW waits \in BOOLEAN, Fine(st, waits), st.composition.epoch # 0
  PROVE  Fine(Commit(st), waits)
<1>1. st.composition.epoch \in 1..(st.nextEpoch - 1) /\ st.composition.doc \in Docs
      /\ st.composition.buffer.entries \in Seq(Entry)
  BY FineParts DEF CompositionTyped
<1>2. CommitEdit(st.composition) \in QueuedEdits(st.nextEpoch) BY <1>1, FineParts, CommitTyped
<1>3. CommitEdit(st.composition).do # "apply" BY DEF CommitEdit
<1>4. Fine(Leave(st), waits) /\ Leave(st).nextEpoch = st.nextEpoch
  BY FineLeave, LeaveFacts DEF Fine
<1> QED BY <1>1, <1>2, <1>3, <1>4, FineRun DEF Commit


LEMMA SegmentParts ==
  ASSUME NEW s \in SegmentType
  PROVE  /\ s.doc \in Docs /\ s.buffer \in Buffer /\ s.shown \in Seq(Letter)
         /\ s.preceding \in BOOLEAN /\ s.stage \in {"context", "converting", "finished"}
         /\ s.awaited \in Nat /\ s.erased \in Nat /\ s.placed \in BOOLEAN
         /\ DOMAIN s = SegmentFields
BY DEF SegmentType, SegmentFields

\* Only a segment changes.
LEMMA TypedSegment ==
  ASSUME NEW st, NEW waits \in BOOLEAN, Good(st, waits), Typed1(st),
         NEW e \in DOMAIN st.segments, NEW s \in SegmentType
  PROVE  Typed1([st EXCEPT !.segments[e] = s])
<1> DEFINE t == [st EXCEPT !.segments[e] = s]
<1>1. /\ t.composition = st.composition /\ t.tracker = st.tracker /\ t.connected = st.connected
      /\ t.segments = [st.segments EXCEPT ![e] = s]
      /\ t.queue = st.queue /\ t.owed = st.owed /\ t.nextEpoch = st.nextEpoch
  BY DEF Good, IsState
<1> HIDE DEF t
<1> QED BY <1>1 DEF Typed1, t

\* A stage of a segment with the same buffer.
LEMMA FineStage ==
  ASSUME NEW st, NEW waits \in BOOLEAN, Fine(st, waits), NEW e \in DOMAIN st.segments,
         NEW s \in SegmentType, s.buffer = st.segments[e].buffer,
         s.stage = "converting" =>
           st.segments[e].stage = "converting" /\ s.awaited = st.segments[e].awaited
  PROVE  Fine([st EXCEPT !.segments[e] = s], waits)
BY SegmentParts, GoodSegment, TypedSegment, LeadsStage DEF Fine, Leads

LEMMA FineWrite ==
  ASSUME NEW st, NEW waits \in BOOLEAN, Fine(st, waits), NEW e \in DOMAIN st.segments
  PROVE  Fine(WriteIfFinished(st, e), waits)
<1>1. st.segments[e].doc \in Docs BY SegmentParts DEF Fine, Typed1
<1>2. WriteEdit \in QueuedEdits(st.nextEpoch) /\ WriteEdit.do # "apply" BY FineParts, OtherEdits DEF WriteEdit
<1> QED BY <1>1, <1>2, FineRun DEF WriteIfFinished

LEMMA AcceptLocalType ==
  ASSUME NEW b, BufferOK(b)
  PROVE  AcceptLocalCandidates(b) \in Buffer
BY AcceptLocalEdited DEF Edited, BufferOK

LEMMA FinishedType ==
  ASSUME NEW s \in SegmentType, BufferOK(s.buffer)
  PROVE  FinishedLocally(s) \in SegmentType
BY AcceptLocalType DEF FinishedLocally, SegmentType

LEMMA FineConvert ==
  ASSUME NEW st, NEW waits \in BOOLEAN, Fine(st, waits), NEW e \in DOMAIN st.segments
  PROVE  /\ Fine(ConvertSegment(st, e), waits)
         /\ DOMAIN ConvertSegment(st, e).segments = DOMAIN st.segments
<1> DEFINE s == st.segments[e]
           t == ConvertSegment(st, e)
           r == RequestOf(e, s.doc, s.buffer)
<1>1. Good(t, waits) /\ Sound(t) /\ DOMAIN t.segments = DOMAIN st.segments
  BY GoodConvert, LeadsConvert DEF Fine, Leads
<1>2. s \in SegmentType /\ BufferOK(s.buffer) /\ e \in Nat \ {0}
  BY DEF Fine, Typed1, Sound, SegmentsFit, Good, Counted
<1>3. CASE st.connected /\ HasSnapshot(s.buffer)
  <2> DEFINE new == [s EXCEPT !.stage = "converting", !.awaited = st.tracker.sequence + 1]
  <2>1. t = [st EXCEPT !.tracker = Send(st.tracker, r),
                       !.segments[e].stage = "converting",
                       !.segments[e].awaited = st.tracker.sequence + 1]
    BY <1>3 DEF ConvertSegment
  <2>2. RequestOK(r) BY <1>2, SegmentParts, RequestTyped
  <2>3. st.tracker.sequence + 1 \in Nat BY DEF Fine, Good, Counted, Numbered
  <2>4. new \in SegmentType BY <1>2, <2>3 DEF SegmentType
  <2> HIDE DEF t, r
  <2>5. /\ t.tracker = Send(st.tracker, r) /\ t.composition = st.composition
        /\ t.connected = st.connected /\ t.queue = st.queue /\ t.owed = st.owed /\ t.nextEpoch = st.nextEpoch
        /\ t.segments = [st.segments EXCEPT ![e] = new]
    BY <1>2, <2>1, SegmentParts DEF Fine, Good, IsState
  <2>6. \A k \in DOMAIN t.tracker.pending : RequestOK(t.tracker.pending[k])
    <3>1. Numbered(st.tracker) /\ \A k \in DOMAIN st.tracker.pending : RequestOK(st.tracker.pending[k])
      BY DEF Fine, Typed1, Good, Counted
    <3> QED BY <2>2, <2>5, <3>1, SendTyped
  <2> HIDE DEF new
  <2>7. \A k \in DOMAIN t.segments : t.segments[k] \in SegmentType
    BY <2>4, <2>5 DEF Fine, Typed1
  <2>8. Typed1(t) BY <2>5, <2>6, <2>7 DEF Fine, Typed1
  <2> QED BY <1>1, <2>8 DEF Fine, t
<1>4. CASE ~(st.connected /\ HasSnapshot(s.buffer))
  <2>1. t = [st EXCEPT !.segments[e] = FinishedLocally(s)] BY <1>4 DEF ConvertSegment
  <2>2. FinishedLocally(s) \in SegmentType BY <1>2, FinishedType
  <2> HIDE DEF t
  <2>3. Typed1(t) BY <2>1, <2>2, TypedSegment DEF Fine
  <2> QED BY <1>1, <2>3 DEF Fine, t
<1> QED BY <1>3, <1>4

LEMMA FineConvertWrite ==
  ASSUME NEW st, NEW waits \in BOOLEAN, Fine(st, waits), NEW e \in DOMAIN st.segments
  PROVE  /\ Fine(WriteIfFinished(ConvertSegment(st, e), e), waits)
         /\ WriteIfFinished(ConvertSegment(st, e), e).nextEpoch = st.nextEpoch
<1> DEFINE t == ConvertSegment(st, e)
<1>1. t.nextEpoch = st.nextEpoch BY DEF ConvertSegment, Fine, Good, IsState
<1>2. Fine(t, waits) /\ e \in DOMAIN t.segments BY FineConvert
<1> HIDE DEF t
<1>3. WriteIfFinished(t, e).nextEpoch = t.nextEpoch
  BY <1>2 DEF WriteIfFinished, Run, Fine, Good, IsState
<1> QED BY <1>1, <1>2, <1>3, FineWrite DEF t

LEMMA SegmentOfTyped ==
  ASSUME NEW c \in CompositionType, c.doc \in Docs, NEW inFlight
  PROVE  NewSegment(c, inFlight) \in SegmentType
BY ShownType DEF CompositionType, Buffer, SegmentOf, SegmentType, NewSegment

\* A new segment, and what then becomes of it.
LEMMA TypedAdded ==
  ASSUME NEW st, NEW waits \in BOOLEAN, Good(st, waits), Typed1(st),
         NEW c \in CompositionType, c.doc \in Docs, NEW inFlight \in BOOLEAN
  PROVE  Typed1(Added(st, c, inFlight))
<1> DEFINE t == Added(st, c, inFlight)
           s == NewSegment(c, inFlight)
<1>1. /\ t.composition = st.composition /\ t.tracker = st.tracker /\ t.connected = st.connected
      /\ t.segments = Put(st.segments, c.epoch, s)
      /\ t.queue = st.queue /\ t.owed = st.owed /\ t.nextEpoch = st.nextEpoch
  BY DEF Good, IsState, Added
<1>2. s \in SegmentType BY SegmentOfTyped
<1> HIDE DEF s, t
<1>3. \A e \in DOMAIN t.segments : t.segments[e] \in SegmentType
  BY <1>1, <1>2 DEF Put, Typed1
<1> QED BY <1>1, <1>3 DEF Typed1, t

\* The segment of a composition that is left before it is settled.
SealMakes(st, frozen, waits) ==
  LET whole  == WithBuffer(st, frozen)
      c      == [st.composition EXCEPT !.buffer = frozen]
      flying == InFlight(st, frozen)
      added  == Added(Leave(whole), c, flying)
  IN  /\ Fine(whole, waits) /\ whole.composition = c /\ whole.nextEpoch = st.nextEpoch
      /\ Fine(added, waits) /\ added.composition = NoComposition
      /\ added.tracker = st.tracker /\ added.nextEpoch = st.nextEpoch
      /\ added.queue = st.queue
      /\ DOMAIN added.segments = DOMAIN st.segments \union {c.epoch}
      /\ added.segments[c.epoch] = NewSegment(c, flying)
      /\ \A e \in DOMAIN st.segments : added.segments[e] = st.segments[e]
      /\ c.epoch = st.composition.epoch /\ c.doc = st.composition.doc
      /\ c.preceding = st.composition.preceding

LEMMA SealAdded ==
  ASSUME NEW st, NEW waits \in BOOLEAN, Fine(st, waits), st.composition.epoch # 0,
         NEW frozen, frozen = FreezeReadings(st.composition.buffer)
  PROVE  SealMakes(st, frozen, waits)
<1> DEFINE whole  == WithBuffer(st, frozen)
           c      == [st.composition EXCEPT !.buffer = frozen]
           left   == Leave(whole)
           flying == InFlight(st, frozen)
           added  == Added(left, c, flying)
<1>1. Edited(st.composition.buffer, frozen) BY FineParts, FreezeEdited
<1>2. Fine(whole, waits) BY <1>1, FineBuffer
<1>3. /\ whole.composition = c /\ whole.tracker = st.tracker /\ whole.nextEpoch = st.nextEpoch
      /\ whole.segments = st.segments /\ whole.queue = st.queue
  BY DEF WithBuffer, Fine, Good, IsState
<1>4. /\ c.epoch = st.composition.epoch /\ c.sent = st.composition.sent
      /\ c.doc = st.composition.doc /\ c.preceding = st.composition.preceding
      /\ c.buffer = frozen
  BY DEF Fine, Good, IsState
<1>5. c.doc \in Docs /\ c \in CompositionType
  BY <1>2, <1>3, <1>4, FineParts DEF CompositionTyped
<1>6. flying \in BOOLEAN /\ (flying => c.sent.sequence \in DOMAIN st.tracker.pending)
  BY <1>4 DEF InFlight, Awaits
<1> HIDE DEF whole
<1>7. /\ Good(left, waits) /\ left.composition = NoComposition
      /\ left.tracker = st.tracker /\ left.nextEpoch = st.nextEpoch
      /\ left.segments = st.segments
  BY <1>2, <1>3, LeaveFacts DEF Fine
<1>8. Fine(left, waits) BY <1>2, <1>3, <1>4, FineLeave
<1>9. left.queue = st.queue
  BY <1>2, <1>3 DEF Leave, WithoutComposition, Fine, Good, IsState
<1>10. left.composition.epoch = 0 BY <1>7 DEF NoComposition, NewComposition
<1>11. /\ c.epoch \in 1..(st.nextEpoch - 1) /\ c.epoch \notin DOMAIN st.segments
       /\ NewestOf(st.tracker, c.epoch, c.sent.sequence)
  BY <1>4 DEF Fine, Good, Counted, SentNewest
<1> DEFINE s == NewSegment(c, flying)
<1> HIDE DEF c, flying, left
<1>12. /\ Good(added, waits)
       /\ added.composition = left.composition /\ added.tracker = left.tracker
       /\ added.nextEpoch = left.nextEpoch /\ added.queue = left.queue
       /\ DOMAIN added.segments = DOMAIN left.segments \union {c.epoch}
       /\ added.segments[c.epoch].buffer = c.buffer
       /\ \A e \in DOMAIN left.segments : added.segments[e] = left.segments[e]
  BY <1>4, <1>6, <1>7, <1>10, <1>11, AddedFacts
<1>13. added.segments[c.epoch] = s BY <1>7 DEF Added, Put, Good, IsState
<1>14. Typed1(added) BY <1>5, <1>6, <1>8, TypedAdded DEF Fine
<1> HIDE DEF added, s
<1>15. Leads(st, added) BY <1>1, <1>4, <1>7, <1>9, <1>12, LeadsAdded DEF Fine
<1>16. Fine(added, waits) BY <1>12, <1>14, <1>15 DEF Fine, Leads
<1> QED
  BY SMTT(20), <1>2, <1>3, <1>4, <1>7, <1>9, <1>12, <1>13, <1>16
  DEF SealMakes, whole, c, left, flying, added, s

LEMMA FineSeal ==
  ASSUME NEW st, NEW waits \in BOOLEAN, Fine(st, waits)
  PROVE  Fine(Seal(st), waits)
<1>1. CASE st.composition.epoch = 0 BY <1>1 DEF Seal
<1>2. CASE st.composition.epoch # 0
  <2> DEFINE frozen == FreezeReadings(st.composition.buffer)
             whole  == WithBuffer(st, frozen)
             c      == [st.composition EXCEPT !.buffer = frozen]
             left   == Leave(whole)
             flying == InFlight(st, frozen)
             added  == Added(left, c, flying)
             next   == AddSegment(left, c, flying)
             edit   == SealEdit(c.epoch)
  <2>1. /\ Fine(whole, waits) /\ whole.composition = c
        /\ Fine(added, waits) /\ added.nextEpoch = st.nextEpoch
        /\ c.epoch \in DOMAIN added.segments
        /\ c.epoch = st.composition.epoch /\ c.doc = st.composition.doc
    <3>1. SealMakes(st, frozen, waits) BY <1>2, SealAdded
    <3> HIDE DEF frozen
    <3>2. c.epoch \in DOMAIN st.segments \union {c.epoch} OBVIOUS
    <3> QED BY <3>1, <3>2 DEF SealMakes
  <2>2. next = IF ~flying /\ c.preceding
               THEN WriteIfFinished(ConvertSegment(added, c.epoch), c.epoch)
               ELSE added
    BY DEF AddSegment, Added
  <2>3. Seal(st) = IF Settled(c) THEN Commit(whole) ELSE Run(next, c.doc, edit)
    BY <1>2 DEF Seal
  <2>4. c.epoch \in 1..(st.nextEpoch - 1) /\ c.doc \in Docs
    BY <1>2, <2>1, FineParts DEF CompositionTyped
  <2>5. edit \in QueuedEdits(st.nextEpoch) /\ edit.do # "apply"
    BY <2>4, FineParts, PlainEdits DEF SealEdit
  <2> HIDE DEF frozen, whole, c, left, flying, added, next, edit
  <2>6. Fine(next, waits) /\ next.nextEpoch = st.nextEpoch BY <2>1, <2>2, FineConvertWrite
  <2>7. Fine(Commit(whole), waits) BY <1>2, <2>1, FineCommit
  <2>8. Fine(Run(next, c.doc, edit), waits) BY <2>4, <2>5, <2>6, FineRun
  <2> QED BY <2>3, <2>7, <2>8
<1> QED BY <1>1, <1>2

\* The text before the composition is known.
Preceding(st) == [st EXCEPT !.composition.preceding = TRUE]

LEMMA FinePreceding ==
  ASSUME NEW st, NEW waits \in BOOLEAN, Fine(st, waits)
  PROVE  LET t == Preceding(st)
         IN  /\ Fine(t, waits)
             /\ t.tracker = st.tracker /\ t.nextEpoch = st.nextEpoch
             /\ t.segments = st.segments /\ t.queue = st.queue
             /\ t.composition.epoch = st.composition.epoch
             /\ t.composition.doc = st.composition.doc /\ t.composition.preceding
             /\ t.composition.buffer = st.composition.buffer
<1> DEFINE t == [st EXCEPT !.composition.preceding = TRUE]
<1>1. Good(t, waits) BY GoodFrame DEF Fine, Good, IsState
<1>2. /\ t.tracker = st.tracker /\ t.nextEpoch = st.nextEpoch
      /\ t.segments = st.segments /\ t.queue = st.queue /\ t.owed = st.owed
      /\ t.connected = st.connected
      /\ t.composition = [st.composition EXCEPT !.preceding = TRUE]
  BY DEF Fine, Good, IsState
<1>3. /\ t.composition.epoch = st.composition.epoch /\ t.composition.preceding
      /\ t.composition.buffer = st.composition.buffer
      /\ t.composition.held = st.composition.held
      /\ t.composition.doc = st.composition.doc
  BY DEF Fine, Good, IsState
<1>4. t = Preceding(st) BY DEF Preceding
<1> HIDE DEF t
<1>5. CompositionTyped(t.composition)
  BY <1>2 DEF Fine, Typed1, CompositionTyped, CompositionType
<1>6. Typed1(t) BY <1>2, <1>5, TypedFrame DEF Fine
<1>7. Leads(st, t) BY <1>2, <1>3, LeadsFrame DEF Fine
<1>8. Fine(t, waits) BY <1>1, <1>6, <1>7 DEF Fine, Leads
<1> QED BY <1>2, <1>3, <1>4, <1>8

\* The text before a segment is known.
KnownSegment(st, epoch) == [st EXCEPT !.segments[epoch].preceding = TRUE]

LEMMA FineKnown ==
  ASSUME NEW st, NEW waits \in BOOLEAN, Fine(st, waits), NEW epoch \in DOMAIN st.segments
  PROVE  LET t == KnownSegment(st, epoch)
         IN  /\ Fine(t, waits)
             /\ t.composition = st.composition /\ t.tracker = st.tracker
             /\ t.nextEpoch = st.nextEpoch /\ t.queue = st.queue
             /\ DOMAIN t.segments = DOMAIN st.segments
             /\ \A k \in DOMAIN st.segments : k # epoch => t.segments[k] = st.segments[k]
             /\ t.segments[epoch].doc = st.segments[epoch].doc
             /\ t.segments[epoch].placed = st.segments[epoch].placed
             /\ t.segments[epoch].stage = st.segments[epoch].stage
<1> DEFINE s == [st.segments[epoch] EXCEPT !.preceding = TRUE]
           t == [st EXCEPT !.segments[epoch] = s]
<1>1. /\ s \in SegmentType /\ s.buffer = st.segments[epoch].buffer
      /\ s.stage = st.segments[epoch].stage /\ s.awaited = st.segments[epoch].awaited
      /\ s.doc = st.segments[epoch].doc /\ s.placed = st.segments[epoch].placed
  BY SegmentParts DEF Fine, Typed1, SegmentType
<1>2. t = KnownSegment(st, epoch) BY DEF KnownSegment
<1> HIDE DEF s
<1>3. Fine(t, waits) BY <1>1, FineStage
<1>4. /\ t.composition = st.composition /\ t.tracker = st.tracker
      /\ t.nextEpoch = st.nextEpoch /\ t.queue = st.queue
      /\ t.segments = [st.segments EXCEPT ![epoch] = s]
  BY DEF Fine, Good, IsState
<1> HIDE DEF t
<1> QED BY <1>1, <1>2, <1>3, <1>4

LEMMA FineContextReady ==
  ASSUME NEW st, NEW waits \in BOOLEAN, Fine(st, waits), NEW epoch
  PROVE  Fine(ContextReady(st, epoch), waits)
<1>1. CASE st.composition.epoch = epoch
  BY <1>1, FinePreceding, FineRequest DEF ContextReady, Preceding
<1>2. CASE st.composition.epoch # epoch /\ epoch \notin DOMAIN st.segments
  BY <1>2 DEF ContextReady
<1>3. CASE st.composition.epoch # epoch /\ epoch \in DOMAIN st.segments
  <2>1. Fine(KnownSegment(st, epoch), waits) /\ epoch \in DOMAIN KnownSegment(st, epoch).segments
    BY <1>3, FineKnown DEF KnownSegment
  <2>2. \/ ContextReady(st, epoch) = KnownSegment(st, epoch)
        \/ ContextReady(st, epoch) =
             WriteIfFinished(ConvertSegment(KnownSegment(st, epoch), epoch), epoch)
    BY <1>3 DEF ContextReady, KnownSegment
  <2> QED BY <2>1, <2>2, FineConvertWrite
<1> QED BY <1>1, <1>2, <1>3

LEMMA FineMerged ==
  ASSUME NEW st, NEW waits \in BOOLEAN, Fine(st, waits),
         NEW sequence, NEW request, NEW outcome,
         Requested(request, sequence, st.tracker.asked),
         outcome.predicted \in 0..Len(request.snapshot), request.epoch \in DOMAIN st.segments
  PROVE  LET t == Merges(st, sequence, request, outcome)
         IN  Fine(t, waits) /\ DOMAIN t.segments = DOMAIN st.segments
<1> DEFINE e == request.epoch
           s == st.segments[e]
           m == Merged(s, sequence, request, outcome)
           t == [st EXCEPT !.segments[e] = m]
<1>1. Merges(st, sequence, request, outcome) = t BY DEF Merges
<1>2. s \in SegmentType /\ BufferOK(s.buffer) BY DEF Fine, Typed1, Sound, SegmentsFit
<1>3. BufferOK(Merge(s.buffer, sequence, request.snapshot, outcome, 0))
  BY <1>2, MergeFacts DEF Requested
<1>4. m \in SegmentType BY <1>2, <1>3 DEF Merged, SegmentType, BufferOK
<1> HIDE DEF m
<1>5. Typed1(t) BY <1>4, TypedSegment DEF Fine
<1>6. DOMAIN t.segments = DOMAIN st.segments BY DEF Fine, Good, IsState
<1> QED BY <1>1, <1>5, <1>6, LeadsMerged DEF Fine, Leads

LEMMA FineMergeSealed ==
  ASSUME NEW st, NEW waits \in BOOLEAN, Fine(st, waits),
         NEW sequence, NEW request, NEW outcome,
         Requested(request, sequence, st.tracker.asked),
         outcome.predicted \in 0..Len(request.snapshot)
  PROVE  Fine(MergeSealed(st, sequence, request, outcome), waits)
<1>1. CASE request.epoch \notin DOMAIN st.segments BY <1>1 DEF MergeSealed
<1>2. CASE request.epoch \in DOMAIN st.segments
  <2> DEFINE t == Merges(st, sequence, request, outcome)
  <2>1. MergeSealed(st, sequence, request, outcome) = WriteIfFinished(t, request.epoch)
    BY <1>2 DEF MergeSealed, Merges
  <2>2. Fine(t, waits) /\ request.epoch \in DOMAIN t.segments BY <1>2, FineMerged
  <2> HIDE DEF t
  <2> QED BY <2>1, <2>2, FineWrite
<1> QED BY <1>1, <1>2

LEMMA TypedFinishLocally ==
  ASSUME NEW st, NEW waits \in BOOLEAN, Fine(st, waits)
  PROVE  Typed1(FinishLocally(st))
<1> DEFINE t == FinishLocally(st)
<1>1. /\ t.composition = st.composition /\ t.tracker = st.tracker /\ t.connected = st.connected
      /\ t.segments = AllFinished(st.segments) /\ t.owed = st.owed /\ t.nextEpoch = st.nextEpoch
      /\ t.queue = [d \in Docs |->
                     IF \E e \in DOMAIN st.segments : st.segments[e].doc = d
                     THEN Append(st.queue[d], WriteEdit) ELSE st.queue[d]]
  BY DEF FinishLocally, Fine, Good, IsState
<1> HIDE DEF t
<1>2. /\ DOMAIN t.segments = DOMAIN st.segments
      /\ \A e \in DOMAIN st.segments : t.segments[e] = FinishedLocally(st.segments[e])
  BY <1>1 DEF AllFinished
<1>3. \A e \in DOMAIN t.segments : t.segments[e] \in SegmentType
  BY <1>2, FinishedType DEF Fine, Typed1, Sound, SegmentsFit
<1>4. st.queue \in [Docs -> Seq(QueuedEdits(st.nextEpoch))] BY DEF Fine, Typed1
<1>5. \A d \in Docs : Append(st.queue[d], WriteEdit) \in Seq(QueuedEdits(st.nextEpoch))
  BY <1>4, FineParts, OtherEdits
<1> DEFINE S == Seq(QueuedEdits(st.nextEpoch))
           has(d) == \E e \in DOMAIN st.segments : st.segments[e].doc = d
<1> HIDE DEF S, has
<1>6. t.queue = [d \in Docs |-> IF has(d) THEN Append(st.queue[d], WriteEdit) ELSE st.queue[d]]
  BY <1>1 DEF has
<1>7. \A d \in Docs : st.queue[d] \in S /\ Append(st.queue[d], WriteEdit) \in S BY <1>4, <1>5 DEF S
<1>8. t.queue \in [Docs -> S] BY <1>6, <1>7
<1>9. t.queue \in [Docs -> Seq(QueuedEdits(st.nextEpoch))] BY <1>8 DEF S
<1> QED BY <1>1, <1>3, <1>9 DEF Fine, Typed1, t

LEMMA TypedFewer ==
  ASSUME NEW st, Typed1(st), NEW other,
         other.composition = st.composition, other.nextEpoch = st.nextEpoch,
         other.connected \in BOOLEAN,
         DOMAIN other.tracker.pending \subseteq DOMAIN st.tracker.pending,
         \A s \in DOMAIN other.tracker.pending : other.tracker.pending[s] = st.tracker.pending[s],
         DOMAIN other.segments \subseteq DOMAIN st.segments,
         \A e \in DOMAIN other.segments : other.segments[e] = st.segments[e],
         other.queue \in [Docs -> Seq(QueuedEdits(st.nextEpoch))],
         other.owed \in [Docs -> Seq(Nat)]
  PROVE  Typed1(other)
BY DEF Typed1

LEMMA FineForget ==
  ASSUME NEW st, NEW waits \in BOOLEAN, Fine(st, waits)
  PROVE  Fine([st EXCEPT !.tracker = Forget(@)], FALSE)
<1> DEFINE t == [st EXCEPT !.tracker = Forget(@)]
<1>1. /\ t.composition = st.composition /\ t.connected = st.connected
      /\ t.segments = st.segments /\ t.queue = st.queue /\ t.owed = st.owed /\ t.nextEpoch = st.nextEpoch
      /\ DOMAIN t.tracker.pending = {}
  BY DEF Forget, Fine, Good, IsState
<1> HIDE DEF t
<1>2. Typed1(t) BY <1>1, TypedFewer DEF Fine, Typed1
<1> QED BY <1>2, GoodForget, LeadsForget DEF Fine, Leads, t

LEMMA TypedTake ==
  ASSUME NEW st, NEW waits \in BOOLEAN, Fine(st, waits), NEW sequence
  PROVE  Typed1([st EXCEPT !.tracker = Take(@, sequence)])
<1> DEFINE t == [st EXCEPT !.tracker = Take(@, sequence)]
<1>1. /\ t.composition = st.composition /\ t.connected = st.connected
      /\ t.segments = st.segments /\ t.queue = st.queue /\ t.owed = st.owed /\ t.nextEpoch = st.nextEpoch
      /\ t.tracker.pending = Restrict(st.tracker.pending, DOMAIN st.tracker.pending \ {sequence})
  BY DEF Take, Fine, Good, IsState
<1> HIDE DEF t
<1>2. /\ DOMAIN t.tracker.pending \subseteq DOMAIN st.tracker.pending
      /\ \A s \in DOMAIN t.tracker.pending : t.tracker.pending[s] = st.tracker.pending[s]
  BY <1>1 DEF Restrict
<1>3. Typed1(t) BY <1>1, <1>2, TypedFewer DEF Fine, Typed1
<1> QED BY <1>3 DEF t

LEMMA FineFinishLocally ==
  ASSUME NEW st, Fine(st, FALSE)
  PROVE  Fine(FinishLocally(st), TRUE) /\ Fine(FinishLocally(st), FALSE)
BY TypedFinishLocally, GoodFinishLocally, GoodWeaker, LeadsFinishLocally DEF Fine, Leads

LEMMA FineBackendLost ==
  ASSUME NEW st, Fine(st, FALSE)
  PROVE  Fine(BackendLost(st), TRUE)
<1> DEFINE forgot == [st EXCEPT !.tracker = Forget(@)]
           lost == FinishLocally(forgot)
           t    == [lost EXCEPT !.composition.sent = NotSent]
           c    == st.composition
           edit == LostEdit(c.epoch)
<1>1. Fine(forgot, FALSE) /\ forgot.composition = c /\ forgot.nextEpoch = st.nextEpoch
  BY FineForget DEF Fine, Good, IsState
<1>2. BackendLost(st) = IF c.epoch = 0 THEN lost ELSE Run(t, c.doc, edit) BY DEF BackendLost
<1>3. Good(BackendLost(st), TRUE) /\ Sound(BackendLost(st))
  BY GoodBackendLost, LeadsBackendLost DEF Fine, Leads
<1> HIDE DEF forgot
<1>4. Fine(lost, FALSE) /\ lost.composition = c /\ lost.nextEpoch = st.nextEpoch
  BY <1>1, FineFinishLocally DEF FinishLocally, Fine, Good, IsState
<1> HIDE DEF lost
<1>5. CASE c.epoch = 0 BY <1>2, <1>3, <1>4, <1>5 DEF Fine
<1>6. CASE c.epoch # 0
  <2>1. c.epoch \in 1..(st.nextEpoch - 1) /\ c.doc \in Docs
    <3>1. CompositionTyped(c) /\ st.nextEpoch \in Nat \ {0} /\ c.epoch \in 0..(st.nextEpoch - 1)
      BY FineParts
    <3>2. c.doc \in Docs BY <1>6, <3>1 DEF CompositionTyped
    <3> HIDE DEF c
    <3> QED BY <1>6, <3>1, <3>2
  <2>2. edit \in QueuedEdits(st.nextEpoch) BY <2>1, FineParts, PlainEdits
  <2>3. /\ t.composition = [lost.composition EXCEPT !.sent = NotSent]
        /\ t.tracker = lost.tracker /\ t.segments = lost.segments /\ t.connected = lost.connected
        /\ t.queue = lost.queue /\ t.owed = lost.owed /\ t.nextEpoch = st.nextEpoch /\ DOMAIN t = DOMAIN lost
    BY <1>4 DEF Fine, Good, IsState
  <2>4. NotSent \in [revision : Nat \union {-1}, sequence : Nat]
    BY DEF NotSent
  <2> HIDE DEF t, edit
  <2>5. CompositionTyped(t.composition)
    BY <1>4, <2>3, <2>4 DEF Fine, Typed1, CompositionTyped, CompositionType
  <2>6. Typed1(t) BY <1>4, <2>3, <2>5, TypedFrame DEF Fine
  <2> DEFINE u == Run(t, c.doc, edit)
  <2>7. /\ u.composition = t.composition /\ u.tracker = t.tracker /\ u.connected = t.connected
        /\ u.segments = t.segments /\ u.owed = t.owed /\ u.nextEpoch = t.nextEpoch
        /\ u.queue = [t.queue EXCEPT ![c.doc] = Append(t.queue[c.doc], edit)]
    BY <1>4, <2>3 DEF Run, Fine, Good, IsState
  <2>8. t.queue \in [Docs -> Seq(QueuedEdits(st.nextEpoch))] BY <2>3, <2>6 DEF Typed1
  <2>9. Append(t.queue[c.doc], edit) \in Seq(QueuedEdits(st.nextEpoch)) BY <2>1, <2>2, <2>8
  <2> HIDE DEF u
  <2>10. u.queue \in [Docs -> Seq(QueuedEdits(st.nextEpoch))] BY <2>7, <2>8, <2>9
  <2>11. Typed1(u) BY <2>3, <2>6, <2>7, <2>10 DEF Typed1
  <2> QED BY <1>2, <1>3, <1>6, <2>11 DEF Fine, u
<1> QED BY <1>5, <1>6

-----------------------------------------------------------------------------
(***************************************************************************)
(* The types, step by step                                                 *)
(***************************************************************************)
\* The invariant with the types.
TInv == SInv /\ Typed1(Now)

LEMMA TypedNow == ASSUME NEW st, Typed1(st), Become(st) PROVE Typed1(Now')
BY DEF Become, Now, Typed1

LEMMA FineNow == TInv => Fine(Now, TRUE) /\ Fine(Now, FALSE)
BY NowSound, GoodWeaker DEF TInv, Fine

LEMMA FinePopped ==
  ASSUME TInv, NEW d \in Docs, queue[d] # <<>>
  PROVE  /\ Fine(Popped(d), TRUE) /\ Head(queue[d]) \in QueuedEdits(nextEpoch)
         /\ Popped(d).composition = composition /\ Popped(d).segments = segments
         /\ Popped(d).tracker = tracker /\ Popped(d).nextEpoch = nextEpoch
         /\ Popped(d).connected = connected /\ Popped(d).owed = owed
         /\ Popped(d).queue = [queue EXCEPT ![d] = Tail(queue[d])]
         /\ Tail(queue[d]) \in Seq(QueuedEdits(nextEpoch))
<1> DEFINE p == Popped(d)
<1>1. /\ p.composition = composition /\ p.segments = segments /\ p.tracker = tracker
      /\ p.nextEpoch = nextEpoch /\ p.connected = connected /\ p.owed = owed
      /\ p.queue = [queue EXCEPT ![d] = Tail(queue[d])]
  BY DEF Popped, Now
<1>2. Good(p, TRUE) /\ Sound(p) BY PoppedGood, PoppedLeads DEF TInv, SInv, Leads
<1>3. queue \in [Docs -> Seq(QueuedEdits(nextEpoch))] BY DEF TInv, Typed1, Now
<1>4. queue[d] \in Seq(QueuedEdits(nextEpoch)) BY <1>3
<1>5. Head(queue[d]) \in QueuedEdits(nextEpoch) /\ Tail(queue[d]) \in Seq(QueuedEdits(nextEpoch))
  BY <1>4
<1>6. p.queue \in [Docs -> Seq(QueuedEdits(nextEpoch))] BY <1>1, <1>3, <1>5
<1> HIDE DEF p
<1>7. Typed1(p) BY <1>1, <1>6 DEF TInv, Typed1, Now
<1> QED BY <1>1, <1>2, <1>5, <1>7 DEF Fine, p

LEMMA HeldOnce ==
  ASSUME NEW b, NEW sequence \in Nat \ {0}, NEW request, RequestOK(request),
         NEW outcome, outcome.predicted \in 0..Len(request.snapshot), NEW lock
  PROVE  LET held == HeldBack(b, sequence, request.snapshot, outcome, lock)
         IN  held \subseteq HeldType /\ \A x, y \in held : x = y
<1> DEFINE s == request.snapshot
           hit(j) == \E i \in DOMAIN b.entries :
                       b.entries[i].id = lock /\ StillSame(b.entries[i], s[j], sequence)
           item(k) == [sequence |-> sequence, asked |-> s[k], single |-> k \in outcome.singles]
           held == HeldBack(b, sequence, s, outcome, lock)
<1>1. s \in Seq(Entry) /\ Distinct(s) BY DEF RequestOK, RequestType
<1>2. held = {item(k) : k \in {j \in 1..outcome.predicted : hit(j)}} BY DEF HeldBack
<1>3. \A k \in 1..outcome.predicted : k \in DOMAIN s /\ s[k] \in Entry
  BY <1>1
<1>4. \A k \in 1..outcome.predicted : hit(k) => s[k].id = lock BY DEF StillSame
<1>5. \A k \in 1..outcome.predicted : item(k) \in HeldType BY <1>3 DEF HeldType
<1> HIDE DEF item, hit, s, held
<1>6. held \subseteq HeldType BY <1>2, <1>5
<1>7. ASSUME NEW x \in held, NEW y \in held PROVE x = y
  <2>1. PICK j \in 1..outcome.predicted : hit(j) /\ x = item(j) BY <1>2
  <2>2. PICK k \in 1..outcome.predicted : hit(k) /\ y = item(k) BY <1>2
  <2>3. j \in DOMAIN s /\ k \in DOMAIN s /\ s[j].id = s[k].id BY <1>3, <1>4, <2>1, <2>2
  <2>4. j = k BY <1>1, <2>3 DEF Distinct
  <2> QED BY <2>1, <2>2, <2>4
<1> QED BY <1>6, <1>7 DEF held, s

LEMMA EditParts ==
  ASSUME NEW next \in Nat, NEW edit \in QueuedEdits(next)
  PROVE  /\ edit.epoch \in 0..(next - 1)
         /\ edit.do \in {"open", "show", "apply", "commit", "discard", "seal", "lost"} =>
              edit.epoch \in 1..(next - 1)
         /\ edit.do \in {"erase", "write", "insert"} => edit.epoch = 0
         /\ edit.do = "apply" => RequestOK(edit.request) /\ edit.sequence \in Nat \ {0}
         /\ edit.do = "show" => edit.ended \in Seq(Letter)
         /\ edit.do = "commit" => edit.sample \subseteq SampleType
<1> DEFINE A == [do : {"open", "discard", "seal", "lost", "erase", "write", "insert"}, epoch : Nat]
           B == [do : {"show"}, epoch : Nat, ended : Seq(Letter)]
           C == [do : {"apply"}, epoch : Nat, request : RequestType, sequence : Nat,
                 outcome : OutcomeType]
           D == [do : {"commit"}, epoch : Nat, sample : SUBSET SampleType]
           F == /\ edit.epoch \in Nat /\ (edit.do = "apply" => edit.sequence \in Nat)
                /\ (edit.do = "show" => edit.ended \in Seq(Letter))
                /\ (edit.do = "commit" => edit.sample \subseteq SampleType)
<1>1. /\ edit \in EditType /\ edit.epoch < next
      /\ edit.do = "apply" => RequestOK(edit.request) /\ edit.sequence # 0
  BY DEF QueuedEdits
<1>2. edit.do \in {"erase", "write", "insert"} <=> edit.epoch = 0 BY DEF QueuedEdits
<1>3. edit \in A \/ edit \in B \/ edit \in C \/ edit \in D
  <2>1. EditType = A \union B \union C \union D BY DEF EditType
  <2> HIDE DEF A, B, C, D
  <2> QED BY <1>1, <2>1
<1>4. edit \in A => F OBVIOUS
<1>5. edit \in B => F OBVIOUS
<1>6. edit \in C => F OBVIOUS
<1>7. edit \in D => F OBVIOUS
<1>8. F BY <1>3, <1>4, <1>5, <1>6, <1>7
<1> DEFINE e == edit.epoch
           do == edit.do
<1>9. e \in Nat /\ e < next BY <1>1, <1>8
<1>91. do \in {"erase", "write", "insert"} <=> e = 0 BY <1>2
<1> HIDE DEF e, do, F
<1>10. /\ e \in 0..(next - 1)
       /\ do \in {"open", "show", "apply", "commit", "discard", "seal", "lost"} => e \in 1..(next - 1)
       /\ do \in {"erase", "write", "insert"} => e = 0
  BY <1>9, <1>91
<1> QED BY <1>1, <1>8, <1>10 DEF e, do, F

\* What is known of the composition after a change of it.
LEMMA TypedComposition ==
  ASSUME NEW st, Typed1(st), NEW other, CompositionTyped(other.composition),
         other.tracker = st.tracker, other.nextEpoch = st.nextEpoch,
         other.segments = st.segments, other.queue = st.queue,
         other.connected = st.connected, other.owed = st.owed
  PROVE  Typed1(other)
BY DEF Typed1

LEMMA ApplyTypedStep ==
  ASSUME TInv, NEW d \in Docs, RunApply(d)
  PROVE  Typed1(Now')
<1> DEFINE p == Popped(d)
           edit == Head(queue[d])
           c    == composition
           b    == Merge(c.buffer, edit.sequence, edit.request.snapshot, edit.outcome, c.lock)
           held == HeldBack(c.buffer, edit.sequence, edit.request.snapshot, edit.outcome, c.lock)
           after == [c EXCEPT
                       !.buffer = b,
                       !.held = IF held = {} \/ (\E h \in @ : h.sequence > edit.sequence)
                                THEN @ ELSE held,
                       !.converted = IF edit.request.revision = b.revision THEN b.revision ELSE @]
           live == [p EXCEPT !.composition = after]
           sealed == MergeSealed(p, edit.sequence, edit.request, edit.outcome)
<1>1. queue[d] # <<>> /\ edit.do = "apply" BY DEF RunApply, Taken, CanRun
<1>2. /\ Fine(p, TRUE) /\ edit \in QueuedEdits(nextEpoch) /\ p.composition = composition
      /\ p.nextEpoch = nextEpoch /\ p.tracker = tracker
  BY <1>1, FinePopped
<1>3. Applies(edit, tracker.asked) BY <1>1, PoppedLeads DEF TInv
<1>4. /\ Requested(edit.request, edit.sequence, tracker.asked)
      /\ edit.outcome.predicted \in 0..Len(edit.request.snapshot)
      /\ edit.epoch = edit.request.epoch
  BY <1>3 DEF Applies
<1>5. CASE ~Live(edit.epoch)
  <2>1. Become(sealed) BY <1>5 DEF RunApply, Proceed
  <2> HIDE DEF p
  <2>2. Typed1(sealed) BY <1>2, <1>4, FineMergeSealed DEF Fine
  <2> HIDE DEF sealed
  <2> QED BY <2>1, <2>2, TypedNow
<1>6. CASE Live(edit.epoch)
  <2>1. Become(live) BY <1>6 DEF RunApply, Proceed
  <2>2. CompositionTyped(c) /\ BufferOK(c.buffer) BY <1>2, FineParts
  <2>3. RequestOK(edit.request) /\ edit.sequence \in Nat \ {0}
    BY <1>2, FineParts, <1>1, EditParts
  <2>4. held \subseteq HeldType /\ \A x, y \in held : x = y BY <1>4, <2>3, HeldOnce
  <2>5. BufferOK(b)
    BY NowSound, <1>6, <1>4, <2>2, MergeFacts DEF TInv, Sound, CompositionFit, Live,
       Requested
  <2> HIDE DEF held, b
  <2>6. b \in Buffer /\ b.revision \in Nat BY <2>5, BufferParts DEF BufferOK, Buffer
  <2>7. CompositionTyped(after)
    <3> DEFINE kept == IF held = {} \/ (\E h \in c.held : h.sequence > edit.sequence) THEN c.held ELSE held
               conv == IF edit.request.revision = b.revision THEN b.revision ELSE c.converted
    <3>1. c \in CompositionType BY <2>2 DEF CompositionTyped
    <3>2. kept \subseteq HeldType /\ \A x, y \in kept : x = y
      BY <2>2, <2>4, <3>1 DEF CompositionTyped, CompositionType
    <3>3. conv \in Nat \union {-1} BY <2>6, <3>1 DEF CompositionType
    <3>4. after = [c EXCEPT !.buffer = b, !.held = kept, !.converted = conv] OBVIOUS
    <3> HIDE DEF kept, conv, after
    <3>5. after \in CompositionType BY <2>6, <3>1, <3>2, <3>3, <3>4 DEF CompositionType
    <3>6. after.epoch = c.epoch /\ after.doc = c.doc /\ after.held = kept
      BY <3>1, <3>4 DEF CompositionType
    <3> QED BY <2>2, <3>2, <3>5, <3>6 DEF CompositionTyped
  <2> HIDE DEF after, p
  <2>8. /\ live.composition = after
        /\ live.tracker = p.tracker /\ live.nextEpoch = p.nextEpoch
        /\ live.segments = p.segments /\ live.queue = p.queue
        /\ live.connected = p.connected /\ live.owed = p.owed
    BY <1>2 DEF Fine, Good, IsState
  <2> HIDE DEF live
  <2>9. Typed1(live) BY <1>2, <2>7, <2>8, TypedComposition DEF Fine
  <2> QED BY <2>1, <2>9, TypedNow
<1> QED BY <1>5, <1>6

LEMMA FineList2 ==
  ASSUME NEW st, NEW waits \in BOOLEAN, Fine(st, waits)
  PROVE  Fine(WithoutList(st), waits) /\ WithoutList(st).composition.epoch = st.composition.epoch
         /\ WithoutList(st).composition.doc = st.composition.doc
         /\ WithoutList(st).composition.buffer = st.composition.buffer
         /\ WithoutList(st).nextEpoch = st.nextEpoch /\ WithoutList(st).segments = st.segments
BY FineList DEF WithoutList, Fine, Good, IsState

LEMMA RunEditTyped ==
  ASSUME TInv, NEW d \in Docs, RunEdit(d)
  PROVE  Typed1(Now')
<1> DEFINE p == Popped(d)
           edit == Head(queue[d])
<1>0. queue[d] # <<>>
  BY DEF RunEdit, RunOpen, RunShow, RunApply, RunCommit, RunDiscard, RunSeal, RunLost, RunErase,
         RunInsert, RunWrite, Taken, CanRun
<1>1. /\ Fine(p, TRUE) /\ edit \in QueuedEdits(nextEpoch)
      /\ p.composition = composition /\ p.segments = segments /\ p.nextEpoch = nextEpoch
  BY <1>0, FinePopped
<1>2. Typed1(p) BY <1>1 DEF Fine
<1>3. ASSUME NEW st, Proceed(d, st), Typed1(st) PROVE Typed1(Now')
  BY <1>3, TypedNow DEF Proceed
<1> HIDE DEF p
<1>5. Fine(WithoutList(p), TRUE) /\ WithoutList(p).segments = segments BY <1>1, FineList2
<1>6. CASE RunOpen(d)
  BY <1>1, FineContextReady, <1>6, <1>2, <1>3 DEF Fine, RunOpen, p
<1>7. CASE RunShow(d) BY <1>2, <1>3, <1>7 DEF RunShow, p
<1>8. CASE RunApply(d) BY <1>8, ApplyTypedStep
<1>9. CASE RunCommit(d) BY <1>3, <1>5, <1>9 DEF RunCommit, p, Fine
<1>10. CASE RunDiscard(d) BY <1>3, <1>5, <1>10 DEF RunDiscard, p, Fine
<1>11. CASE RunSeal(d)
  <2> DEFINE st == WithoutList(p)
             s  == [segments[edit.epoch] EXCEPT !.placed = TRUE]
             placed == [st EXCEPT !.segments[edit.epoch] = s]
             last == WriteIfFinished(placed, edit.epoch)
  <2>1. Fine(st, TRUE) /\ st.segments = segments BY <1>5
  <2> HIDE DEF st
  <2>3. CASE edit.epoch \notin DOMAIN segments
    BY <1>3, <1>11, <2>1, <2>3 DEF RunSeal, st, p, Fine
  <2>4. CASE edit.epoch \in DOMAIN segments
    <3>0. segments[edit.epoch] \in SegmentType BY <2>1, <2>4 DEF Fine, Typed1
    <3>1. /\ s \in SegmentType /\ s.buffer = segments[edit.epoch].buffer
          /\ s.stage = segments[edit.epoch].stage /\ s.awaited = segments[edit.epoch].awaited
      BY <3>0 DEF SegmentType
    <3>2. placed = [st EXCEPT !.segments[edit.epoch].placed = TRUE] BY <2>1
    <3> HIDE DEF s
    <3>3. Fine(placed, TRUE) BY <2>1, <2>4, <3>1, FineStage
    <3>4. edit.epoch \in DOMAIN placed.segments BY <2>1, <2>4 DEF Fine, Good, IsState
    <3> HIDE DEF placed
    <3>5. Proceed(d, last) BY <1>11, <2>4, <3>2 DEF RunSeal, st, p
    <3>6. Typed1(last) BY <3>3, <3>4, FineWrite DEF Fine
    <3> HIDE DEF last
    <3> QED BY <1>3, <3>5, <3>6
  <2> QED BY <2>3, <2>4
<1>12. CASE RunLost(d)
  <2> DEFINE b == AcceptLocalCandidates(composition.buffer)
             lost == [p EXCEPT !.composition.converted = b.revision, !.composition.buffer = b]
  <2>1. CASE Live(edit.epoch)
    <3>1. Proceed(d, lost) BY <1>12, <2>1 DEF RunLost, p
    <3>2. CompositionTyped(composition) /\ BufferOK(composition.buffer) BY <1>1, FineParts
    <3>3. b \in Buffer /\ b.revision \in Nat BY <3>2, AcceptLocalType DEF Buffer
    <3> HIDE DEF b
    <3>4. /\ lost.composition = [composition EXCEPT !.converted = b.revision, !.buffer = b]
          /\ lost.tracker = p.tracker /\ lost.nextEpoch = p.nextEpoch
          /\ lost.segments = p.segments /\ lost.queue = p.queue
          /\ lost.connected = p.connected /\ lost.owed = p.owed
      BY <1>1 DEF Fine, Good, IsState
    <3> HIDE DEF lost
    <3>5. CompositionTyped(lost.composition)
      BY <3>2, <3>3, <3>4 DEF CompositionTyped, CompositionType
    <3>6. Typed1(lost) BY <1>2, <3>4, <3>5, TypedComposition
    <3> QED BY <1>3, <3>1, <3>6
  <2>2. CASE ~Live(edit.epoch)
    BY <1>12, <2>2, <1>2, <1>3 DEF RunLost, p
  <2> QED BY <2>1, <2>2
<1>13. CASE RunErase(d)
  <2>1. CASE Proceed(d, p) BY <1>2, <1>3, <2>1
  <2>2. ASSUME NEW e \in SegmentsOf(d),
               Proceed(d, WriteIfFinished([p EXCEPT !.segments[e] = EraseLast(@)], e))
        PROVE  Typed1(Now')
    <3> DEFINE s == EraseLast(segments[e])
               t == [p EXCEPT !.segments[e] = s]
               last == WriteIfFinished(t, e)
    <3>1. e \in DOMAIN segments /\ segments[e] \in SegmentType
      BY <1>1 DEF SegmentsOf, Fine, Typed1
    <3>3. /\ s \in SegmentType /\ s.buffer = segments[e].buffer
          /\ s.stage = "converting" =>
               segments[e].stage = "converting" /\ s.awaited = segments[e].awaited
      <4> DEFINE r == segments[e]
                 stage == IF r.erased + 1 >= Length(r) THEN "finished" ELSE r.stage
      <4>1. s = [r EXCEPT !.erased = r.erased + 1, !.stage = stage] BY DEF EraseLast
      <4>2. r \in SegmentType /\ r.erased + 1 \in Nat /\ stage \in {"context", "converting", "finished"}
        BY <3>1, SegmentParts
      <4>3. stage = "converting" => r.stage = "converting" OBVIOUS
      <4> HIDE DEF r, stage, s
      <4> QED BY <4>1, <4>2, <4>3 DEF SegmentType, r
    <3>4. Proceed(d, last) BY <1>1, <2>2
    <3> HIDE DEF s
    <3>5. Fine(t, TRUE) BY <1>1, <3>1, <3>3, FineStage
    <3>6. e \in DOMAIN t.segments BY <1>1, <3>1 DEF Fine, Good, IsState
    <3> HIDE DEF t
    <3>7. Typed1(last) BY <3>5, <3>6, FineWrite DEF Fine
    <3> HIDE DEF last
    <3> QED BY <1>3, <3>4, <3>7
  <2> QED BY <1>13, <2>1, <2>2 DEF RunErase, Erasable, p
<1>14. CASE RunInsert(d) BY <1>2, <1>3, <1>14 DEF RunInsert, p
<1>15. CASE RunWrite(d)
  <2>1. CASE Proceed(d, p) BY <1>2, <1>3, <2>1
  <2>2. ASSUME NEW e, Proceed(d, [Now EXCEPT !.segments = Restrict(@, DOMAIN segments \ {e})])
        PROVE  Typed1(Now')
    <3> DEFINE other == [Now EXCEPT !.segments = Restrict(@, DOMAIN segments \ {e})]
               S == DOMAIN segments \ {e}
    <3>0. Typed1(Now) BY DEF TInv
    <3>1. /\ other.segments = Restrict(segments, S)
          /\ other.tracker = Now.tracker /\ other.nextEpoch = Now.nextEpoch
          /\ other.composition = Now.composition /\ Now.segments = segments
          /\ other.queue = Now.queue /\ other.owed = Now.owed /\ other.connected = Now.connected
      BY DEF Now
    <3> HIDE DEF other
    <3>4. DOMAIN other.segments = S /\ \A k \in S : other.segments[k] = segments[k]
      BY <3>1 DEF Restrict
    <3>5. Typed1(other) BY <3>0, <3>1, <3>4 DEF Typed1
    <3> QED BY <1>3, <2>2, <3>5 DEF other
  <2> QED BY <1>15, <2>1, <2>2 DEF RunWrite, p
<1> QED
  BY <1>6, <1>7, <1>8, <1>9, <1>10, <1>11, <1>12, <1>13, <1>14, <1>15 DEF RunEdit

\* The states in which a key finds the composition.
LEMMA FineUnlisted ==
  ASSUME TInv, NEW d \in Docs
  PROVE  LET n == WithoutList(Now)
             open == Open(n, d)
         IN  /\ Fine(Now, TRUE) /\ Now.composition = composition
             /\ Fine(n, TRUE) /\ n.composition.epoch = composition.epoch
             /\ n.composition.buffer = composition.buffer
             /\ Fine(open, TRUE) /\ open.composition.epoch # 0
<1> DEFINE n == WithoutList(Now)
<1>1. Fine(Now, TRUE) /\ Now.composition = composition BY FineNow DEF Now
<1>2. /\ Fine(n, TRUE) /\ n.composition.epoch = composition.epoch
      /\ n.composition.buffer = composition.buffer
  BY <1>1, FineList2
<1> HIDE DEF n
<1>3. Fine(Open(n, d), TRUE) /\ Open(n, d).composition.epoch # 0 BY <1>2, FineOpen
<1> QED BY <1>1, <1>2, <1>3 DEF n

LEMMA TypingTyped ==
  ASSUME TInv, NEW d \in Docs, Typing(d)
  PROVE  Typed1(Now')
<1> DEFINE n == WithoutList(Now)
           open == Open(n, d)
           without == DiscardReading(n)
           again == Open(without, d)
<1>0. /\ Fine(Now, TRUE) /\ Now.composition = composition
      /\ Fine(n, TRUE) /\ n.composition.epoch = composition.epoch
      /\ n.composition.buffer = composition.buffer
      /\ Fine(open, TRUE) /\ open.composition.epoch # 0
  BY FineUnlisted
<1>00. Owns(d) => composition.epoch # 0 BY DEF Owns, Active
<1>000. BufferOK(composition.buffer) BY <1>0, FineParts
<1>A. ASSUME NEW st, Handled(d, st), Typed1(st) PROVE Typed1(Now')
  BY <1>A, TypedNow DEF Handled
<1>B. ASSUME NEW st, Fine(st, TRUE), st.composition.epoch # 0, NEW b,
             Edited(st.composition.buffer, b), Handled(d, Update(WithBuffer(st, b)))
      PROVE  Typed1(Now')
  BY <1>A, <1>B, FineEdited DEF Fine
<1>C. ASSUME composition.epoch # 0 PROVE Fine(without, TRUE)
  <2> HIDE DEF n
  <2> QED BY <1>0, <1>C, FineDiscardReading
<1>1. ASSUME NEW key \in Keys, TypeReading(d, key) PROVE Typed1(Now')
  <2>1. Handled(d, Update(WithBuffer(open, Add(open.composition.buffer, key))))
    BY <1>1 DEF TypeReading, Composed
  <2> HIDE DEF n, open
  <2>2. Edited(open.composition.buffer, Add(open.composition.buffer, key))
    BY <1>0, FineParts, AddEdited
  <2> QED BY <1>0, <1>B, <2>1, <2>2
<1>2. CASE TypeText(d)
  <2>1. Handled(d, Update(WithBuffer(open, AddChosenCandidate(open.composition.buffer))))
    BY <1>2 DEF TypeText, Composed
  <2> HIDE DEF n, open
  <2>2. Edited(open.composition.buffer, AddChosenCandidate(open.composition.buffer))
    BY <1>0, FineParts, AddChosenEdited
  <2> QED BY <1>0, <1>B, <2>1, <2>2
<1>3. CASE ComposeEnglish(d)
  <2>1. Handled(d, Update(WithBuffer(again, AddChosenCandidate(again.composition.buffer))))
        /\ composition.epoch # 0
    BY <1>00, <1>3 DEF ComposeEnglish, Composed
  <2> HIDE DEF n, without
  <2>2. Fine(again, TRUE) /\ again.composition.epoch # 0 BY <1>C, <2>1, FineOpen
  <2> HIDE DEF again
  <2>3. Edited(again.composition.buffer, AddChosenCandidate(again.composition.buffer))
    BY <2>2, FineParts, AddChosenEdited
  <2> QED BY <1>B, <2>1, <2>2, <2>3
<1>4. CASE Shift(d)
  <2>1. Become(without) /\ composition.epoch # 0 BY <1>00, <1>4 DEF Shift
  <2> HIDE DEF n, without
  <2> QED BY <1>C, <2>1, TypedNow DEF Fine
<1>5. CASE Backspace(d)
  <2>1. /\ Handled(d, Update(WithBuffer(n, RemoveLast(composition.buffer))))
        /\ OnEntry(composition.buffer) /\ composition.epoch # 0
    BY <1>00, <1>5 DEF Backspace
  <2> HIDE DEF n
  <2>2. Edited(composition.buffer, RemoveLast(composition.buffer))
    BY <1>000, <2>1, RemoveLastEdited
  <2> QED BY <1>0, <1>B, <2>1, <2>2
<1>6. ASSUME NEW forward \in BOOLEAN, NEW toEdge \in BOOLEAN, MoveCaret(d, forward, toEdge)
      PROVE  Typed1(Now')
  <2> DEFINE b == Move(composition.buffer, forward, toEdge)
             moved == WithBuffer(Now, b)
  <2>1. Handled(d, ShowAgain(moved)) BY <1>6 DEF MoveCaret
  <2>2. composition.epoch # 0 /\ CanMove(composition.buffer, forward)
    BY <1>00, <1>6 DEF MoveCaret
  <2>3. Edited(composition.buffer, b) BY <1>000, <2>2, MoveEdited
  <2> HIDE DEF b
  <2>4. Fine(moved, TRUE) BY <1>0, <2>2, <2>3, FineBuffer
  <2>5. moved.composition.epoch # 0 BY <1>0, <2>2 DEF Fine, Good, IsState, WithBuffer
  <2> HIDE DEF moved
  <2>6. Typed1(ShowAgain(moved)) BY <2>4, <2>5, FineShow DEF Fine
  <2> QED BY <1>A, <2>1, <2>6
<1>7. CASE Enter(d)
  BY <1>00, <1>7, <1>0, FineCommit, <1>A, FineRequest, FineSeal DEF Enter, Fine
<1>8. CASE Escape(d)
  BY <1>00, <1>8, <1>0, FineDiscard, <1>A DEF Escape, Fine
<1>9. ASSUME NEW chars \in Seq(Nat), NEW edit \in QueuedEdits(nextEpoch),
             Handled(d, Run([Now EXCEPT !.owed[d] = chars], d, edit))
      PROVE  Typed1(Now')
  <2> DEFINE st == [Now EXCEPT !.owed[d] = chars]
             last == Run(st, d, edit)
  <2>1. Typed1(Now) BY <1>0 DEF Fine
  <2>2. /\ st.composition = composition /\ st.tracker = tracker
        /\ st.nextEpoch = nextEpoch /\ st.segments = segments /\ st.queue = queue
        /\ st.connected = connected /\ st.owed = [owed EXCEPT ![d] = chars]
        /\ DOMAIN st = {"composition", "nextEpoch", "tracker", "segments", "connected", "queue", "owed"}
    BY DEF Now
  <2> HIDE DEF st
  <2>3. /\ last.composition = composition /\ last.tracker = tracker
        /\ last.nextEpoch = nextEpoch /\ last.segments = segments
        /\ last.queue = [queue EXCEPT ![d] = Append(queue[d], edit)]
        /\ last.connected = connected /\ last.owed = [owed EXCEPT ![d] = chars]
    BY <2>2 DEF Run
  <2> HIDE DEF last
  <2>4. /\ queue \in [Docs -> Seq(QueuedEdits(nextEpoch))] /\ owed \in [Docs -> Seq(Nat)]
    BY <2>1 DEF Typed1, Now
  <2>5. Append(queue[d], edit) \in Seq(QueuedEdits(nextEpoch)) BY <2>4
  <2>6. /\ [queue EXCEPT ![d] = Append(queue[d], edit)] \in [Docs -> Seq(QueuedEdits(nextEpoch))]
        /\ [owed EXCEPT ![d] = chars] \in [Docs -> Seq(Nat)]
    BY <2>4, <2>5
  <2>7. Typed1(last) BY <2>1, <2>3, <2>6 DEF Typed1, Now
  <2> QED BY <1>9, <1>A, <2>7 DEF last, st
<1>90. /\ owed[d] \in Seq(Nat) /\ EraseEdit \in QueuedEdits(nextEpoch)
       /\ InsertEdit \in QueuedEdits(nextEpoch)
  <2>1. owed \in [Docs -> Seq(Nat)] BY <1>0 DEF Fine, Typed1, Now
  <2>2. Now.nextEpoch \in Nat \ {0} BY <1>0, FineParts
  <2>3. nextEpoch \in Nat \ {0} BY <2>2 DEF Now
  <2> QED BY <2>1, <2>3, OtherEdits
<1>10. CASE BackspaceInOrder(d)
  <2>1. Handled(d, Run([Now EXCEPT !.owed[d] = Front(owed[d])], d, EraseEdit)) /\ owed[d] # <<>>
    BY <1>10 DEF BackspaceInOrder, Now
  <2>2. Front(owed[d]) \in Seq(Nat) BY <1>90, <2>1 DEF Front
  <2> QED BY <1>9, <1>90, <2>1, <2>2
<1>11. CASE InsertText(d)
  <2>1. Handled(d, Run([Now EXCEPT !.owed[d] = Append(owed[d], 0)], d, InsertEdit))
    BY <1>11 DEF InsertText, Now
  <2>2. Append(owed[d], 0) \in Seq(Nat) BY <1>90
  <2> QED BY <1>9, <1>90, <2>1, <2>2
<1> QED
  BY <1>1, <1>2, <1>3, <1>4, <1>5, <1>6, <1>7, <1>8, <1>10, <1>11 DEF Typing

LEMMA ChoosingTyped ==
  ASSUME TInv, NEW d \in Docs, Choosing(d)
  PROVE  Typed1(Now')
<1> DEFINE n == WithoutList(Now)
<1>0. /\ Fine(Now, TRUE) /\ Now.composition = composition
      /\ Fine(n, TRUE) /\ n.composition.epoch = composition.epoch
      /\ n.composition.buffer = composition.buffer
  BY FineUnlisted
<1>00. Owns(d) => composition.epoch # 0 BY DEF Owns, Active
<1>000. BufferOK(composition.buffer) BY <1>0, FineParts
<1>1. CASE OpenCandidates(d)
  <2> DEFINE b  == composition.buffer
             id == CandidateTarget(b).id
             st == [Now EXCEPT !.composition.list = TRUE, !.composition.lock = id]
  <2>1. Handled(d, st) /\ HasCandidateList(b, immediate) BY <1>1 DEF OpenCandidates
  <2>2. b.entries \in Seq(Entry) /\ b.caret \in 0..Len(b.entries) /\ ~IsEmpty(b)
    BY <1>000, <2>1, BufferParts DEF HasCandidateList
  <2>3. CandidateTarget(b) \in Entry
    <3> DEFINE s == b.entries  c == b.caret
    <3>1. s \in Seq(Entry) /\ c \in 0..Len(s) /\ s # <<>> BY <2>2 DEF IsEmpty
    <3>2. CandidateTarget(b) = IF c < Len(s) THEN s[c + 1] ELSE s[c]
      BY DEF CandidateTarget, Current
    <3> HIDE DEF s, c
    <3>3. Len(s) \in Nat /\ Len(s) # 0 /\ DOMAIN s = 1..Len(s) BY <3>1
    <3>4. CASE c < Len(s)
      BY <3>1, <3>3, <3>4, <3>2
    <3>5. CASE ~(c < Len(s))
      BY <3>1, <3>3, <3>5, <3>2
    <3> QED BY <3>4, <3>5
  <2>4. id \in Nat BY <2>3 DEF Entry
  <2> HIDE DEF id
  <2>5. /\ st.composition = [composition EXCEPT !.list = TRUE, !.lock = id]
        /\ st.tracker = Now.tracker /\ st.nextEpoch = Now.nextEpoch
        /\ st.segments = Now.segments /\ st.queue = Now.queue
        /\ st.connected = Now.connected /\ st.owed = Now.owed
    BY DEF Now
  <2> HIDE DEF st
  <2>6. CompositionTyped(composition) BY <1>0, FineParts
  <2>7. CompositionTyped(st.composition)
    BY <2>4, <2>5, <2>6 DEF CompositionTyped, CompositionType
  <2>8. Typed1(st) BY <1>0, <2>5, <2>7, TypedComposition DEF Fine
  <2> QED BY <2>1, <2>8, TypedNow DEF Handled
<1>2. ASSUME NEW b, Edited(composition.buffer, b), Handled(d, Finalized(b)), composition.epoch # 0
      PROVE  Typed1(Now')
  <2>1. BufferOK(b) BY <1>2 DEF Edited
  <2>2. Edited(b, StepForward(b)) BY <2>1, StepForwardEdited
  <2>3. Edited(composition.buffer, StepForward(b)) BY <1>2, <1>000, <2>2, EditedThen
  <2>4. Handled(d, Update(WithBuffer(n, StepForward(b)))) BY <1>2 DEF Finalized
  <2> HIDE DEF n
  <2>5. Typed1(Update(WithBuffer(n, StepForward(b)))) BY <1>0, <1>2, <2>3, FineEdited DEF Fine
  <2> QED BY <2>4, <2>5, TypedNow DEF Handled
<1>3. CASE Choose(d)
  <2>1. PICK literal \in BOOLEAN :
          Handled(d, Finalized(SelectCandidate(composition.buffer, composition.lock, literal)))
    BY <1>3 DEF Choose
  <2>2. composition.epoch # 0 BY <1>00, <1>3 DEF Choose
  <2>3. Edited(composition.buffer, SelectCandidate(composition.buffer, composition.lock, literal))
    BY <1>000, SelectEdited
  <2> QED BY <1>2, <2>1, <2>2, <2>3
<1>4. CASE ChooseReading(d)
  <2>1. PICK withTone \in BOOLEAN :
          Handled(d, Finalized(SelectReading(composition.buffer, composition.lock, withTone)))
    BY <1>4 DEF ChooseReading
  <2>2. composition.epoch # 0 /\ CanSelectReading(composition.buffer, composition.lock)
    BY <1>00, <1>4 DEF ChooseReading
  <2>3. Edited(composition.buffer, SelectReading(composition.buffer, composition.lock, withTone))
    BY <1>000, <2>2, SelectReadingEdited
  <2> QED BY <1>2, <2>1, <2>2, <2>3
<1>5. CASE CloseCandidates(d)
  BY <1>5, <1>0, TypedNow DEF CloseCandidates, Handled, Fine
<1> QED BY <1>1, <1>3, <1>4, <1>5 DEF Choosing

LEMMA AfterKeyTyped ==
  ASSUME TInv, AfterKey
  PROVE  Typed1(Now')
<1> DEFINE c  == composition
           h  == CHOOSE h \in c.held : TRUE
           b  == IF c.held = {} THEN c.buffer ELSE MergeHeld(c.buffer, h)
           after == [c EXCEPT !.lock = 0, !.held = {}, !.buffer = b]
           st == [Now EXCEPT !.composition = after]
<1>0. Fine(Now, TRUE) /\ Now.composition = c BY FineNow DEF Now
<1>1. IF b = c.buffer THEN Become(st) ELSE Become(ShowAgain(st)) BY DEF AfterKey
<1>2. CompositionTyped(c) /\ BufferOK(c.buffer) BY <1>0, FineParts
<1>3. CompositionFit(c, tracker.asked) BY NowSound DEF TInv, Sound
<1>4. BufferOK(b)
  <2>1. CASE c.held = {} BY <1>2, <2>1
  <2>2. CASE c.held # {}
    <3> DEFINE outcome == [predicted |-> 1, singles |-> IF h.single THEN {1} ELSE {}]
               request == <<h.asked>>
    <3>1. h \in c.held BY <2>2
    <3>2. b = Merge(c.buffer, h.sequence, request, outcome, 0) BY <2>2 DEF MergeHeld
    <3> HIDE DEF h, b
    <3>3. h.sequence \in Nat /\ Asked(h.sequence, c.epoch, h.asked) \in tracker.asked
          /\ BufferOK(c.buffer) /\ Known(c.buffer, c.epoch, tracker.asked)
      BY <1>3, <3>1 DEF CompositionFit
    <3>4. \A k \in 1..outcome.predicted : Asked(h.sequence, c.epoch, request[k]) \in tracker.asked
      <4>1. outcome.predicted = 1 /\ request[1] = h.asked OBVIOUS
      <4>2. \A k \in 1..1 : k = 1 OBVIOUS
      <4> HIDE DEF outcome, request
      <4> QED BY <3>3, <4>1, <4>2
    <3> HIDE DEF outcome, request
    <3> QED BY <3>2, <3>3, <3>4, MergeFacts
  <2> QED BY <2>1, <2>2
<1> HIDE DEF b, h
<1>5. b \in Buffer BY <1>4 DEF BufferOK
<1>6. c \in CompositionType BY <1>2 DEF CompositionTyped
<1>7. /\ after \in CompositionType /\ after.epoch = c.epoch /\ after.doc = c.doc /\ after.held = {}
      /\ after.buffer = b
  BY <1>5, <1>6 DEF CompositionType
<1>8. CompositionTyped(after) BY <1>2, <1>7 DEF CompositionTyped
<1> HIDE DEF after
<1>9. /\ st.composition = after
      /\ st.tracker = Now.tracker /\ st.nextEpoch = Now.nextEpoch
      /\ st.segments = Now.segments /\ st.queue = Now.queue
      /\ st.connected = Now.connected /\ st.owed = Now.owed
      /\ DOMAIN st = {"composition", "nextEpoch", "tracker", "segments", "connected", "queue", "owed"}
  BY DEF Now
<1> HIDE DEF st
<1>10. Typed1(st) BY <1>0, <1>8, <1>9, TypedComposition DEF Fine
<1>11. CASE b = c.buffer BY <1>1, <1>10, <1>11, TypedNow
<1>12. CASE b # c.buffer
  <2>1. c.held # {} BY <1>12 DEF b
  <2>2. c.epoch # 0 BY <1>3, <2>1 DEF CompositionFit
  <2>3. c.doc \in Docs /\ c.epoch \in 1..(nextEpoch - 1)
    <3>1. Now.composition.epoch \in 0..(Now.nextEpoch - 1) /\ Now.nextEpoch \in Nat
      BY <1>0, FineParts
    <3>2. Now.nextEpoch = nextEpoch BY DEF Now
    <3> QED BY <1>0, <1>2, <2>2, <3>1, <3>2 DEF CompositionTyped
  <2> DEFINE edit == ShowEdit(after)
             last == ShowAgain(st)
  <2>4. edit \in QueuedEdits(nextEpoch)
    <3>1. after.buffer.entries \in Seq(Entry) BY <1>5, <1>7 DEF Buffer
    <3>2. Now.nextEpoch \in Nat /\ Now.nextEpoch = nextEpoch BY <1>0, FineParts DEF Now
    <3> QED BY <1>7, <2>3, <3>1, <3>2, ShowTyped
  <2> HIDE DEF edit
  <2>5. /\ last.composition = after /\ last.tracker = st.tracker /\ last.nextEpoch = st.nextEpoch
        /\ last.segments = st.segments /\ last.connected = st.connected /\ last.owed = st.owed
        /\ last.queue = [st.queue EXCEPT ![c.doc] = Append(st.queue[c.doc], edit)]
    BY <1>7, <1>9 DEF ShowAgain, Run, edit
  <2> HIDE DEF last
  <2>6. st.queue \in [Docs -> Seq(QueuedEdits(nextEpoch))] /\ st.nextEpoch = nextEpoch
    BY <1>9, <1>10 DEF Typed1, Now
  <2>7. Append(st.queue[c.doc], edit) \in Seq(QueuedEdits(nextEpoch)) BY <2>3, <2>4, <2>6
  <2>8. last.queue \in [Docs -> Seq(QueuedEdits(nextEpoch))] BY <2>5, <2>6, <2>7
  <2>9. Typed1(last) BY <1>9, <1>10, <2>5, <2>6, <2>8 DEF Typed1
  <2> QED BY <1>1, <1>12, <2>9, TypedNow DEF last
<1> QED BY <1>11, <1>12

LEMMA UnchangedTyped ==
  ASSUME TInv, UNCHANGED controller
  PROVE  Typed1(Now')
BY DEF Now, controller, TInv

LEMMA HostTyped ==
  ASSUME TInv, NEW d \in Docs, Host(d)
  PROVE  Typed1(Now')
<1>0. Fine(Now, TRUE) BY FineNow
<1>1. CASE LeaveOtherDocument(d)
  BY <1>1, <1>0, FineList, FineSeal, TypedNow DEF LeaveOtherDocument, Fine
<1>2. CASE CloseDocument(d)
  <2> DEFINE left == IF Owns(d) THEN WithoutComposition(Now) ELSE Now
             S  == DOMAIN segments \ SegmentsOf(d)
             st == [left EXCEPT !.segments = Restrict(@, S), !.queue[d] = <<>>, !.owed[d] = <<>>]
  <2>1. Become(st) BY <1>2 DEF CloseDocument
  <2>2. Fine(left, TRUE) BY <1>0, FineNone
  <2>3. /\ left.segments = segments /\ left.tracker = tracker /\ left.queue = queue
        /\ left.owed = owed /\ left.connected = connected /\ left.nextEpoch = nextEpoch
    BY DEF WithoutComposition, Now
  <2> HIDE DEF left
  <2>4. /\ st.composition = left.composition
        /\ st.tracker = tracker /\ st.nextEpoch = nextEpoch /\ st.connected = connected
        /\ st.segments = Restrict(segments, S)
        /\ st.queue = [queue EXCEPT ![d] = <<>>] /\ st.owed = [owed EXCEPT ![d] = <<>>]
    BY <2>2, <2>3 DEF Fine, Good, IsState
  <2> HIDE DEF st
  <2>5. DOMAIN st.segments = S /\ \A k \in S : st.segments[k] = segments[k]
    BY <2>4 DEF Restrict
  <2>6. /\ queue \in [Docs -> Seq(QueuedEdits(nextEpoch))] /\ owed \in [Docs -> Seq(Nat)]
    BY <2>2, <2>3 DEF Fine, Typed1
  <2>7. <<>> \in Seq(QueuedEdits(nextEpoch)) /\ <<>> \in Seq(Nat) OBVIOUS
  <2>8. /\ st.queue \in [Docs -> Seq(QueuedEdits(nextEpoch))] /\ st.owed \in [Docs -> Seq(Nat)]
    BY <2>4, <2>6, <2>7
  <2>9. Typed1(st) BY <2>2, <2>3, <2>4, <2>5, <2>8 DEF Fine, Typed1
  <2> QED BY <2>1, <2>9, TypedNow
<1>3. CASE \E epoch \in ranges : UserEdits(d, epoch) BY <1>3, UnchangedTyped DEF UserEdits
<1> QED BY <1>1, <1>2, <1>3 DEF Host

LEMMA ServiceTyped ==
  ASSUME TInv, ChangeSetting \/ Terminate \/ EndTermination \/ Deactivate \/ Stop
  PROVE  Typed1(Now')
<1>0. Fine(Now, TRUE) /\ Fine(Now, FALSE) BY FineNow
<1>1. CASE ChangeSetting BY <1>1, UnchangedTyped DEF ChangeSetting
<1>2. CASE Terminate
  <2> DEFINE n == WithoutList(Now)
  <2>1. Fine(n, TRUE) /\ n.composition.epoch = composition.epoch
    BY <1>0, FineList2 DEF Now
  <2>2. (Become(Seal(DiscardReading(n))) /\ composition.epoch # 0) \/ Become(n)
    BY <1>2 DEF Terminate, Owns, Active
  <2> HIDE DEF n
  <2>3. CASE Become(n) BY <2>1, <2>3, TypedNow DEF Fine
  <2>4. CASE Become(Seal(DiscardReading(n))) /\ composition.epoch # 0
    BY <2>1, <2>4, FineDiscardReading, FineSeal, TypedNow DEF Fine
  <2> QED BY <2>2, <2>3, <2>4
<1>3. CASE EndTermination BY <1>3, UnchangedTyped DEF EndTermination
<1>4. CASE Deactivate
  <2> DEFINE forgotten == [Now EXCEPT !.tracker = Forget(@)]
             st == [Now EXCEPT !.connected = FALSE, !.tracker = Forget(@)]
             last == FinishLocally(Seal(WithoutList(st)))
  <2>0. Become(last) BY <1>4 DEF Deactivate
  <2>1. Fine(forgotten, FALSE) BY <1>0, FineForget
  <2>2. /\ DOMAIN st = DOMAIN forgotten /\ st.composition = forgotten.composition
        /\ st.tracker = forgotten.tracker /\ st.nextEpoch = forgotten.nextEpoch
        /\ st.segments = forgotten.segments /\ st.queue = forgotten.queue
        /\ st.owed = forgotten.owed /\ st.connected = FALSE
    BY DEF Now
  <2> HIDE DEF forgotten, st
  <2>3. IsState(st) BY <2>1, <2>2 DEF Fine, Good, IsState
  <2>4. Good(st, FALSE) /\ Leads(forgotten, st)
    BY <2>1, <2>2, <2>3, GoodFrame, LeadsFrame DEF Fine
  <2>5. Fine(st, FALSE) BY <2>1, <2>2, <2>4 DEF Fine, Leads, Typed1
  <2>6. Fine(Seal(WithoutList(st)), FALSE) BY <2>5, FineList, FineSeal
  <2>7. Typed1(last) BY <2>6, TypedFinishLocally
  <2> HIDE DEF last
  <2> QED BY <2>0, <2>7, TypedNow
<1>5. CASE Stop
  <2> DEFINE n  == WithoutComposition(Now)
             none == [d \in Docs |-> <<>>]
             st == [n EXCEPT !.queue = none]
  <2>0. Become(st) BY <1>5 DEF Stop
  <2>1. Fine(n, TRUE) BY <1>0, FineNone
  <2> HIDE DEF n
  <2>2. none \in [Docs -> Seq(QueuedEdits(n.nextEpoch))]
    OBVIOUS
  <2> HIDE DEF none
  <2>3. /\ st.composition = n.composition /\ st.connected = n.connected
        /\ st.tracker = n.tracker /\ st.nextEpoch = n.nextEpoch
        /\ st.segments = n.segments /\ st.queue = none /\ st.owed = n.owed
    BY <2>1 DEF Fine, Good, IsState
  <2> HIDE DEF st
  <2>4. Typed1(st) BY <2>1, <2>2, <2>3 DEF Fine, Typed1
  <2> QED BY <2>0, <2>4, TypedNow
<1> QED BY <1>1, <1>2, <1>3, <1>4, <1>5

LEMMA BackendTyped ==
  ASSUME TInv, NEW sequence \in DOMAIN tracker.pending, Backend(sequence)
  PROVE  Typed1(Now')
<1> DEFINE taken == [Now EXCEPT !.tracker = Take(@, sequence)]
           request == tracker.pending[sequence]
<1>0. Fine(Now, TRUE) /\ Fine(Now, FALSE) /\ Now.tracker = tracker /\ Now.nextEpoch = nextEpoch
  BY FineNow DEF Now
<1>1. Good(taken, FALSE) BY <1>0, GoodTake DEF Fine
<1>2. /\ Leads(Now, taken) /\ taken.tracker.asked = tracker.asked /\ taken.nextEpoch = nextEpoch
  BY <1>0, LeadsTake DEF Fine, Now
<1>3. Typed1(taken) BY <1>0, TypedTake
<1>4. Fine(taken, FALSE) BY <1>1, <1>2, <1>3 DEF Fine, Leads
<1>5. Requested(request, sequence, tracker.asked) /\ RequestOK(request)
  BY <1>0 DEF Fine, Sound, PendingFit, Typed1
<1>6. sequence \in Nat \ {0}
  BY <1>0 DEF Fine, Good, Counted, Numbered
<1>7. CASE Answer(sequence)
  <2>1. PICK outcome \in Outcomes(request.snapshot) :
          Become(IF Live(request.epoch)
                 THEN Run(taken, request.doc, ApplyEdit(request, sequence, outcome))
                 ELSE MergeSealed(taken, sequence, request, outcome))
    BY <1>7 DEF Answer
  <2>2. outcome \in OutcomeType /\ outcome.predicted \in 0..Len(request.snapshot)
    <3>1. Len(request.snapshot) \in Nat BY <1>5 DEF Requested
    <3>2. PICK n \in 0..Len(request.snapshot) :
            outcome \in {[predicted |-> n, singles |-> S] :
                           S \in SUBSET {k \in 1..n : ~IsChosen(request.snapshot[k])}}
      BY DEF Outcomes
    <3>3. PICK S \in SUBSET {k \in 1..n : ~IsChosen(request.snapshot[k])} :
            outcome = [predicted |-> n, singles |-> S]
      BY <3>2
    <3>4. n \in Nat /\ 1..n \subseteq Nat BY <3>1
    <3>5. S \subseteq Nat BY <3>4
    <3> QED BY <3>3, <3>4, <3>5 DEF OutcomeType
  <2>3. CASE Live(request.epoch)
    <3> DEFINE edit == ApplyEdit(request, sequence, outcome)
               last == Run(taken, request.doc, edit)
    <3>1. Become(last) BY <2>1, <2>3
    <3>2. request.epoch \in 1..(nextEpoch - 1)
      <4>1. composition.epoch \in 0..(nextEpoch - 1) /\ nextEpoch \in Nat
        BY <1>0, FineParts DEF Now
      <4> QED BY <2>3, <4>1 DEF Live, Active
    <3>3. edit \in QueuedEdits(nextEpoch)
      <4>1. request \in RequestType BY <1>5 DEF RequestOK
      <4>2. edit \in [do : {"apply"}, epoch : Nat, request : RequestType, sequence : Nat,
                      outcome : OutcomeType]
        BY <1>6, <2>2, <3>2, <4>1 DEF ApplyEdit
      <4>3. edit \in EditType BY <4>2 DEF EditType
      <4>4. /\ edit.do = "apply" /\ edit.epoch = request.epoch /\ edit.request = request
            /\ edit.sequence = sequence
        BY DEF ApplyEdit
      <4> HIDE DEF edit
      <4>5. edit.epoch < nextEpoch /\ edit.epoch # 0
        <5>1. nextEpoch \in Nat BY <1>0, FineParts DEF Now
        <5> QED BY <3>2, <4>4, <5>1
      <4> QED BY <1>5, <1>6, <4>3, <4>4, <4>5 DEF QueuedEdits
    <3>4. request.doc \in Docs BY <1>5 DEF RequestOK, RequestType
    <3> HIDE DEF edit, taken
    <3>5. Typed1(last) BY <1>2, <1>4, <3>3, <3>4, TypedRun DEF Fine
    <3> HIDE DEF last
    <3> QED BY <3>1, <3>5, TypedNow
  <2>4. CASE ~Live(request.epoch)
    <3> DEFINE last == MergeSealed(taken, sequence, request, outcome)
    <3>1. Become(last) BY <2>1, <2>4
    <3> HIDE DEF taken, request
    <3>2. Typed1(last) BY <1>2, <1>4, <1>5, <2>2, FineMergeSealed DEF Fine
    <3> HIDE DEF last
    <3> QED BY <3>1, <3>2, TypedNow
  <2> QED BY <2>3, <2>4
<1>8. CASE Supersede(sequence) BY <1>3, <1>8, TypedNow DEF Supersede
<1>9. CASE Lose(sequence)
  <2> DEFINE last == BackendLost(taken)
  <2>1. Become(last) BY <1>9 DEF Lose
  <2> HIDE DEF taken
  <2>2. Typed1(last) BY <1>4, FineBackendLost DEF Fine
  <2> HIDE DEF last
  <2> QED BY <2>1, <2>2, TypedNow
<1> QED BY <1>7, <1>8, <1>9 DEF Backend

LEMMA NextTyped == TInv /\ [Next]_vars => TInv'
<1> SUFFICES ASSUME TInv, [Next]_vars PROVE Typed1(Now')
  BY NextStep DEF TInv
<1>1. CASE UNCHANGED vars BY <1>1, UnchangedTyped DEF vars
<1>2. CASE Next
  BY <1>2, RunEditTyped, TypingTyped, ChoosingTyped, HostTyped, AfterKeyTyped, ServiceTyped,
     BackendTyped DEF Next
<1> QED BY <1>1, <1>2
=============================================================================
