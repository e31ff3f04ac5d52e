----------------------- MODULE CompositionScreenProofs ------------------------
(***************************************************************************)
(* What the controller shows is what the host has on the screen            *)
(* (ScreenAlwaysMatches), and its parts agree with each other and with the *)
(* documents' queues (BooksAlwaysKept), in every use that is Undisturbed.  *)
(*                                                                         *)
(* Settling(D) follows the text of the one document D that is composed in  *)
(* from the method that queues an edit to the host that grants it:         *)
(*                                                                         *)
(*   Flow      the order of the edits queued, one composition after the    *)
(*             other, from the one the host shows to the one that is open  *)
(*   Scene, Opened                                                         *)
(*             what the queue of D says of the open composition, of the    *)
(*             segments and of the requests                                *)
(*   Standing  where the text of each composition is in the documents      *)
(*   Drawn     the host shows the buffer, or is still to be told to        *)
(*   BusyOK    what a termination or a stop under way has already ended    *)
(*                                                                         *)
(* There is a lemma per method (Staged...: what it does to the queue and   *)
(* to what is on the screen), one per edit (...Settles) and one per call;  *)
(* an action composes those of the methods it calls.                       *)
(***************************************************************************)
EXTENDS CompositionProofs

-----------------------------------------------------------------------------
(***************************************************************************)
(* The order of the edits of one document                                  *)
(***************************************************************************)
\* Edits that end a composition on the host's screen, and those that edit text
\* outside of one.
Ends(x)  == x.do \in {"commit", "discard", "seal"}
Types(x) == x.do \in {"erase", "insert"}
\* One of the first n edits of q ends the composition e.
EndedBy(q, e, n) == \E j \in 1..n : Ends(q[j]) /\ q[j].epoch = e

\* The edits queued are those of one composition after the other, the first of
\* them the one the host shows (f), each but the open one (o) ended by its last
\* edit; text outside a composition is edited only between two of them.
Flow(q, o, f) ==
  /\ \A k \in DOMAIN q : q[k].epoch # 0 => f <= q[k].epoch /\ (o # 0 => q[k].epoch <= o)
  /\ \A j, k \in DOMAIN q : (j < k /\ q[j].epoch # 0 /\ q[k].epoch # 0) =>
       q[j].epoch <= q[k].epoch /\ (Ends(q[j]) => q[j].epoch < q[k].epoch)
  /\ \A k \in DOMAIN q : Ends(q[k]) => q[k].epoch # o
  /\ o # 0 => f <= o
  /\ \A k \in DOMAIN q : q[k].epoch \notin {0, o} => EndedBy(q, q[k].epoch, Len(q))
  /\ f \notin {0, o} => EndedBy(q, f, Len(q))
  /\ \A k \in DOMAIN q : Types(q[k]) =>
       /\ f # 0 => EndedBy(q, f, k - 1)
       /\ \A j \in 1..(k - 1) : q[j].epoch # 0 => EndedBy(q, q[j].epoch, k - 1)

\* Which edits are of a composition.
Proper(S) == \A x \in S : /\ x.epoch \in Nat
                          /\ Ends(x) => x.epoch # 0
                          /\ Types(x) => x.epoch = 0

LEMMA ProperEdits ==
  ASSUME NEW next \in Nat
  PROVE  Proper(QueuedEdits(next))
<1> SUFFICES ASSUME NEW x \in QueuedEdits(next)
             PROVE  x.epoch \in Nat /\ (Ends(x) => x.epoch # 0) /\ (Types(x) => x.epoch = 0)
  BY DEF Proper
<1>1. /\ x.epoch \in 0..(next - 1)
      /\ x.do \in {"open", "show", "apply", "commit", "discard", "seal", "lost"} => x.epoch \in 1..(next - 1)
      /\ x.do \in {"erase", "write", "insert"} => x.epoch = 0
  BY EditParts
<1> QED BY <1>1 DEF Ends, Types

LEMMA Appended ==
  ASSUME NEW S, NEW q \in Seq(S), NEW x \in S
  PROVE  /\ Append(q, x) \in Seq(S) /\ Len(Append(q, x)) = Len(q) + 1
         /\ Append(q, x)[Len(q) + 1] = x
         /\ Len(q) \in Nat /\ DOMAIN q = 1..Len(q) /\ DOMAIN Append(q, x) = 1..(Len(q) + 1)
         /\ \A k \in 1..Len(q) : Append(q, x)[k] = q[k] /\ q[k] \in S
         /\ \A e, n : EndedBy(q, e, n) /\ n \in 0..Len(q) => EndedBy(Append(q, x), e, n)
                                                              /\ EndedBy(Append(q, x), e, Len(q) + 1)
<1> DEFINE r == Append(q, x)
<1>1. /\ r \in Seq(S) /\ Len(r) = Len(q) + 1 /\ r[Len(q) + 1] = x
      /\ Len(q) \in Nat /\ DOMAIN q = 1..Len(q) /\ DOMAIN r = 1..(Len(q) + 1)
      /\ \A k \in 1..Len(q) : r[k] = q[k] /\ q[k] \in S
  OBVIOUS
<1> HIDE DEF r
<1>2. ASSUME NEW e, NEW n \in 0..Len(q), EndedBy(q, e, n)
      PROVE  EndedBy(r, e, n) /\ EndedBy(r, e, Len(q) + 1)
  <2>1. PICK j \in 1..n : Ends(q[j]) /\ q[j].epoch = e BY <1>2 DEF EndedBy
  <2>2. j \in 1..Len(q) /\ j \in 1..(Len(q) + 1) BY <1>1
  <2>3. Ends(r[j]) /\ r[j].epoch = e BY <1>1, <2>1, <2>2
  <2> QED BY <2>2, <2>3 DEF EndedBy
<1> QED BY <1>1, <1>2 DEF r

\* An edit that ends nothing is queued, of the open composition or of none.
LEMMA FlowMore ==
  ASSUME NEW S, Proper(S), NEW q \in Seq(S), NEW x \in S, NEW o \in Nat, NEW f \in Nat,
         Flow(q, o, f), ~Ends(x), x.epoch \in {0, o},
         Types(x) => o = 0
  PROVE  Flow(Append(q, x), o, f)
<1> DEFINE r == Append(q, x)  n == Len(q)
<1>1. /\ r \in Seq(S) /\ Len(r) = n + 1 /\ r[n + 1] = x
      /\ n \in Nat /\ DOMAIN q = 1..n /\ DOMAIN r = 1..(n + 1)
      /\ \A k \in 1..n : r[k] = q[k] /\ q[k] \in S
      /\ \A e, m : EndedBy(q, e, m) /\ m \in 0..n => EndedBy(r, e, m) /\ EndedBy(r, e, n + 1)
  BY Appended
<1>2. \A k \in 1..n : q[k].epoch \in Nat BY <1>1 DEF Proper
<1> HIDE DEF r, n
<1>3. \A k \in DOMAIN r : (k \in 1..n /\ k \in DOMAIN q /\ r[k] = q[k]) \/ (k = n + 1 /\ r[k] = x)
  BY <1>1
<1>4. \A k \in DOMAIN r : r[k].epoch # 0 => f <= r[k].epoch /\ (o # 0 => r[k].epoch <= o)
  BY <1>2, <1>3 DEF Flow
<1>5. ASSUME NEW j \in DOMAIN r, NEW k \in DOMAIN r, j < k, r[j].epoch # 0, r[k].epoch # 0
      PROVE  r[j].epoch <= r[k].epoch /\ (Ends(r[j]) => r[j].epoch < r[k].epoch)
  BY <1>1, <1>3, <1>5, <1>2 DEF Flow
<1>6. \A k \in DOMAIN r : Ends(r[k]) => r[k].epoch # o BY <1>3 DEF Flow
<1>7. \A k \in DOMAIN r : r[k].epoch \notin {0, o} => EndedBy(r, r[k].epoch, Len(r))
  BY <1>1, <1>3 DEF Flow, n
<1>8. f \notin {0, o} => EndedBy(r, f, Len(r))
  BY <1>1 DEF Flow, n
<1>9. ASSUME NEW k \in DOMAIN r, Types(r[k])
      PROVE  /\ f # 0 => EndedBy(r, f, k - 1)
             /\ \A j \in 1..(k - 1) : r[j].epoch # 0 => EndedBy(r, r[j].epoch, k - 1)
  BY <1>1, <1>9, <1>3 DEF Flow, n
<1>10. o # 0 => f <= o BY DEF Flow
<1>11. Flow(r, o, f) BY <1>4, <1>5, <1>6, <1>7, <1>8, <1>9, <1>10 DEF Flow
<1> QED BY <1>11 DEF r

\* The open composition ends.
LEMMA FlowEnd ==
  ASSUME NEW S, Proper(S), NEW q \in Seq(S), NEW x \in S, NEW o \in Nat \ {0}, NEW f \in Nat,
         Flow(q, o, f), Ends(x), x.epoch = o
  PROVE  Flow(Append(q, x), 0, f)
<1> DEFINE r == Append(q, x)  n == Len(q)
<1>1. /\ r \in Seq(S) /\ Len(r) = n + 1 /\ r[n + 1] = x
      /\ n \in Nat /\ DOMAIN q = 1..n /\ DOMAIN r = 1..(n + 1)
      /\ \A k \in 1..n : r[k] = q[k] /\ q[k] \in S
      /\ \A e, m : EndedBy(q, e, m) /\ m \in 0..n => EndedBy(r, e, m) /\ EndedBy(r, e, n + 1)
  BY Appended
<1>2. \A k \in 1..n : q[k].epoch \in Nat BY <1>1 DEF Proper
<1> HIDE DEF r, n
<1>3. \A k \in DOMAIN r : (k \in 1..n /\ k \in DOMAIN q /\ r[k] = q[k]) \/ (k = n + 1 /\ r[k] = x)
  BY <1>1
<1>4. \A k \in DOMAIN r : r[k].epoch # 0 => f <= r[k].epoch BY <1>2, <1>3 DEF Flow
<1>5. ASSUME NEW j \in DOMAIN r, NEW k \in DOMAIN r, j < k, r[j].epoch # 0, r[k].epoch # 0
      PROVE  r[j].epoch <= r[k].epoch /\ (Ends(r[j]) => r[j].epoch < r[k].epoch)
  BY <1>1, <1>3, <1>5, <1>2 DEF Flow
<1>6. \A k \in DOMAIN r : Ends(r[k]) => r[k].epoch # 0 BY <1>1, <1>3 DEF Proper
<1>7. EndedBy(r, o, n + 1)
  BY <1>1 DEF EndedBy
<1>8. \A k \in DOMAIN r : r[k].epoch # 0 => EndedBy(r, r[k].epoch, Len(r))
  BY <1>1, <1>3, <1>7 DEF Flow, n
<1>9. f # 0 => EndedBy(r, f, Len(r))
  BY <1>1, <1>7 DEF Flow, n
<1>10. ASSUME NEW k \in DOMAIN r, Types(r[k])
       PROVE  /\ f # 0 => EndedBy(r, f, k - 1)
              /\ \A j \in 1..(k - 1) : r[j].epoch # 0 => EndedBy(r, r[j].epoch, k - 1)
  BY <1>3, <1>10, <1>1 DEF Ends, Types, Flow
<1>11. Flow(r, 0, f) BY <1>4, <1>5, <1>6, <1>8, <1>9, <1>10 DEF Flow
<1> QED BY <1>11 DEF r

\* A composition is opened after all the others.
LEMMA FlowOpen ==
  ASSUME NEW S, Proper(S), NEW q \in Seq(S), NEW o \in Nat \ {0}, NEW f \in Nat,
         Flow(q, 0, f), f < o, \A k \in DOMAIN q : q[k].epoch < o
  PROVE  Flow(q, o, f)
BY DEF Proper, Flow

\* Nothing is shown any more.
LEMMA FlowUnshown ==
  ASSUME NEW S, Proper(S), NEW q \in Seq(S), NEW o \in Nat, NEW f, Flow(q, o, f)
  PROVE  Flow(q, o, 0)
BY DEF Proper, Flow

LEMMA FlowEmpty == ASSUME NEW o \in Nat PROVE Flow(<<>>, o, 0)
BY DEF Flow

\* With nothing queued and nothing open, nothing is shown.
LEMMA FlowNothing ==
  ASSUME NEW f, Flow(<<>>, 0, f)
  PROVE  f = 0
BY DEF Flow, EndedBy

LEMMA Rest ==
  ASSUME NEW S, NEW q \in Seq(S), q # <<>>
  PROVE  /\ Head(q) \in S /\ Head(q) = q[1] /\ 1 \in DOMAIN q
         /\ Tail(q) \in Seq(S) /\ Len(Tail(q)) = Len(q) - 1
         /\ Len(q) \in Nat \ {0} /\ DOMAIN q = 1..Len(q) /\ DOMAIN Tail(q) = 1..(Len(q) - 1)
         /\ \A k \in 1..(Len(q) - 1) : /\ Tail(q)[k] = q[k + 1] /\ k + 1 \in DOMAIN q
                                       /\ q[k + 1] \in S
         /\ \A e, n : EndedBy(q, e, n) /\ n \in 1..Len(q) /\ ~(Ends(q[1]) /\ q[1].epoch = e)
                        => EndedBy(Tail(q), e, n - 1)
<1> DEFINE r == Tail(q)
<1>1. /\ r \in Seq(S) /\ Len(r) = Len(q) - 1 /\ Head(q) \in S /\ Head(q) = q[1]
      /\ Len(q) \in Nat \ {0} /\ DOMAIN q = 1..Len(q)
  OBVIOUS
<1>2. DOMAIN r = 1..(Len(q) - 1) BY <1>1
<1>3. \A k \in 1..(Len(q) - 1) : r[k] = q[k + 1] /\ k + 1 \in DOMAIN q /\ q[k + 1] \in S
  BY <1>1, <1>2
<1> HIDE DEF r
<1>4. ASSUME NEW e, NEW n \in 1..Len(q), EndedBy(q, e, n), ~(Ends(q[1]) /\ q[1].epoch = e)
      PROVE  EndedBy(r, e, n - 1)
  <2>1. PICK j \in 1..n : Ends(q[j]) /\ q[j].epoch = e BY <1>4 DEF EndedBy
  <2>2. j # 1 BY <1>4, <2>1
  <2>3. j - 1 \in 1..(n - 1) /\ j - 1 \in 1..(Len(q) - 1) /\ j - 1 + 1 = j BY <1>1, <2>2
  <2>4. r[j - 1] = q[j] BY <1>3, <2>3
  <2> QED BY <2>1, <2>3, <2>4 DEF EndedBy
<1> QED BY <1>1, <1>2, <1>3, <1>4 DEF r

\* The first edit is taken and shows nothing new: it ends no composition, or
\* the one it ends is no longer shown.
LEMMA FlowTaken ==
  ASSUME NEW S, Proper(S), NEW q \in Seq(S), q # <<>>, NEW o \in Nat, NEW f \in Nat, NEW g,
         Flow(q, o, f), g = f \/ g = 0, Ends(Head(q)) => g # Head(q).epoch
  PROVE  Flow(Tail(q), o, g)
<1> DEFINE r == Tail(q)  n == Len(q)  x == q[1]
<1>1. /\ Head(q) = x /\ 1 \in DOMAIN q /\ x \in S
      /\ n \in Nat \ {0} /\ DOMAIN q = 1..n /\ DOMAIN r = 1..(n - 1) /\ Len(r) = n - 1
      /\ \A k \in 1..(n - 1) : r[k] = q[k + 1] /\ k + 1 \in DOMAIN q /\ q[k + 1] \in S
      /\ \A e, m : EndedBy(q, e, m) /\ m \in 1..n /\ ~(Ends(x) /\ x.epoch = e) => EndedBy(r, e, m - 1)
  BY Rest
<1>2. x.epoch \in Nat /\ (Ends(x) => x.epoch # 0) /\ \A k \in 1..(n - 1) : r[k].epoch \in Nat
  BY <1>1 DEF Proper
<1>3. \A k \in 1..(n - 1) : r[k].epoch # 0 => ~(Ends(x) /\ x.epoch = r[k].epoch)
  BY <1>1, <1>2 DEF Flow
<1>4. g # 0 => ~(Ends(x) /\ x.epoch = g) BY <1>1
<1> HIDE DEF r, n, x
<1>5. \A k \in DOMAIN r : r[k].epoch # 0 => g <= r[k].epoch /\ (o # 0 => r[k].epoch <= o)
  BY SMTT(20), <1>1, <1>2 DEF Flow
<1>6. ASSUME NEW j \in DOMAIN r, NEW k \in DOMAIN r, j < k, r[j].epoch # 0, r[k].epoch # 0
      PROVE  r[j].epoch <= r[k].epoch /\ (Ends(r[j]) => r[j].epoch < r[k].epoch)
  <2>1. r[j] = q[j + 1] /\ r[k] = q[k + 1] /\ j + 1 \in DOMAIN q /\ k + 1 \in DOMAIN q /\ j + 1 < k + 1
    BY <1>1, <1>6
  <2> QED BY <1>6, <2>1 DEF Flow
<1>7. \A k \in DOMAIN r : Ends(r[k]) => r[k].epoch # o BY <1>1 DEF Flow
<1>8. o # 0 => g <= o BY DEF Flow
<1>9. ASSUME NEW k \in DOMAIN r, r[k].epoch \notin {0, o} PROVE EndedBy(r, r[k].epoch, Len(r))
  <2>1. k + 1 \in DOMAIN q /\ r[k] = q[k + 1] BY <1>1
  <2>2. EndedBy(q, r[k].epoch, n) BY <1>9, <2>1 DEF Flow, n
  <2>3. n \in 1..n BY <1>1
  <2> QED BY <1>1, <1>3, <1>9, <2>2, <2>3
<1>10. ASSUME g \notin {0, o} PROVE EndedBy(r, g, Len(r))
  BY <1>10, <1>1, <1>4 DEF Flow, n
<1>11. ASSUME NEW k \in DOMAIN r, Types(r[k])
       PROVE  /\ g # 0 => EndedBy(r, g, k - 1)
              /\ \A j \in 1..(k - 1) : r[j].epoch # 0 => EndedBy(r, r[j].epoch, k - 1)
  <2>1. k \in 1..n /\ k + 1 \in DOMAIN q /\ r[k] = q[k + 1] /\ k + 1 - 1 = k BY <1>1
  <2>2. /\ g # 0 => EndedBy(q, g, k)
        /\ \A j \in 1..k : q[j].epoch # 0 => EndedBy(q, q[j].epoch, k)
    BY <1>11, <2>1 DEF Flow
  <2>3. \A j \in 1..(k - 1) : j + 1 \in 1..k /\ j \in 1..(n - 1) /\ r[j] = q[j + 1] BY <1>1
  <2>4. \A j \in 1..(k - 1) : r[j].epoch # 0 => EndedBy(r, r[j].epoch, k - 1)
    BY <1>1, <1>3, <2>1, <2>2, <2>3
  <2>5. g # 0 => EndedBy(r, g, k - 1) BY <1>1, <1>4, <2>1, <2>2
  <2> QED BY <2>4, <2>5
<1>12. Flow(r, o, g) BY <1>5, <1>6, <1>7, <1>8, <1>9, <1>10, <1>11 DEF Flow
<1> QED BY <1>12 DEF r

\* The first edit is taken and shows its composition.
LEMMA FlowShown ==
  ASSUME NEW S, Proper(S), NEW q \in Seq(S), q # <<>>, NEW o \in Nat,
         Flow(q, o, 0), ~Ends(Head(q)), Head(q).epoch # 0
  PROVE  Flow(Tail(q), o, Head(q).epoch)
<1> DEFINE r == Tail(q)  n == Len(q)  x == q[1]  e == x.epoch
<1>0. Flow(r, o, 0) BY FlowTaken
<1>1. /\ Head(q) = x /\ 1 \in DOMAIN q /\ x \in S
      /\ n \in Nat \ {0} /\ DOMAIN q = 1..n /\ DOMAIN r = 1..(n - 1) /\ Len(r) = n - 1
      /\ \A k \in 1..(n - 1) : r[k] = q[k + 1] /\ k + 1 \in DOMAIN q /\ q[k + 1] \in S
      /\ \A d, m : EndedBy(q, d, m) /\ m \in 1..n /\ ~(Ends(x) /\ x.epoch = d) => EndedBy(r, d, m - 1)
  BY Rest
<1>2. e # 0 /\ ~Ends(x) /\ e \in Nat BY <1>1 DEF Proper
<1> HIDE DEF r, n, x, e
<1>3. ASSUME NEW k \in DOMAIN r, r[k].epoch # 0 PROVE e <= r[k].epoch
  BY <1>1, <1>2, <1>3 DEF Flow, e, x
<1>4. o # 0 => e <= o BY <1>1, <1>2 DEF Flow, e, x
<1>5. ASSUME e \notin {0, o} PROVE EndedBy(r, e, Len(r))
  BY <1>1, <1>5, <1>2 DEF Flow, n, e, x
<1>6. ASSUME NEW k \in DOMAIN r, Types(r[k]) PROVE EndedBy(r, e, k - 1)
  <2>1. k \in 1..n /\ 1 \in 1..k /\ k + 1 \in DOMAIN q /\ r[k] = q[k + 1] /\ k + 1 - 1 = k BY <1>1
  <2>2. EndedBy(q, e, k) BY <1>2, <1>6, <2>1 DEF Flow, e, x
  <2> QED BY <1>1, <1>2, <2>1, <2>2
<1>7. Flow(r, o, e) BY <1>0, <1>3, <1>4, <1>5, <1>6 DEF Flow
<1> QED BY <1>1, <1>7 DEF r, e, x

\* The composition shown when the first edit of another one is taken is none,
\* and so it is when text outside a composition is edited.
LEMMA FlowFirst ==
  ASSUME NEW S, Proper(S), NEW q \in Seq(S), q # <<>>, NEW o \in Nat, NEW f \in Nat,
         Flow(q, o, f)
  PROVE  /\ Head(q).epoch # 0 => f \in {0, Head(q).epoch}
         /\ Types(Head(q)) => f = 0
         /\ Ends(Head(q)) => Head(q).epoch # o
         /\ Head(q).epoch # 0 /\ Ends(Head(q)) =>
              \A k \in DOMAIN Tail(q) : Tail(q)[k].epoch # Head(q).epoch
<1> DEFINE r == Tail(q)  n == Len(q)  x == q[1]
<1>1. /\ Head(q) = x /\ 1 \in DOMAIN q /\ x \in S
      /\ n \in Nat \ {0} /\ DOMAIN q = 1..n /\ DOMAIN r = 1..(n - 1) /\ Len(r) = n - 1
      /\ \A k \in 1..(n - 1) : r[k] = q[k + 1] /\ k + 1 \in DOMAIN q /\ q[k + 1] \in S
  BY Rest
<1>2. \A k \in DOMAIN q : q[k].epoch \in Nat BY DEF Proper
<1>3. ASSUME x.epoch # 0, f # 0 PROVE f = x.epoch
  <2>1. f <= x.epoch /\ (o # 0 => x.epoch <= o) BY <1>1, <1>3 DEF Flow
  <2>2. CASE f = o BY <1>1, <1>2, <1>3, <2>1, <2>2
  <2>3. CASE f # o
    <3>1. EndedBy(q, f, n) BY <1>3, <2>3 DEF Flow
    <3>2. PICK j \in 1..n : Ends(q[j]) /\ q[j].epoch = f BY <3>1 DEF EndedBy
    <3>3. x.epoch <= f
      BY <1>1, <1>2, <3>2, <1>3 DEF Flow
    <3> QED BY <1>1, <1>2, <2>1, <3>3
  <2> QED BY <2>2, <2>3
<1>4. ASSUME Types(x), f # 0 PROVE FALSE
  BY <1>1, <1>4 DEF Flow, EndedBy
<1>5. Ends(x) => x.epoch # o BY <1>1 DEF Flow
<1>6. ASSUME x.epoch # 0, Ends(x), NEW k \in DOMAIN r PROVE r[k].epoch # x.epoch
  BY <1>1, <1>2, <1>6 DEF Flow
<1> QED BY <1>1, <1>3, <1>4, <1>5, <1>6 DEF r

-----------------------------------------------------------------------------
(***************************************************************************)
(* The pieces of a document                                                *)
(***************************************************************************)
PieceType == [epoch : Nat, chars : Seq(Character)]

SameEpochs(p, r) ==
  r \in Seq(PieceType) /\ Len(r) = Len(p) /\ \A i \in 1..Len(p) : r[i].epoch = p[i].epoch

LEMMA RewrittenSame ==
  ASSUME NEW p \in Seq(PieceType), NEW epoch \in Nat, NEW chars \in Seq(Character)
  PROVE  /\ SameEpochs(p, Rewritten(p, epoch, chars))
         /\ \A i \in 1..Len(p) : Rewritten(p, epoch, chars)[i] =
              IF p[i].epoch = epoch THEN Piece(epoch, chars) ELSE p[i]
<1> DEFINE r == Rewritten(p, epoch, chars)
<1>1. DOMAIN p = 1..Len(p) /\ Len(p) \in Nat /\ \A i \in 1..Len(p) : p[i] \in PieceType OBVIOUS
<1>2. r = [i \in 1..Len(p) |-> IF p[i].epoch = epoch THEN Piece(epoch, chars) ELSE p[i]]
  BY <1>1 DEF Rewritten
<1> HIDE DEF r
<1>3. Piece(epoch, chars) \in PieceType /\ Piece(epoch, chars).epoch = epoch BY DEF Piece, PieceType
<1>4. \A i \in 1..Len(p) : r[i] \in PieceType /\ r[i].epoch = p[i].epoch BY <1>1, <1>2, <1>3
<1>5. r \in Seq(PieceType) /\ Len(r) = Len(p)
  BY <1>2, <1>1, <1>4
<1> QED BY <1>2, <1>4, <1>5 DEF SameEpochs, r

LEMMA ErasedSame ==
  ASSUME NEW p \in Seq(PieceType), NEW n \in 0..Len(p), NEW count \in Nat
  PROVE  /\ SameEpochs(p, Erased(p, n, count))
         /\ \A i \in 1..Len(p) : i > n => Erased(p, n, count)[i] = p[i]
         /\ \A i \in 1..Len(p) : \E k \in 0..Len(p[i].chars) :
              Erased(p, n, count)[i].chars = SubSeq(p[i].chars, 1, k)
<1> DEFINE N == Len(p)
           s == [k \in 1..N |-> p[k].chars]
           upTo(i) == Len(FlattenSeq([k \in 1..i |-> p[k].chars]))
           left    == IF upTo(n) > count THEN upTo(n) - count ELSE 0
           keep(i) == IF upTo(i) <= left THEN Len(p[i].chars)
                      ELSE IF upTo(i - 1) >= left THEN 0 ELSE left - upTo(i - 1)
           new(i) == IF i > n THEN p[i] ELSE [p[i] EXCEPT !.chars = SubSeq(@, 1, keep(i))]
           r == Erased(p, n, count)
<1>1. DOMAIN p = 1..N /\ N \in Nat /\ \A i \in 1..N : p[i] \in PieceType OBVIOUS
<1>2. \A i \in 1..N : p[i].chars \in Seq(Character) BY <1>1 DEF PieceType
<1>3. s \in Seq(Seq(Character)) /\ Len(s) = N BY <1>1, <1>2
<1>4. PICK f : Joined(f, Character, s) BY <1>3, JoinedExists
<1>5. /\ f \in [0..N -> Seq(Character)]
      /\ \A i \in 1..N : f[i] = f[i - 1] \o p[i].chars
  BY <1>3, <1>4 DEF Joined
<1>6. r = [i \in 1..N |-> new(i)]
  <2>1. r = [i \in DOMAIN p |-> new(i)] BY DEF Erased
  <2> HIDE DEF new, r
  <2> QED BY <1>1, <2>1
<1>7. ASSUME NEW i \in 0..N PROVE upTo(i) = Len(f[i])
  <2>1. SubSeq(s, 1, i) = [k \in 1..i |-> p[k].chars]
    <3>1. i \in 0..Len(s) BY <1>3
    <3>2. SubSeq(s, 1, i) \in Seq(Seq(Character)) /\ Len(SubSeq(s, 1, i)) = i
          /\ \A k \in 1..i : SubSeq(s, 1, i)[k] = s[k]
      BY <1>3, <3>1, SubSeqProperties
    <3>3. \A k \in 1..i : s[k] = p[k].chars BY <1>1
    <3> DEFINE t == SubSeq(s, 1, i)
    <3>4. t \in Seq(Seq(Character)) /\ Len(t) = i /\ \A k \in 1..i : t[k] = p[k].chars BY <3>2, <3>3
    <3> HIDE DEF t, s
    <3>5. t = [k \in 1..i |-> t[k]] BY <3>4
    <3> QED BY <3>4, <3>5 DEF t
  <2>2. FlattenSeq(SubSeq(s, 1, i)) = f[i]
    <3>1. i \in 0..Len(s) BY <1>3
    <3> HIDE DEF s, N
    <3> QED BY <1>3, <1>4, <3>1, JoinedFirst
  <2> HIDE DEF s
  <2> QED BY <2>1, <2>2
<1> HIDE DEF s, r
<1>8. \A i \in 1..N : /\ Len(f[i]) \in Nat /\ Len(f[i - 1]) \in Nat /\ Len(p[i].chars) \in Nat
                      /\ Len(f[i]) = Len(f[i - 1]) + Len(p[i].chars)
  <2> TAKE i \in 1..N
  <2>1. i - 1 \in 0..N /\ i \in 0..N BY <1>1
  <2>2. f[i - 1] \in Seq(Character) /\ p[i].chars \in Seq(Character) /\ f[i] \in Seq(Character)
    BY <1>2, <1>5, <2>1
  <2>3. f[i] = f[i - 1] \o p[i].chars BY <1>5
  <2> DEFINE a == f[i - 1]  b == p[i].chars
  <2>4. a \in Seq(Character) /\ b \in Seq(Character) /\ f[i] = a \o b BY <2>2, <2>3
  <2> HIDE DEF a, b, N
  <2>5. Len(a) \in Nat /\ Len(b) \in Nat /\ Len(f[i]) = Len(a) + Len(b) /\ Len(f[i]) \in Nat BY <2>4
  <2> QED BY <2>5 DEF a, b
<1>9. left \in Nat
  <2>1. upTo(n) \in Nat BY <1>5, <1>7
  <2> HIDE DEF upTo
  <2> QED BY <2>1
<1> HIDE DEF left
<1>10. ASSUME NEW i \in 1..N PROVE keep(i) \in 0..Len(p[i].chars)
  <2>1. i \in 0..N /\ i - 1 \in 0..N BY <1>1
  <2>2. upTo(i) = Len(f[i]) /\ upTo(i - 1) = Len(f[i - 1]) BY <1>7, <2>1
  <2> DEFINE a == upTo(i)  b == upTo(i - 1)  c == Len(p[i].chars)
  <2>3. a \in Nat /\ b \in Nat /\ c \in Nat /\ a = b + c BY <1>8, <2>2
  <2>4. keep(i) = IF a <= left THEN c ELSE IF b >= left THEN 0 ELSE left - b OBVIOUS
  <2> HIDE DEF keep, a, b, c, N
  <2>5. keep(i) \in 0..c BY <1>9, <2>3, <2>4
  <2> QED BY <2>5 DEF c
<1> HIDE DEF keep
<1>11. ASSUME NEW i \in 1..N PROVE new(i) \in PieceType /\ new(i).epoch = p[i].epoch
  <2>1. SubSeq(p[i].chars, 1, keep(i)) \in Seq(Character)
    BY <1>2, <1>10, SubSeqProperties
  <2>2. p[i] \in PieceType BY <1>1
  <2> QED BY <2>1, <2>2 DEF PieceType
<1>12. \A i \in 1..N : i > n => new(i) = p[i] OBVIOUS
<1>15. ASSUME NEW i \in 1..N
       PROVE  \E k \in 0..Len(p[i].chars) : new(i).chars = SubSeq(p[i].chars, 1, k)
  <2>1. CASE i > n
    <3> DEFINE c == p[i].chars
    <3>1. c \in Seq(Character) BY <1>2
    <3> HIDE DEF c
    <3>2. c = SubSeq(c, 1, Len(c)) /\ Len(c) \in 0..Len(c) BY <3>1
    <3>3. new(i).chars = c BY <2>1 DEF c
    <3> QED BY <3>2, <3>3 DEF c
  <2>2. CASE ~(i > n)
    <3>1. p[i] \in PieceType BY <1>1
    <3>2. new(i).chars = SubSeq(p[i].chars, 1, keep(i)) BY <2>2, <3>1 DEF PieceType
    <3> QED BY <1>10, <3>2
  <2> QED BY <2>1, <2>2
<1> HIDE DEF new, N
<1>13. \A i \in 1..N : r[i] = new(i) BY <1>6
<1>14. r \in Seq(PieceType) /\ Len(r) = N
  BY <1>6, <1>13, <1>1, <1>11
<1> QED BY <1>11, <1>12, <1>13, <1>14, <1>15 DEF SameEpochs, r, N

LEMMA SameThen ==
  ASSUME NEW p \in Seq(PieceType), NEW r, SameEpochs(p, r), NEW t, SameEpochs(r, t)
  PROVE  SameEpochs(p, t)
BY DEF SameEpochs

LEMMA PieceFound ==
  ASSUME NEW p \in Seq(PieceType), NEW e
  PROVE  /\ PiecesOf(p, e) # {} => PieceOf(p, e) \in 1..Len(p) /\ p[PieceOf(p, e)].epoch = e
                                   /\ CharsOf(p, e) = p[PieceOf(p, e)].chars
                                   /\ CharsOf(p, e) \in Seq(Character)
         /\ PiecesOf(p, e) = {} => CharsOf(p, e) = <<>>
         /\ \A i \in 1..Len(p) : (p[i].epoch = e /\ \A j \in 1..Len(p) : p[j].epoch = e => j = i)
              => CharsOf(p, e) = p[i].chars /\ PieceOf(p, e) = i
<1>1. PiecesOf(p, e) = {i \in 1..Len(p) : p[i].epoch = e} BY DEF PiecesOf
<1>2. ASSUME PiecesOf(p, e) # {}
      PROVE  /\ PieceOf(p, e) \in 1..Len(p) /\ p[PieceOf(p, e)].epoch = e
             /\ CharsOf(p, e) = p[PieceOf(p, e)].chars
             /\ CharsOf(p, e) \in Seq(Character)
  <2>1. PieceOf(p, e) \in PiecesOf(p, e) BY <1>2 DEF PieceOf
  <2>2. PieceOf(p, e) \in 1..Len(p) /\ p[PieceOf(p, e)].epoch = e BY <1>1, <2>1
  <2>3. p[PieceOf(p, e)] \in PieceType BY <2>2
  <2> QED BY <1>2, <2>2, <2>3 DEF CharsOf, PieceType
<1>3. PiecesOf(p, e) = {} => CharsOf(p, e) = <<>> BY DEF CharsOf
<1>4. ASSUME NEW i \in 1..Len(p), p[i].epoch = e, \A j \in 1..Len(p) : p[j].epoch = e => j = i
      PROVE  CharsOf(p, e) = p[i].chars /\ PieceOf(p, e) = i
  BY <1>1, <1>4, <1>2
<1> QED BY <1>2, <1>3, <1>4

LEMMA TypedCharacter == Typed \in Character
BY DEF Typed, Character

\* What a composition writes is text like any other.
LEMMA LetterText == Seq(Letter) \subseteq Seq(Character)
<1> DEFINE S == Letter
           T == Character
<1>1. S \subseteq T BY DEF Character
<1> HIDE DEF S, T
<1>2. Seq(S) \subseteq Seq(T) BY <1>1
<1> QED BY <1>2 DEF S, T

-----------------------------------------------------------------------------
(***************************************************************************)
(* One document at a time                                                  *)
(***************************************************************************)
\* A use of the constants that composes in D alone, whatever it does there: either
\* the host grants every edit at once, so that one composition is over before the
\* next one begins, or no other document is opened.  The setting of the immediate
\* conversion stays as it is.
Alone(D) ==
  /\ "setting" \notin calls.among
  /\ calls.prompt \/ ("close" \notin calls.among /\ calls.docs \subseteq {D})

\* Without this the two promises fail: late grants in several documents lose
\* compositions, and a change of the setting changes what the buffer shows and not
\* the screen.
Undisturbed == \E D \in Docs : Alone(D)

\* What is queued.
Has(q, x)        == \E k \in DOMAIN q : q[k] = x
InQueue(q, e)    == \E k \in DOMAIN q : q[k].epoch = e
ShowQueued(q, e) == \E k \in DOMAIN q : q[k].do = "show" /\ q[k].epoch = e

\* The queues and the segments, while the composition o is open and the host
\* shows f, both in the document D.  The segment x need not wait for its context.
Scene(st, o, f, D, x) ==
  /\ \A d \in Docs \ {D} : \A k \in DOMAIN st.queue[d] : st.queue[d][k].epoch = 0
  /\ Flow(st.queue[D], o, f)
  /\ \A e : Has(st.queue[D], SealEdit(e)) =>
       e \in DOMAIN st.segments /\ st.segments[e].doc = D /\ ~st.segments[e].placed
  /\ \A e \in DOMAIN st.segments : (e # x /\ st.segments[e].stage = "context") =>
       Has(st.queue[st.segments[e].doc], OpenEdit(e))

\* What is open is open in D, its context is known or still to be read, and its
\* requests say where.
Opened(st, D, x) ==
  /\ st.composition.epoch # 0 =>
       /\ st.composition.doc = D
       /\ \/ st.composition.preceding \/ st.composition.epoch = x
          \/ Has(st.queue[D], OpenEdit(st.composition.epoch))
  /\ \A s \in DOMAIN st.tracker.pending :
       st.tracker.pending[s].epoch = st.composition.epoch => st.tracker.pending[s].doc = D

\* What a method makes of the epochs in use and of the segments.
Keeps(segs, later) ==
  \A e \in DOMAIN segs : /\ e \in DOMAIN later
                         /\ later[e].doc = segs[e].doc /\ later[e].placed = segs[e].placed

\* The open composition is o in st and p in t.
Carries(st, o, t, p, D) ==
  /\ st.nextEpoch <= t.nextEpoch
  /\ \A e \in 1..(st.nextEpoch - 1) :
       (e = p \/ InQueue(t.queue[D], e)) => (e = o \/ InQueue(st.queue[D], e))
  /\ Keeps(st.segments, t.segments)

\* Nothing is open whose text is not to be shown yet.
ToShow(st, D) ==
  st.composition.epoch # 0 => ShowQueued(st.queue[D], st.composition.epoch)

\* What is to be on the screen does not change.
SameDrawing(st, t, D) ==
  /\ t.composition.epoch = st.composition.epoch
  /\ t.composition.buffer = st.composition.buffer
  /\ ToShow(st, D) => ToShow(t, D)

LEMMA CarriesOn ==
  ASSUME NEW st, NEW t, NEW u, NEW o, NEW p, NEW r, NEW D,
         st.nextEpoch \in Nat, t.nextEpoch \in Nat, u.nextEpoch \in Nat,
         Carries(st, o, t, p, D), Carries(t, p, u, r, D)
  PROVE  Carries(st, o, u, r, D)
BY DEF Carries, Keeps

\* The queues stay as they are.
LEMMA SceneFrame ==
  ASSUME NEW st, NEW t, NEW o, NEW f, NEW D, NEW x, NEW y, Scene(st, o, f, D, x),
         t.queue = st.queue, t.nextEpoch = st.nextEpoch, st.nextEpoch \in Nat,
         Keeps(st.segments, t.segments),
         \A e \in DOMAIN t.segments : (e # y /\ t.segments[e].stage = "context") =>
           e # x /\ e \in DOMAIN st.segments /\ st.segments[e].stage = "context"
  PROVE  Scene(t, o, f, D, y) /\ Carries(st, o, t, o, D)
BY DEF Scene, Keeps, Carries

\* What an edit more in a queue changes.
RunMakes(st, t, d, D, edit) ==
  /\ t.composition = st.composition /\ t.tracker = st.tracker
  /\ t.segments = st.segments /\ t.nextEpoch = st.nextEpoch
  /\ t.connected = st.connected
  /\ st.queue[D] \in Seq(QueuedEdits(st.nextEpoch))
  /\ t.queue[D] = IF d = D THEN Append(st.queue[D], edit) ELSE st.queue[D]
  /\ \A c \in Docs : \A x : Has(st.queue[c], x) => Has(t.queue[c], x)
  /\ \A e : ShowQueued(st.queue[D], e) => ShowQueued(t.queue[D], e)
  /\ \A e : e # edit.epoch /\ InQueue(t.queue[D], e) => InQueue(st.queue[D], e)
  /\ \A x : x # edit /\ Has(t.queue[D], x) => Has(st.queue[D], x)
  /\ d = D => Has(t.queue[D], edit)
  /\ (\A c \in Docs \ {D} : \A k \in DOMAIN st.queue[c] : st.queue[c][k].epoch = 0) =>
       (\A c \in Docs \ {D} : \A k \in DOMAIN t.queue[c] : t.queue[c][k].epoch = 0)

LEMMA RunFacts ==
  ASSUME NEW st, NEW waits \in BOOLEAN, Fine(st, waits), NEW d \in Docs, NEW D \in Docs,
         NEW edit \in QueuedEdits(st.nextEpoch), edit.epoch # 0 => d = D
  PROVE  RunMakes(st, Run(st, d, edit), d, D, edit)
<1> DEFINE t == Run(st, d, edit)
           S == QueuedEdits(st.nextEpoch)
<1>1. /\ t.composition = st.composition /\ t.tracker = st.tracker
      /\ t.segments = st.segments /\ t.nextEpoch = st.nextEpoch /\ t.connected = st.connected
      /\ t.queue = [st.queue EXCEPT ![d] = Append(st.queue[d], edit)]
  BY DEF Fine, Good, IsState, Run
<1>2. st.queue \in [Docs -> Seq(S)] BY DEF Fine, Typed1
<1> HIDE DEF t, S
<1>3. \A c \in Docs : t.queue[c] = IF c = d THEN Append(st.queue[d], edit) ELSE st.queue[c]
  BY <1>1, <1>2
<1> DEFINE q == st.queue[d]
           r == Append(q, edit)
<1>4. q \in Seq(S) /\ edit \in S BY <1>2 DEF S
<1>5. /\ Len(q) \in Nat /\ DOMAIN q = 1..Len(q) /\ DOMAIN r = 1..(Len(q) + 1)
      /\ r[Len(q) + 1] = edit /\ \A k \in 1..Len(q) : r[k] = q[k]
  BY <1>4, Appended
<1> HIDE DEF q, r
<1>6. \A k \in DOMAIN q : k \in DOMAIN r /\ r[k] = q[k] BY <1>5
<1>7. \A k \in DOMAIN r : (k \in DOMAIN q /\ r[k] = q[k]) \/ r[k] = edit BY <1>5
<1>8. \E k \in DOMAIN r : r[k] = edit BY <1>5
<1>9. t.queue[d] = r /\ st.queue[d] = q /\ \A c \in Docs : c # d => t.queue[c] = st.queue[c]
  BY <1>3 DEF q, r
<1>10. \A c \in Docs : \A x : Has(st.queue[c], x) => Has(t.queue[c], x) BY <1>6, <1>9 DEF Has
<1>11. \A e : ShowQueued(st.queue[D], e) => ShowQueued(t.queue[D], e)
  BY <1>6, <1>9 DEF ShowQueued
<1>12. \A e : e # edit.epoch /\ InQueue(t.queue[D], e) => InQueue(st.queue[D], e)
  BY <1>7, <1>9 DEF InQueue
<1>13. \A x : x # edit /\ Has(t.queue[D], x) => Has(st.queue[D], x) BY <1>7, <1>9 DEF Has
<1>14. d = D => Has(t.queue[D], edit) BY <1>8, <1>9 DEF Has
<1>15. ASSUME \A c \in Docs \ {D} : \A k \in DOMAIN st.queue[c] : st.queue[c][k].epoch = 0,
              NEW c \in Docs \ {D}, NEW k \in DOMAIN t.queue[c]
       PROVE  t.queue[c][k].epoch = 0
  BY <1>7, <1>9, <1>15
<1>16. t.queue[D] = IF d = D THEN Append(st.queue[D], edit) ELSE st.queue[D] BY <1>3
<1>17. st.queue[D] \in Seq(S) BY <1>2
<1> QED BY <1>1, <1>10, <1>11, <1>12, <1>13, <1>14, <1>15, <1>16, <1>17 DEF t, S, RunMakes

LEMMA SceneRun ==
  ASSUME NEW st, NEW waits \in BOOLEAN, Fine(st, waits), NEW d \in Docs, NEW D \in Docs,
         NEW o \in Nat, NEW f \in Nat, NEW x, Scene(st, o, f, D, x),
         NEW edit \in QueuedEdits(st.nextEpoch), ~Ends(edit), edit.epoch \in {0, o},
         edit.epoch # 0 => d = D, Types(edit) => o = 0
  PROVE  LET t == Run(st, d, edit)
         IN  /\ Scene(t, o, f, D, x) /\ Carries(st, o, t, o, D) /\ SameDrawing(st, t, D)
             /\ \A y : Opened(st, D, y) => Opened(t, D, y)
<1> DEFINE t == Run(st, d, edit)
           S == QueuedEdits(st.nextEpoch)
<1>0. RunMakes(st, t, d, D, edit) BY RunFacts
<1>1. /\ t.composition = st.composition /\ t.tracker = st.tracker
      /\ t.segments = st.segments /\ t.nextEpoch = st.nextEpoch
      /\ st.queue[D] \in Seq(S)
      /\ t.queue[D] = IF d = D THEN Append(st.queue[D], edit) ELSE st.queue[D]
      /\ \A c \in Docs : \A z : Has(st.queue[c], z) => Has(t.queue[c], z)
      /\ \A e : ShowQueued(st.queue[D], e) => ShowQueued(t.queue[D], e)
      /\ \A e : e # edit.epoch /\ InQueue(t.queue[D], e) => InQueue(st.queue[D], e)
      /\ \A z : z # edit /\ Has(t.queue[D], z) => Has(st.queue[D], z)
      /\ (\A c \in Docs \ {D} : \A k \in DOMAIN st.queue[c] : st.queue[c][k].epoch = 0) =>
           (\A c \in Docs \ {D} : \A k \in DOMAIN t.queue[c] : t.queue[c][k].epoch = 0)
  BY <1>0 DEF RunMakes, S
<1>2. st.nextEpoch \in Nat /\ Proper(S) BY FineParts, ProperEdits
<1> HIDE DEF t, S
<1>3. Flow(t.queue[D], o, f)
  BY <1>1, <1>2, FlowMore DEF Scene, S
<1>4. \A e : Has(t.queue[D], SealEdit(e)) =>
        e \in DOMAIN t.segments /\ t.segments[e].doc = D /\ ~t.segments[e].placed
  BY <1>1 DEF Ends, SealEdit, Scene
<1>5. \A e \in DOMAIN t.segments : (e # x /\ t.segments[e].stage = "context") =>
       Has(t.queue[t.segments[e].doc], OpenEdit(e))
  BY SegmentParts, <1>1 DEF Fine, Typed1, Scene
<1>6. Scene(t, o, f, D, x) BY <1>1, <1>3, <1>4, <1>5 DEF Scene
<1>7. Carries(st, o, t, o, D) BY <1>1, <1>2 DEF Carries, Keeps
<1>8. SameDrawing(st, t, D) BY <1>1 DEF SameDrawing, ToShow
<1>9. ASSUME NEW y, Opened(st, D, y) PROVE Opened(t, D, y)
  BY <1>1, <1>9 DEF Opened
<1> QED BY <1>6, <1>7, <1>8, <1>9 DEF t

\* The open composition ends.
LEMMA SceneEnd ==
  ASSUME NEW st, NEW waits \in BOOLEAN, Fine(st, waits), NEW D \in Docs,
         NEW o \in Nat \ {0}, NEW f \in Nat, NEW x, Scene(st, o, f, D, x),
         NEW edit \in QueuedEdits(st.nextEpoch), Ends(edit), edit.epoch = o,
         edit = SealEdit(o) =>
           o \in DOMAIN st.segments /\ st.segments[o].doc = D /\ ~st.segments[o].placed
  PROVE  Scene(Run(st, D, edit), 0, f, D, x) /\ Carries(st, o, Run(st, D, edit), 0, D)
<1> DEFINE t == Run(st, D, edit)
           S == QueuedEdits(st.nextEpoch)
<1>0. RunMakes(st, t, D, D, edit) BY RunFacts
<1>1. /\ t.composition = st.composition /\ t.tracker = st.tracker
      /\ t.segments = st.segments /\ t.nextEpoch = st.nextEpoch
      /\ st.queue[D] \in Seq(S)
      /\ t.queue[D] = Append(st.queue[D], edit)
      /\ \A c \in Docs : \A z : Has(st.queue[c], z) => Has(t.queue[c], z)
      /\ \A e : e # edit.epoch /\ InQueue(t.queue[D], e) => InQueue(st.queue[D], e)
      /\ \A z : z # edit /\ Has(t.queue[D], z) => Has(st.queue[D], z)
      /\ (\A c \in Docs \ {D} : \A k \in DOMAIN st.queue[c] : st.queue[c][k].epoch = 0) =>
           (\A c \in Docs \ {D} : \A k \in DOMAIN t.queue[c] : t.queue[c][k].epoch = 0)
  BY <1>0 DEF RunMakes, S
<1>2. st.nextEpoch \in Nat /\ Proper(S) BY FineParts, ProperEdits
<1> HIDE DEF t, S
<1>3. Flow(t.queue[D], 0, f)
  BY <1>1, <1>2, FlowEnd DEF Scene, S
<1>4. \A e : Has(t.queue[D], SealEdit(e)) =>
        e \in DOMAIN t.segments /\ t.segments[e].doc = D /\ ~t.segments[e].placed
  BY <1>1 DEF SealEdit, Scene
<1>5. \A e \in DOMAIN t.segments : (e # x /\ t.segments[e].stage = "context") =>
       Has(t.queue[t.segments[e].doc], OpenEdit(e))
  BY SegmentParts, <1>1 DEF Fine, Typed1, Scene
<1>6. Scene(t, 0, f, D, x) BY <1>1, <1>3, <1>4, <1>5 DEF Scene
<1>7. Carries(st, o, t, 0, D) BY <1>1, <1>2 DEF Carries, Keeps
<1> QED BY <1>6, <1>7 DEF t

-----------------------------------------------------------------------------
(***************************************************************************)
(* The methods of the controller                                           *)
(***************************************************************************)
\* The scene of a controller state, and how a method moves it on.
Staged(st, f, D, x) == Scene(st, st.composition.epoch, f, D, x) /\ Opened(st, D, x)
Moved(st, t, D)     == Carries(st, st.composition.epoch, t, t.composition.epoch, D)

\* What every method does: the scene holds again, and what is on the screen is
\* still what is to be shown, or will be shown again.
Onward(st, t, f, D, x) ==
  /\ Staged(t, f, D, x) /\ Moved(st, t, D)
  /\ ToShow(t, D) \/ SameDrawing(st, t, D)

Epochs(st, t, u) == st.nextEpoch \in Nat /\ t.nextEpoch \in Nat /\ u.nextEpoch \in Nat

LEMMA OnwardThen ==
  ASSUME NEW st, NEW t, NEW u, NEW f, NEW D, NEW x, NEW y, Epochs(st, t, u),
         Onward(st, t, f, D, x), Onward(t, u, f, D, y)
  PROVE  Onward(st, u, f, D, y)
BY CarriesOn DEF Onward, Moved, Epochs, SameDrawing

LEMMA MovedThen ==
  ASSUME NEW st, NEW t, NEW u, NEW f, NEW D, NEW x, Epochs(st, t, u),
         Moved(st, t, D), Onward(t, u, f, D, x), ToShow(u, D)
  PROVE  Onward(st, u, f, D, x)
BY CarriesOn DEF Onward, Moved, Epochs

\* The queues and the segments' places stay as they are.
Requesting(st, t, D) ==
  \A s \in DOMAIN t.tracker.pending :
    \/ s \in DOMAIN st.tracker.pending /\ t.tracker.pending[s] = st.tracker.pending[s]
    \/ t.tracker.pending[s].epoch # t.composition.epoch \/ t.tracker.pending[s].doc = D

LEMMA StagedFrame ==
  ASSUME NEW st, NEW t, NEW f, NEW D, NEW x, NEW y, Staged(st, f, D, x),
         t.queue = st.queue, t.nextEpoch = st.nextEpoch, st.nextEpoch \in Nat,
         t.composition.epoch = st.composition.epoch, t.composition.doc = st.composition.doc,
         st.composition.preceding => t.composition.preceding,
         st.composition.epoch = x => t.composition.preceding \/ y = x,
         Keeps(st.segments, t.segments),
         \A e \in DOMAIN t.segments : (e # y /\ t.segments[e].stage = "context") =>
           e # x /\ e \in DOMAIN st.segments /\ st.segments[e].stage = "context",
         Requesting(st, t, D)
  PROVE  /\ Staged(t, f, D, y) /\ Moved(st, t, D)
         /\ t.composition.buffer = st.composition.buffer => Onward(st, t, f, D, y)
BY SceneFrame DEF Staged, Opened, Requesting, ToShow, Moved, Onward, SameDrawing

\* The segments stay, too.
LEMMA StagedSame ==
  ASSUME NEW st, NEW t, NEW f, NEW D, Staged(st, f, D, 0), 0 \notin DOMAIN st.segments,
         t.queue = st.queue, t.nextEpoch = st.nextEpoch, st.nextEpoch \in Nat,
         t.composition.epoch = st.composition.epoch, t.composition.doc = st.composition.doc,
         st.composition.preceding => t.composition.preceding,
         t.segments = st.segments, Requesting(st, t, D)
  PROVE  /\ Staged(t, f, D, 0) /\ Moved(st, t, D)
         /\ t.composition.buffer = st.composition.buffer => Onward(st, t, f, D, 0)
BY StagedFrame DEF Keeps

\* Nothing of what a method does not touch.
LEMMA FineMore ==
  ASSUME NEW st, NEW waits \in BOOLEAN, Fine(st, waits)
  PROVE  /\ st.nextEpoch \in Nat /\ st.composition.epoch \in Nat /\ 0 \notin DOMAIN st.segments
         /\ DOMAIN st.segments \subseteq 1..(st.nextEpoch - 1)
         /\ st.composition.epoch \notin DOMAIN st.segments
         /\ st.composition.epoch # 0 => st.composition.epoch \in 1..(st.nextEpoch - 1)
         /\ \A s \in DOMAIN st.tracker.pending : st.tracker.pending[s].epoch \in Nat \ {0}
         /\ \A e \in DOMAIN st.segments : st.segments[e].doc \in Docs
BY SegmentParts DEF Fine, Good, Counted, Typed1, RequestOK, RequestType

LEMMA StagedList ==
  ASSUME NEW st, NEW waits \in BOOLEAN, Fine(st, waits), NEW f, NEW D, Staged(st, f, D, 0)
  PROVE  Onward(st, WithoutList(st), f, D, 0)
<1> DEFINE t == WithoutList(st)
<1>1. /\ t.composition = [st.composition EXCEPT !.list = FALSE]
      /\ t.tracker = st.tracker /\ t.segments = st.segments
      /\ t.queue = st.queue /\ t.nextEpoch = st.nextEpoch
      /\ t.composition.epoch = st.composition.epoch /\ t.composition.doc = st.composition.doc
      /\ t.composition.preceding = st.composition.preceding
      /\ t.composition.buffer = st.composition.buffer
  BY DEF Fine, Good, IsState, WithoutList
<1> HIDE DEF t
<1>2. Requesting(st, t, D) BY <1>1 DEF Requesting
<1>3. Onward(st, t, f, D, 0) BY <1>1, <1>2, FineMore, StagedSame
<1> QED BY <1>3 DEF t

LEMMA StagedBuffer ==
  ASSUME NEW st, NEW waits \in BOOLEAN, Fine(st, waits), NEW f, NEW D, Staged(st, f, D, 0),
         NEW b
  PROVE  LET t == WithBuffer(st, b)
         IN  /\ Staged(t, f, D, 0) /\ Moved(st, t, D)
             /\ t.composition.epoch = st.composition.epoch /\ t.nextEpoch = st.nextEpoch
             /\ t.queue = st.queue
<1> DEFINE t == WithBuffer(st, b)
<1>1. /\ t.tracker = st.tracker /\ t.segments = st.segments
      /\ t.queue = st.queue /\ t.nextEpoch = st.nextEpoch
      /\ t.composition.epoch = st.composition.epoch /\ t.composition.doc = st.composition.doc
      /\ t.composition.preceding = st.composition.preceding
  BY DEF Fine, Good, IsState, WithBuffer
<1> HIDE DEF t
<1>2. Requesting(st, t, D) BY <1>1 DEF Requesting
<1>3. Staged(t, f, D, 0) /\ Moved(st, t, D) BY <1>1, <1>2, FineMore, StagedSame
<1> QED BY <1>1, <1>3 DEF t

LEMMA StagedRequest ==
  ASSUME NEW st, NEW waits \in BOOLEAN, Fine(st, waits), NEW f, NEW D, Staged(st, f, D, 0)
  PROVE  /\ Onward(st, Request(st), f, D, 0) /\ Request(st).nextEpoch = st.nextEpoch
         /\ ToShow(st, D) => ToShow(Request(st), D)
<1> DEFINE t == Request(st)
           c == st.composition
           r == RequestOf(c.epoch, c.doc, c.buffer)
<1>1. /\ t.segments = st.segments /\ t.queue = st.queue /\ t.nextEpoch = st.nextEpoch
      /\ t.composition.epoch = c.epoch /\ t.composition.doc = c.doc
      /\ t.composition.preceding = c.preceding
      /\ t.composition.buffer = c.buffer
      /\ t.tracker # st.tracker => Requests(st) /\ t.tracker = Send(st.tracker, r)
  <2>1. CASE Requests(st)
    <3>1. t = [st EXCEPT !.tracker = Send(@, r),
                         !.composition.sent = [revision |-> c.buffer.revision,
                                               sequence |-> st.tracker.sequence + 1]]
      BY <2>1 DEF Request
    <3> HIDE DEF t, r
    <3> QED BY <2>1, <3>1 DEF Fine, Good, IsState
  <2>2. CASE ~Requests(st) BY <2>2 DEF Request
  <2> QED BY <2>1, <2>2
<1>2. r.doc = c.doc BY DEF RequestOf
<1> HIDE DEF t, r
<1>3. Requesting(st, t, D)
  <2>1. CASE t.tracker = st.tracker BY <1>1, <2>1 DEF Requesting
  <2>2. CASE t.tracker # st.tracker
    <3>1. ~IsEmpty(c.buffer) BY <1>1, <2>2 DEF Requests, HasSnapshot
    <3>2. c.epoch # 0 BY <3>1, FineParts
    <3>3. r.doc = D BY <1>2, <3>2 DEF Staged, Opened
    <3>4. Numbered(st.tracker) BY DEF Fine, Good, Counted
    <3> QED BY <1>1, <2>2, <3>3, <3>4, SendFacts DEF Requesting
  <2> QED BY <2>1, <2>2
<1>4. Onward(st, t, f, D, 0) BY <1>1, <1>3, FineMore, StagedSame
<1>5. ToShow(st, D) => ToShow(t, D) BY <1>1 DEF ToShow
<1> QED BY <1>1, <1>4, <1>5 DEF t

LEMMA StagedShow ==
  ASSUME NEW st, NEW waits \in BOOLEAN, Fine(st, waits), NEW f \in Nat, NEW D \in Docs,
         Staged(st, f, D, 0), st.composition.epoch # 0
  PROVE  /\ Onward(st, ShowAgain(st), f, D, 0) /\ ToShow(ShowAgain(st), D)
         /\ ShowAgain(st).nextEpoch = st.nextEpoch
<1> DEFINE c == st.composition
           edit == ShowEdit(c)
           t == Run(st, D, edit)
<1>1. c.epoch \in Nat /\ c.epoch \in 1..(st.nextEpoch - 1) /\ c.doc = D /\ c.buffer.entries \in Seq(Entry)
  BY FineMore, FineParts DEF Staged, Opened
<1>2. edit \in QueuedEdits(st.nextEpoch) BY <1>1, FineParts, ShowTyped
<1>3. edit.epoch = c.epoch /\ edit.do = "show" /\ ~Ends(edit) /\ ~Types(edit)
  BY DEF ShowEdit, Ends, Types
<1>4. ShowAgain(st) = t BY <1>1 DEF ShowAgain
<1> HIDE DEF t, edit
<1>5. RunMakes(st, t, D, D, edit) BY <1>2, RunFacts DEF t
<1>6. /\ Scene(t, c.epoch, f, D, 0) /\ Carries(st, c.epoch, t, c.epoch, D)
      /\ SameDrawing(st, t, D) /\ Opened(t, D, 0)
  BY <1>1, <1>2, <1>3, SceneRun DEF Staged, t
<1>7. t.composition = c /\ t.nextEpoch = st.nextEpoch /\ Has(t.queue[D], edit)
  BY <1>5 DEF RunMakes
<1>8. ToShow(t, D) BY <1>3, <1>7 DEF ToShow, ShowQueued, Has
<1>9. Onward(st, t, f, D, 0) BY <1>6, <1>7 DEF Onward, Staged, Moved
<1> QED BY <1>4, <1>7, <1>8, <1>9

\* With no composition open there is nothing to say of it.
LEMMA OpenedNone ==
  ASSUME NEW st, NEW waits \in BOOLEAN, Fine(st, waits), st.composition.epoch = 0, NEW D, NEW x
  PROVE  Opened(st, D, x) /\ ToShow(st, D)
BY FineMore DEF Opened, ToShow

LEMMA StagedDiscard ==
  ASSUME NEW st, NEW waits \in BOOLEAN, Fine(st, waits), NEW f \in Nat, NEW D \in Docs,
         Staged(st, f, D, 0), st.composition.epoch # 0
  PROVE  /\ Onward(st, Discard(st), f, D, 0) /\ ToShow(Discard(st), D)
         /\ Discard(st).nextEpoch = st.nextEpoch
<1> DEFINE c == st.composition
           edit == DiscardEdit(c.epoch)
           w == WithoutComposition(st)
           t == Run(w, D, edit)
<1>1. c.epoch \in Nat \ {0} /\ c.epoch \in 1..(st.nextEpoch - 1) /\ c.doc = D
  BY FineMore DEF Staged, Opened
<1>2. edit \in QueuedEdits(st.nextEpoch) BY <1>1, FineParts, PlainEdits
<1>3. edit.epoch = c.epoch /\ Ends(edit) /\ edit # SealEdit(c.epoch)
  BY DEF DiscardEdit, Ends, SealEdit
<1>4. Discard(st) = t BY <1>1 DEF Discard
<1>5. /\ Fine(w, waits) /\ w.queue = st.queue /\ w.segments = st.segments
      /\ w.nextEpoch = st.nextEpoch /\ w.composition.epoch = 0
  BY FineNone DEF WithoutComposition, NoComposition, NewComposition, Fine, Good, IsState
<1> HIDE DEF t, edit, w
<1>6. Scene(w, c.epoch, f, D, 0) /\ Carries(st, c.epoch, w, c.epoch, D)
  BY <1>5, FineMore, SceneFrame DEF Keeps, Staged
<1>7. Scene(t, 0, f, D, 0) /\ Carries(w, c.epoch, t, 0, D)
  BY <1>1, <1>2, <1>3, <1>5, <1>6, SceneEnd DEF t
<1>8. RunMakes(w, t, D, D, edit) BY <1>1, <1>2, <1>5, RunFacts DEF t
<1>9. t.composition.epoch = 0 /\ t.nextEpoch = st.nextEpoch BY <1>5, <1>8 DEF RunMakes
<1>10. Fine(t, waits) BY <1>4, FineDiscard
<1>11. Opened(t, D, 0) /\ ToShow(t, D) BY <1>9, <1>10, OpenedNone
<1>12. Carries(st, c.epoch, t, 0, D) BY <1>5, <1>6, <1>7, <1>9, CarriesOn, FineMore
<1> QED BY <1>4, <1>7, <1>9, <1>11, <1>12 DEF Onward, Staged, Moved

LEMMA StagedUpdate ==
  ASSUME NEW st, NEW waits \in BOOLEAN, Fine(st, waits), NEW f \in Nat, NEW D \in Docs,
         Staged(st, f, D, 0), st.composition.epoch # 0
  PROVE  /\ Onward(st, Update(st), f, D, 0) /\ ToShow(Update(st), D)
         /\ Update(st).nextEpoch = st.nextEpoch
<1>1. CASE IsEmpty(st.composition.buffer) BY <1>1, StagedDiscard DEF Update
<1>2. CASE ~IsEmpty(st.composition.buffer)
  <2> DEFINE s == ShowAgain(st)
             t == Request(s)
  <2>1. Update(st) = t BY <1>2 DEF Update
  <2>2. Onward(st, s, f, D, 0) /\ ToShow(s, D) /\ s.nextEpoch = st.nextEpoch BY StagedShow
  <2>3. Fine(s, waits) BY FineShow
  <2> HIDE DEF s
  <2>4. /\ Onward(s, t, f, D, 0) /\ t.nextEpoch = s.nextEpoch
        /\ ToShow(s, D) => ToShow(t, D)
    BY <2>2, <2>3, StagedRequest DEF Onward
  <2> HIDE DEF t
  <2>5. Epochs(st, s, t) BY <2>2, <2>4, FineMore DEF Epochs
  <2> QED BY <2>1, <2>2, <2>4, <2>5, OnwardThen
<1> QED BY <1>1, <1>2

LEMMA StagedEdited ==
  ASSUME NEW st, NEW waits \in BOOLEAN, Fine(st, waits), NEW f \in Nat, NEW D \in Docs,
         Staged(st, f, D, 0), st.composition.epoch # 0,
         NEW b, Edited(st.composition.buffer, b)
  PROVE  LET t == Update(WithBuffer(st, b))
         IN  Onward(st, t, f, D, 0) /\ ToShow(t, D) /\ t.nextEpoch = st.nextEpoch
<1> DEFINE s == WithBuffer(st, b)
           t == Update(s)
<1>1. /\ Staged(s, f, D, 0) /\ Moved(st, s, D)
      /\ s.composition.epoch = st.composition.epoch /\ s.nextEpoch = st.nextEpoch
  BY StagedBuffer
<1>2. Fine(s, waits) BY FineBuffer
<1> HIDE DEF s
<1>3. Onward(s, t, f, D, 0) /\ ToShow(t, D) /\ t.nextEpoch = s.nextEpoch
  BY <1>1, <1>2, StagedUpdate
<1> HIDE DEF t
<1>4. Epochs(st, s, t) BY <1>1, <1>3, FineMore DEF Epochs
<1>5. Onward(st, t, f, D, 0) BY <1>1, <1>3, <1>4, MovedThen
<1> QED BY <1>1, <1>3, <1>5 DEF t, s

LEMMA StagedStill ==
  ASSUME NEW st, NEW waits \in BOOLEAN, Fine(st, waits), NEW f, NEW D, Staged(st, f, D, 0)
  PROVE  Onward(st, st, f, D, 0)
BY FineMore DEF Moved, Carries, Keeps, Onward, SameDrawing

LEMMA StagedDiscardReading ==
  ASSUME NEW st, NEW waits \in BOOLEAN, Fine(st, waits), NEW f \in Nat, NEW D \in Docs,
         Staged(st, f, D, 0), st.composition.epoch # 0
  PROVE  LET t == DiscardReading(st)
         IN  Onward(st, t, f, D, 0) /\ t.nextEpoch = st.nextEpoch
<1> DEFINE b == EraseAtCaret(st.composition.buffer)
<1>1. CASE CanDiscardReading(st.composition.buffer)
  <2>1. OnEntry(st.composition.buffer) BY <1>1 DEF CanDiscardReading
  <2>2. Edited(st.composition.buffer, b) BY <2>1, FineParts, EraseEdited
  <2>3. DiscardReading(st) = Update(WithBuffer(st, b)) BY <1>1 DEF DiscardReading
  <2> HIDE DEF b
  <2> QED BY <2>2, <2>3, StagedEdited
<1>2. CASE ~CanDiscardReading(st.composition.buffer)
  BY <1>2, StagedStill DEF DiscardReading
<1> QED BY <1>1, <1>2

\* The composition is left in its document; its last edit is still to be queued.
LEMMA SceneLeave ==
  ASSUME NEW st, NEW waits \in BOOLEAN, Fine(st, waits), NEW f, NEW D,
         Staged(st, f, D, 0), st.composition.epoch # 0
  PROVE  LET t == Leave(st)
         IN  /\ Fine(t, waits) /\ t.nextEpoch = st.nextEpoch /\ t.composition.epoch = 0
             /\ t.queue = st.queue /\ t.segments = st.segments /\ t.tracker = st.tracker
             /\ Scene(t, st.composition.epoch, f, D, 0)
             /\ Carries(st, st.composition.epoch, t, st.composition.epoch, D)
<1> DEFINE t == Leave(st)
           o == st.composition.epoch
<1>1. Fine(t, waits) BY FineLeave
<1>2. /\ t.composition = NoComposition /\ t.tracker = st.tracker
      /\ t.nextEpoch = st.nextEpoch /\ t.segments = st.segments
  BY LeaveFacts DEF Fine
<1>3. t.queue = st.queue BY DEF Leave, WithoutComposition, Fine, Good, IsState
<1>4. t.composition.epoch = 0 BY <1>2 DEF NoComposition, NewComposition
<1> HIDE DEF t
<1>5. Keeps(st.segments, t.segments) BY <1>2 DEF Keeps
<1>6. \A e \in DOMAIN t.segments : (e # 0 /\ t.segments[e].stage = "context") =>
        e # 0 /\ e \in DOMAIN st.segments /\ st.segments[e].stage = "context"
  BY <1>2
<1>7. Scene(st, o, f, D, 0) /\ st.nextEpoch \in Nat BY FineMore DEF Staged
<1>8. Scene(t, o, f, D, 0) /\ Carries(st, o, t, o, D) BY <1>2, <1>3, <1>5, <1>6, <1>7, SceneFrame
<1> QED BY <1>1, <1>2, <1>3, <1>4, <1>8 DEF t

LEMMA StagedCommit ==
  ASSUME NEW st, NEW waits \in BOOLEAN, Fine(st, waits), NEW f \in Nat, NEW D \in Docs,
         Staged(st, f, D, 0), st.composition.epoch # 0
  PROVE  LET t == Commit(st)
         IN  Onward(st, t, f, D, 0) /\ t.nextEpoch = st.nextEpoch /\ t.composition.epoch = 0
<1> DEFINE c == st.composition
           edit == CommitEdit(c)
           w == Leave(st)
           t == Run(w, D, edit)
<1>1. /\ c.epoch \in Nat \ {0} /\ c.epoch \in 1..(st.nextEpoch - 1) /\ c.doc = D
      /\ c.buffer.entries \in Seq(Entry)
  BY FineMore, FineParts DEF Staged, Opened
<1>2. edit \in QueuedEdits(st.nextEpoch) BY <1>1, FineParts, CommitTyped
<1>3. edit.epoch = c.epoch /\ Ends(edit) /\ edit # SealEdit(c.epoch)
  BY DEF CommitEdit, Ends, SealEdit
<1>4. Commit(st) = t BY <1>1 DEF Commit
<1>5. /\ Fine(w, waits) /\ w.nextEpoch = st.nextEpoch /\ w.composition.epoch = 0
      /\ Scene(w, c.epoch, f, D, 0) /\ Carries(st, c.epoch, w, c.epoch, D)
  BY SceneLeave
<1> HIDE DEF t, edit, w
<1>6. Scene(t, 0, f, D, 0) /\ Carries(w, c.epoch, t, 0, D)
  BY <1>1, <1>2, <1>3, <1>5, SceneEnd DEF t
<1>7. RunMakes(w, t, D, D, edit) BY <1>1, <1>2, <1>5, RunFacts DEF t
<1>8. t.composition.epoch = 0 /\ t.nextEpoch = st.nextEpoch BY <1>5, <1>7 DEF RunMakes
<1>9. Fine(t, waits) BY <1>4, FineCommit
<1>10. Opened(t, D, 0) /\ ToShow(t, D) BY <1>8, <1>9, OpenedNone
<1>11. Carries(st, c.epoch, t, 0, D) BY <1>5, <1>6, <1>8, CarriesOn, FineMore
<1> QED BY <1>4, <1>6, <1>8, <1>10, <1>11 DEF Onward, Staged, Moved


\* A method that concerns a segment only.
Aside(st, t, o, f, D, x) ==
  /\ t.composition = st.composition /\ t.nextEpoch = st.nextEpoch
  /\ Scene(t, o, f, D, x) /\ Carries(st, o, t, o, D)
  /\ ToShow(st, D) => ToShow(t, D)
  /\ Opened(st, D, 0) => Opened(t, D, 0)

LEMMA AsideThen ==
  ASSUME NEW st, NEW t, NEW u, NEW o, NEW f, NEW D, NEW x, NEW y, st.nextEpoch \in Nat,
         Aside(st, t, o, f, D, x), Aside(t, u, o, f, D, y)
  PROVE  Aside(st, u, o, f, D, y)
BY CarriesOn DEF Aside

LEMMA AsideOnward ==
  ASSUME NEW st, NEW t, NEW f, NEW D, Staged(st, f, D, 0),
         Aside(st, t, st.composition.epoch, f, D, 0)
  PROVE  Onward(st, t, f, D, 0)
BY DEF Aside, Onward, Staged, Moved, SameDrawing

\* Only the segment e changes, and what is asked for it.
LEMMA AsideFrame ==
  ASSUME NEW st, NEW waits \in BOOLEAN, Fine(st, waits), NEW t, NEW o, NEW f, NEW D, NEW x, NEW y,
         Scene(st, o, f, D, x), NEW e \in DOMAIN st.segments,
         t.composition = st.composition, t.queue = st.queue, t.nextEpoch = st.nextEpoch,
         DOMAIN t.segments = DOMAIN st.segments,
         \A k \in DOMAIN st.segments : k # e => t.segments[k] = st.segments[k],
         t.segments[e].doc = st.segments[e].doc, t.segments[e].placed = st.segments[e].placed,
         t.segments[e].stage = "context" => st.segments[e].stage = "context" /\ y = x,
         y = x \/ x = e,
         \A s \in DOMAIN t.tracker.pending :
           \/ s \in DOMAIN st.tracker.pending /\ t.tracker.pending[s] = st.tracker.pending[s]
           \/ t.tracker.pending[s].epoch = e
  PROVE  Aside(st, t, o, f, D, y)
BY FineMore, SceneFrame DEF Keeps, Opened, Aside, ToShow

LEMMA AsideWrite ==
  ASSUME NEW st, NEW waits \in BOOLEAN, Fine(st, waits), NEW o \in Nat, NEW f \in Nat,
         NEW D \in Docs, NEW x, Scene(st, o, f, D, x), NEW e \in DOMAIN st.segments
  PROVE  LET t == WriteIfFinished(st, e)
         IN  Aside(st, t, o, f, D, x) /\ t.segments = st.segments
<1> DEFINE d == st.segments[e].doc
           t == Run(st, d, WriteEdit)
<1>1. d \in Docs /\ WriteEdit \in QueuedEdits(st.nextEpoch) BY FineMore, FineParts, OtherEdits
<1>2. WriteEdit.epoch = 0 /\ ~Ends(WriteEdit) /\ ~Types(WriteEdit) BY DEF WriteEdit, Ends, Types
<1>3. Aside(st, st, o, f, D, x) BY FineMore DEF Aside, Carries, Keeps
<1>4. WriteIfFinished(st, e) \in {st, t} BY DEF WriteIfFinished
<1> HIDE DEF t, d
<1>5. RunMakes(st, t, d, D, WriteEdit) BY <1>1, <1>2, RunFacts DEF t
<1>6. /\ Scene(t, o, f, D, x) /\ Carries(st, o, t, o, D) /\ SameDrawing(st, t, D)
      /\ Opened(st, D, 0) => Opened(t, D, 0)
  BY <1>1, <1>2, SceneRun DEF t
<1>7. Aside(st, t, o, f, D, x) /\ t.segments = st.segments
  BY <1>5, <1>6 DEF RunMakes, Aside, SameDrawing
<1> QED BY <1>3, <1>4, <1>7

LEMMA AsideConvert ==
  ASSUME NEW st, NEW waits \in BOOLEAN, Fine(st, waits), NEW o, NEW f, NEW D, NEW x, NEW y,
         Scene(st, o, f, D, x), NEW e \in DOMAIN st.segments, y = x \/ x = e
  PROVE  Aside(st, ConvertSegment(st, e), o, f, D, y)
<1> DEFINE s == st.segments[e]
           r == RequestOf(e, s.doc, s.buffer)
           t == ConvertSegment(st, e)
<1>1. s \in SegmentType BY DEF Fine, Typed1
<1>2. DOMAIN s = SegmentFields BY <1>1, SegmentParts
<1>3. /\ t.composition = st.composition /\ t.queue = st.queue /\ t.nextEpoch = st.nextEpoch
      /\ DOMAIN t.segments = DOMAIN st.segments
      /\ \A k \in DOMAIN st.segments : k # e => t.segments[k] = st.segments[k]
      /\ t.segments[e].doc = s.doc /\ t.segments[e].placed = s.placed
      /\ t.segments[e].stage # "context"
      /\ t.tracker \in {st.tracker, Send(st.tracker, r)}
  <2>1. CASE st.connected /\ HasSnapshot(s.buffer)
    <3>1. t = [st EXCEPT !.tracker = Send(@, r), !.segments[e].stage = "converting",
                         !.segments[e].awaited = st.tracker.sequence + 1]
      BY <2>1 DEF ConvertSegment
    <3> HIDE DEF t, r
    <3> QED BY <1>2, <3>1 DEF Fine, Good, IsState, SegmentFields
  <2>2. CASE ~(st.connected /\ HasSnapshot(s.buffer))
    <3>1. t = [st EXCEPT !.segments[e] = FinishedLocally(s)] BY <2>2 DEF ConvertSegment
    <3>2. /\ FinishedLocally(s).doc = s.doc /\ FinishedLocally(s).placed = s.placed
          /\ FinishedLocally(s).stage = "finished"
      BY <1>2 DEF FinishedLocally, SegmentFields
    <3> HIDE DEF t, r
    <3> QED BY <3>1, <3>2 DEF Fine, Good, IsState
  <2> QED BY <2>1, <2>2
<1>4. r.epoch = e BY DEF RequestOf
<1> HIDE DEF t, r
<1>5. \A k \in DOMAIN t.tracker.pending :
        \/ k \in DOMAIN st.tracker.pending /\ t.tracker.pending[k] = st.tracker.pending[k]
        \/ t.tracker.pending[k].epoch = e
  BY <1>3, <1>4, SendFacts DEF Fine, Good, Counted
<1> QED BY <1>3, <1>5, AsideFrame DEF t

LEMMA AsideConvertWrite ==
  ASSUME NEW st, NEW waits \in BOOLEAN, Fine(st, waits), NEW o \in Nat, NEW f \in Nat,
         NEW D \in Docs, NEW x, NEW y,
         Scene(st, o, f, D, x), NEW e \in DOMAIN st.segments, y = x \/ x = e
  PROVE  Aside(st, WriteIfFinished(ConvertSegment(st, e), e), o, f, D, y)
<1> DEFINE t == ConvertSegment(st, e)
<1>1. Aside(st, t, o, f, D, y) BY AsideConvert
<1>2. Fine(t, waits) /\ e \in DOMAIN t.segments BY FineConvert
<1> HIDE DEF t
<1>3. Aside(t, WriteIfFinished(t, e), o, f, D, y) BY <1>1, <1>2, AsideWrite DEF Aside
<1> QED BY <1>1, <1>3, AsideThen, FineMore DEF t

\* The composition left becomes a segment.
LEMMA SceneSealed ==
  ASSUME NEW st, NEW waits \in BOOLEAN, Fine(st, waits), NEW f, NEW D,
         Staged(st, f, D, 0), NEW o, o = st.composition.epoch, o # 0,
         NEW t, t.queue = st.queue, t.nextEpoch = st.nextEpoch,
         DOMAIN t.segments = DOMAIN st.segments \union {o},
         \A e \in DOMAIN st.segments : t.segments[e] = st.segments[e],
         t.segments[o].doc = D, NEW x,
         t.segments[o].stage = "context" => x = o \/ ~st.composition.preceding
  PROVE  Scene(t, o, f, D, x) /\ Carries(st, o, t, o, D)
BY FineMore DEF Staged, Scene, Opened, Carries, Keeps

LEMMA NewSegmentFacts ==
  ASSUME NEW c, NEW inFlight \in BOOLEAN
  PROVE  LET s == NewSegment(c, inFlight)
         IN  s.doc = c.doc /\ ~s.placed /\ (s.stage = "context" <=> ~inFlight)
BY DEF NewSegment, SegmentOf

LEMMA StagedSeal ==
  ASSUME NEW st, NEW waits \in BOOLEAN, Fine(st, waits), NEW f \in Nat, NEW D \in Docs,
         Staged(st, f, D, 0), st.composition.epoch # 0
  PROVE  LET t == Seal(st)
         IN  Onward(st, t, f, D, 0) /\ t.nextEpoch = st.nextEpoch /\ t.composition.epoch = 0
<1> DEFINE frozen == FreezeReadings(st.composition.buffer)
           whole  == WithBuffer(st, frozen)
           c      == [st.composition EXCEPT !.buffer = frozen]
           o      == st.composition.epoch
           flying == InFlight(st, frozen)
           added  == Added(Leave(whole), c, flying)
           next   == AddSegment(Leave(whole), c, flying)
           edit   == SealEdit(o)
           t      == Run(next, D, edit)
<1>1. SealMakes(st, frozen, waits) BY SealAdded
<1>2. Seal(st) = IF Settled(c) THEN Commit(whole) ELSE Run(next, c.doc, SealEdit(c.epoch))
  BY DEF Seal
<1>3. next = IF ~flying /\ c.preceding
             THEN WriteIfFinished(ConvertSegment(added, c.epoch), c.epoch)
             ELSE added
  BY DEF AddSegment, Added
<1>4. /\ Fine(whole, waits) /\ whole.composition = c /\ whole.nextEpoch = st.nextEpoch
      /\ Fine(added, waits) /\ added.composition = NoComposition
      /\ added.nextEpoch = st.nextEpoch /\ added.queue = st.queue
      /\ DOMAIN added.segments = DOMAIN st.segments \union {o}
      /\ added.segments[o] = NewSegment(c, flying)
      /\ \A e \in DOMAIN st.segments : added.segments[e] = st.segments[e]
      /\ c.epoch = o /\ c.preceding = st.composition.preceding
  BY <1>1 DEF SealMakes
<1>5. c.doc = D /\ o \in Nat \ {0} /\ o \in 1..(st.nextEpoch - 1) /\ st.nextEpoch \in Nat
  BY <1>1, FineMore DEF SealMakes, Staged, Opened
<1>6. flying \in BOOLEAN BY DEF InFlight
<1>7. LET w == WithBuffer(st, frozen)
      IN  Staged(w, f, D, 0) /\ Moved(st, w, D)
  BY StagedBuffer
<1>8. /\ added.segments[o].doc = D /\ ~added.segments[o].placed
      /\ (added.segments[o].stage = "context" <=> ~flying)
  <2>1. LET s == NewSegment(c, flying)
        IN  s.doc = c.doc /\ ~s.placed /\ (s.stage = "context" <=> ~flying)
    BY <1>6, NewSegmentFacts
  <2> QED BY <1>4, <1>5, <2>1
<1> HIDE DEF frozen, c, flying, added, next
<1>9. CASE Settled(c)
  <2>1. Staged(whole, f, D, 0) /\ Moved(st, whole, D) /\ whole.composition.epoch # 0
    BY <1>4, <1>5, <1>7
  <2> HIDE DEF whole
  <2>2. /\ Onward(whole, Commit(whole), f, D, 0) /\ Commit(whole).nextEpoch = st.nextEpoch
        /\ Commit(whole).composition.epoch = 0
    BY <1>4, <2>1, StagedCommit
  <2>3. Fine(Commit(whole), waits) BY <1>4, <2>1, FineCommit
  <2>4. ToShow(Commit(whole), D) BY <2>2 DEF ToShow
  <2>5. Epochs(st, whole, Commit(whole)) BY <1>4, <1>5, <2>2 DEF Epochs
  <2>6. Onward(st, Commit(whole), f, D, 0) BY <2>1, <2>2, <2>4, <2>5, MovedThen
  <2> QED BY <1>2, <1>9, <2>2, <2>6
<1>10. CASE ~Settled(c)
  <2> HIDE DEF whole
  <2> DEFINE x == IF ~flying /\ c.preceding THEN o ELSE 0
  <2>1. added.segments[o].stage = "context" => x = o \/ ~st.composition.preceding
    BY <1>4, <1>8
  <2>2. Scene(added, o, f, D, x) /\ Carries(st, o, added, o, D)
    BY <1>4, <1>5, <1>8, <2>1, SceneSealed
  <2>3. /\ Scene(next, o, f, D, 0) /\ Carries(added, o, next, o, D)
        /\ next.nextEpoch = st.nextEpoch /\ next.composition = added.composition
        /\ Fine(next, waits)
    <3>1. CASE ~flying /\ c.preceding
      <4>1. x = o /\ next = WriteIfFinished(ConvertSegment(added, o), o) BY <1>3, <1>4, <3>1
      <4>2. o \in DOMAIN added.segments BY <1>4
      <4> HIDE DEF x
      <4>3. Aside(added, next, o, f, D, 0)
        BY <1>4, <1>5, <2>2, <4>1, <4>2, AsideConvertWrite
      <4>4. Fine(next, waits) BY <1>4, <4>1, <4>2, FineConvertWrite
      <4> QED BY <1>4, <4>3, <4>4 DEF Aside
    <3>2. CASE ~(~flying /\ c.preceding)
      BY <1>3, <3>2, <1>4, <1>5, <2>2 DEF Carries, Keeps
    <3> QED BY <3>1, <3>2
  <2>4. edit \in QueuedEdits(next.nextEpoch) /\ Ends(edit) /\ edit.epoch = o
    BY <1>5, <2>3, PlainEdits DEF SealEdit, Ends
  <2>5. o \in DOMAIN next.segments /\ next.segments[o].doc = D /\ ~next.segments[o].placed
    BY <1>4, <1>8, <2>3 DEF Carries, Keeps
  <2> HIDE DEF edit, t
  <2>6. Scene(t, 0, f, D, 0) /\ Carries(next, o, t, 0, D)
    BY <1>5, <2>3, <2>4, <2>5, SceneEnd DEF t
  <2>7. RunMakes(next, t, D, D, edit) BY <1>5, <2>3, <2>4, RunFacts DEF t
  <2>8. t.composition.epoch = 0 /\ t.nextEpoch = st.nextEpoch
    BY <1>4, <2>3, <2>7 DEF RunMakes, NoComposition, NewComposition
  <2>9. Seal(st) = t BY <1>2, <1>4, <1>5, <1>10 DEF t, edit
  <2>10. Fine(t, waits) BY <2>9, FineSeal
  <2>11. Opened(t, D, 0) /\ ToShow(t, D) BY <2>8, <2>10, OpenedNone
  <2>12. Carries(st, o, next, o, D)
    BY <1>4, <1>5, <2>2, <2>3, CarriesOn
  <2>13. Carries(st, o, t, 0, D) BY <1>5, <2>3, <2>6, <2>8, <2>12, CarriesOn
  <2> QED BY <2>6, <2>8, <2>9, <2>11, <2>13 DEF Onward, Staged, Moved
<1> QED BY <1>9, <1>10

\* Edits that write the segments are queued, and no others.
MoreWrites(q, r) ==
  /\ \A k \in DOMAIN q : k \in DOMAIN r /\ r[k] = q[k]
  /\ \A k \in DOMAIN r : (k \in DOMAIN q /\ r[k] = q[k]) \/ r[k] = WriteEdit

LEMMA AsideFinish ==
  ASSUME NEW st, NEW waits \in BOOLEAN, Fine(st, waits), NEW o \in Nat, NEW f \in Nat,
         NEW D \in Docs, NEW x, Scene(st, o, f, D, x)
  PROVE  LET t == FinishLocally(st)
         IN  Aside(st, t, o, f, D, 0) /\ \A e \in DOMAIN t.segments : Finished(t.segments[e])
<1> DEFINE t == FinishLocally(st)
           S == QueuedEdits(st.nextEpoch)
<1>1. /\ t.composition = st.composition /\ t.tracker = st.tracker /\ t.nextEpoch = st.nextEpoch
      /\ t.segments = AllFinished(st.segments)
      /\ t.queue = [d \in Docs |->
                     IF \E e \in DOMAIN st.segments : st.segments[e].doc = d
                     THEN Append(st.queue[d], WriteEdit) ELSE st.queue[d]]
  BY DEF FinishLocally, Fine, Good, IsState
<1>2. /\ DOMAIN t.segments = DOMAIN st.segments
      /\ \A e \in DOMAIN st.segments : t.segments[e] = FinishedLocally(st.segments[e])
  BY <1>1 DEF AllFinished
<1> HIDE DEF t
<1>3. \A e \in DOMAIN st.segments : /\ t.segments[e].doc = st.segments[e].doc
                                    /\ t.segments[e].placed = st.segments[e].placed
                                    /\ t.segments[e].stage = "finished"
  BY ZenonT(30), <1>2 DEF FinishedLocally, Fine, Good, IsState, SegmentFields
<1>4. \A c \in Docs : t.queue[c] \in {st.queue[c], Append(st.queue[c], WriteEdit)} BY <1>1
<1>5. /\ st.nextEpoch \in Nat /\ WriteEdit \in S /\ Proper(S)
      /\ WriteEdit.epoch = 0 /\ ~Ends(WriteEdit) /\ ~Types(WriteEdit)
  BY FineParts, OtherEdits, ProperEdits DEF WriteEdit, Ends, Types
<1>6. \A c \in Docs : st.queue[c] \in Seq(S) BY DEF Fine, Typed1
<1> HIDE DEF S
<1>7. ASSUME NEW c \in Docs PROVE MoreWrites(st.queue[c], t.queue[c])
  <2> DEFINE q == st.queue[c]
             r == Append(q, WriteEdit)
  <2>1. q \in Seq(S) BY <1>6
  <2>2. /\ Len(q) \in Nat /\ DOMAIN q = 1..Len(q) /\ DOMAIN r = 1..(Len(q) + 1)
        /\ r[Len(q) + 1] = WriteEdit /\ \A k \in 1..Len(q) : r[k] = q[k]
    BY <1>5, <2>1, Appended
  <2> HIDE DEF q, r
  <2>3. MoreWrites(q, r) /\ MoreWrites(q, q) BY <2>2 DEF MoreWrites
  <2>4. t.queue[c] \in {q, r} BY <1>4 DEF q, r
  <2> QED BY <2>3, <2>4 DEF q
<1>8. \A c \in Docs : \A z : Has(st.queue[c], z) => Has(t.queue[c], z)
  BY <1>7 DEF MoreWrites, Has
<1>9. \A c \in Docs : \A z : z # WriteEdit /\ Has(t.queue[c], z) => Has(st.queue[c], z)
  BY <1>7 DEF MoreWrites, Has
<1>10. \A e : ShowQueued(st.queue[D], e) => ShowQueued(t.queue[D], e)
  BY <1>7 DEF MoreWrites, ShowQueued
<1>11. \A e : e # 0 /\ InQueue(t.queue[D], e) => InQueue(st.queue[D], e)
  BY <1>5, <1>7 DEF MoreWrites, InQueue
<1>12. ASSUME NEW c \in Docs \ {D}, NEW k \in DOMAIN t.queue[c] PROVE t.queue[c][k].epoch = 0
  BY <1>5, <1>7 DEF MoreWrites, Scene
<1>13. Flow(t.queue[D], o, f)
  BY <1>6, <1>5, FlowMore, <1>4 DEF Scene
<1>14. \A e : Has(t.queue[D], SealEdit(e)) =>
         e \in DOMAIN t.segments /\ t.segments[e].doc = D /\ ~t.segments[e].placed
  BY <1>2, <1>3, <1>9 DEF SealEdit, WriteEdit, Scene
<1>15. \A e \in DOMAIN t.segments : t.segments[e].stage = "finished" BY <1>2, <1>3
<1>16. Scene(t, o, f, D, 0) BY <1>12, <1>13, <1>14, <1>15 DEF Scene
<1>17. Carries(st, o, t, o, D) BY <1>1, <1>2, <1>3, <1>5, <1>11 DEF Carries, Keeps
<1>18. ToShow(st, D) => ToShow(t, D) BY <1>1, <1>10 DEF ToShow
<1>19. Opened(st, D, 0) => Opened(t, D, 0) BY <1>1, <1>8 DEF Opened
<1> QED BY <1>1, <1>15, <1>16, <1>17, <1>18, <1>19 DEF Aside, Finished, t

LEMMA AsideMergeSealed ==
  ASSUME NEW st, NEW waits \in BOOLEAN, Fine(st, waits), NEW o \in Nat, NEW f \in Nat,
         NEW D \in Docs, Scene(st, o, f, D, 0),
         NEW sequence, NEW request, NEW outcome,
         Requested(request, sequence, st.tracker.asked),
         outcome.predicted \in 0..Len(request.snapshot)
  PROVE  Aside(st, MergeSealed(st, sequence, request, outcome), o, f, D, 0)
<1> DEFINE e == request.epoch
           t == Merges(st, sequence, request, outcome)
<1>1. CASE e \notin DOMAIN st.segments
  BY <1>1, FineMore DEF MergeSealed, Aside, Carries, Keeps
<1>2. CASE e \in DOMAIN st.segments
  <2>1. MergeSealed(st, sequence, request, outcome) = WriteIfFinished(t, e)
    BY <1>2 DEF MergeSealed, Merges
  <2>2. Fine(t, waits) /\ DOMAIN t.segments = DOMAIN st.segments BY <1>2, FineMerged
  <2>3. /\ t.composition = st.composition /\ t.tracker = st.tracker
        /\ t.nextEpoch = st.nextEpoch /\ t.queue = st.queue
        /\ t.segments = [st.segments EXCEPT ![e] = Merged(st.segments[e], sequence, request, outcome)]
    BY DEF Merges, Fine, Good, IsState
  <2> HIDE DEF t
  <2>4. /\ t.segments[e].doc = st.segments[e].doc /\ t.segments[e].placed = st.segments[e].placed
        /\ t.segments[e].stage = "context" => st.segments[e].stage = "context"
    BY <1>2, <2>3 DEF Fine, Good, IsState, Merged, SegmentFields
  <2>5. \A k \in DOMAIN st.segments : k # e => t.segments[k] = st.segments[k] BY <1>2, <2>3
  <2>6. Aside(st, t, o, f, D, 0) BY <1>2, <2>2, <2>3, <2>4, <2>5, AsideFrame
  <2>7. Aside(t, WriteIfFinished(t, e), o, f, D, 0)
    BY <1>2, <2>2, <2>6, AsideWrite DEF Aside
  <2> QED BY <2>1, <2>6, <2>7, AsideThen, FineMore
<1> QED BY <1>1, <1>2

\* A method aside of the composition, for one whose own scene lacks the segment x.
LEMMA AsideMoves ==
  ASSUME NEW st, NEW t, NEW f, NEW D, Opened(st, D, 0),
         Aside(st, t, st.composition.epoch, f, D, 0)
  PROVE  Onward(st, t, f, D, 0)
BY DEF Aside, Onward, Staged, Moved, SameDrawing

LEMMA StagedContextReady ==
  ASSUME NEW st, NEW waits \in BOOLEAN, Fine(st, waits), NEW f \in Nat, NEW D \in Docs,
         NEW epoch \in Nat \ {0}, Staged(st, f, D, epoch)
  PROVE  LET t == ContextReady(st, epoch)
         IN  Onward(st, t, f, D, 0) /\ t.nextEpoch = st.nextEpoch
<1> DEFINE o == st.composition.epoch
<1>1. st.nextEpoch \in Nat /\ o \in Nat BY FineMore
<1>2. CASE o = epoch
  <2> DEFINE t == Preceding(st)
  <2>1. /\ Fine(t, waits)
        /\ t.tracker = st.tracker /\ t.nextEpoch = st.nextEpoch
        /\ t.segments = st.segments /\ t.queue = st.queue
        /\ t.composition.epoch = st.composition.epoch
        /\ t.composition.doc = st.composition.doc /\ t.composition.preceding
        /\ t.composition.buffer = st.composition.buffer
    BY FinePreceding
  <2>2. ContextReady(st, epoch) = Request(t) BY <1>2 DEF ContextReady, Preceding
  <2> HIDE DEF t
  <2>3. epoch \notin DOMAIN st.segments BY <1>2, FineMore
  <2>4. Keeps(st.segments, t.segments) /\ Requesting(st, t, D) BY <2>1 DEF Keeps, Requesting
  <2>5. Onward(st, t, f, D, 0) BY <1>1, <2>1, <2>3, <2>4, StagedFrame
  <2>6. Onward(t, Request(t), f, D, 0) /\ Request(t).nextEpoch = t.nextEpoch
    BY <2>1, <2>5, StagedRequest DEF Onward
  <2>7. Epochs(st, t, Request(t)) BY <1>1, <2>1, <2>6 DEF Epochs
  <2> QED BY <2>1, <2>2, <2>5, <2>6, <2>7, OnwardThen
<1>3. CASE o # epoch /\ epoch \notin DOMAIN st.segments
  BY <1>3, <1>1, StagedFrame DEF ContextReady, Keeps, Requesting
<1>4. CASE o # epoch /\ epoch \in DOMAIN st.segments
  <2> DEFINE t == KnownSegment(st, epoch)
             u == WriteIfFinished(ConvertSegment(t, epoch), epoch)
  <2>1. /\ Fine(t, waits)
        /\ t.composition = st.composition /\ t.tracker = st.tracker
        /\ t.nextEpoch = st.nextEpoch /\ t.queue = st.queue
        /\ DOMAIN t.segments = DOMAIN st.segments
        /\ \A k \in DOMAIN st.segments : k # epoch => t.segments[k] = st.segments[k]
        /\ t.segments[epoch].doc = st.segments[epoch].doc
        /\ t.segments[epoch].placed = st.segments[epoch].placed
        /\ t.segments[epoch].stage = st.segments[epoch].stage
    BY <1>4, FineKnown
  <2>2. ContextReady(st, epoch) = IF st.segments[epoch].stage # "context" THEN t ELSE u
    BY <1>4 DEF ContextReady, KnownSegment
  <2>3. Scene(st, o, f, D, epoch) /\ Opened(st, D, 0) BY <1>4 DEF Staged, Opened
  <2>4. epoch \in DOMAIN t.segments BY <1>4, <2>1
  <2> HIDE DEF t
  <2>5. CASE st.segments[epoch].stage # "context"
    BY <1>4, <2>1, <2>3, <2>5, AsideFrame, <2>2, AsideMoves
  <2>6. CASE st.segments[epoch].stage = "context"
    <3>1. Aside(st, t, o, f, D, epoch) BY <1>4, <2>1, <2>3, AsideFrame
    <3>2. Aside(t, u, o, f, D, 0)
      <4>1. Scene(t, o, f, D, epoch) /\ epoch \in Nat BY <3>1 DEF Aside
      <4> HIDE DEF o
      <4> QED BY <1>1, <2>1, <2>4, <4>1, AsideConvertWrite DEF u
    <3> HIDE DEF u
    <3>3. Aside(st, u, o, f, D, 0) BY <1>1, <3>1, <3>2, AsideThen
    <3>4. u.nextEpoch = st.nextEpoch BY <3>3 DEF Aside
    <3> QED BY <2>2, <2>3, <2>6, <3>3, <3>4, AsideMoves
  <2> QED BY <2>5, <2>6
<1> QED BY <1>2, <1>3, <1>4

\* Fewer requests are pending.
WithTracker(st, tr) == [st EXCEPT !.tracker = tr]

LEMMA StagedFewer ==
  ASSUME NEW st, NEW waits \in BOOLEAN, Fine(st, waits), NEW f, NEW D, Staged(st, f, D, 0),
         NEW tr, DOMAIN tr.pending \subseteq DOMAIN st.tracker.pending,
         \A s \in DOMAIN tr.pending : tr.pending[s] = st.tracker.pending[s],
         NEW t, t = WithTracker(st, tr)
  PROVE  /\ Onward(st, t, f, D, 0) /\ t.nextEpoch = st.nextEpoch /\ t.composition = st.composition
         /\ t.queue = st.queue /\ t.segments = st.segments
BY FineMore, StagedSame DEF WithTracker, Fine, Good, IsState, Requesting

LEMMA StagedBackendLost ==
  ASSUME NEW st, Fine(st, FALSE), NEW f \in Nat, NEW D \in Docs, Staged(st, f, D, 0)
  PROVE  LET t == BackendLost(st)
         IN  Onward(st, t, f, D, 0) /\ t.nextEpoch = st.nextEpoch
<1> DEFINE forgot == [st EXCEPT !.tracker = Forget(@)]
           lost   == FinishLocally(forgot)
           c      == st.composition
           o      == c.epoch
           edit   == LostEdit(o)
           u      == Run(lost, D, edit)
           t      == Run([lost EXCEPT !.composition.sent = NotSent], D, edit)
<1>1. BackendLost(st) = IF o = 0 THEN lost
                        ELSE Run([lost EXCEPT !.composition.sent = NotSent], c.doc, edit)
  BY DEF BackendLost
<1>2. Fine(forgot, FALSE) BY FineForget
<1>3. /\ Onward(st, forgot, f, D, 0) /\ forgot.nextEpoch = st.nextEpoch
      /\ forgot.composition = c
  <2> DEFINE tr == Forget(st.tracker)
  <2>1. tr.pending = <<>> BY DEF Forget, Fine, Good, IsState
  <2>2. forgot = WithTracker(st, tr) BY DEF forgot, WithTracker
  <2>3. \A s \in DOMAIN tr.pending : s \in DOMAIN st.tracker.pending
                                     /\ tr.pending[s] = st.tracker.pending[s]
    BY <2>1
  <2>4. DOMAIN tr.pending \subseteq DOMAIN st.tracker.pending BY <2>3
  <2> HIDE DEF tr, forgot, c
  <2>5. /\ Onward(st, forgot, f, D, 0) /\ forgot.nextEpoch = st.nextEpoch
        /\ forgot.composition = st.composition
    BY ZenonT(30), <2>2, <2>3, <2>4, StagedFewer
  <2> QED BY <2>5 DEF c
<1>4. o \in Nat /\ st.nextEpoch \in Nat BY FineMore
<1> HIDE DEF forgot
<1>5. Fine(lost, FALSE) BY <1>2, FineFinishLocally
<1>6. Aside(forgot, lost, o, f, D, 0)
  BY <1>2, <1>3, <1>4, AsideFinish DEF Onward, Staged
<1>7. Onward(forgot, lost, f, D, 0) BY <1>3, <1>6, AsideMoves DEF Onward, Staged
<1>8. lost.nextEpoch = st.nextEpoch /\ lost.composition = c BY <1>3, <1>6 DEF Aside
<1> HIDE DEF lost
<1>9. Onward(st, lost, f, D, 0)
  BY <1>3, <1>4, <1>7, <1>8, OnwardThen DEF Epochs
<1>10. CASE o = 0 BY <1>1, <1>8, <1>9, <1>10
<1>11. CASE o # 0
  <2>1. o \in 1..(st.nextEpoch - 1) /\ c.doc = D
    BY <1>11, FineMore DEF Staged, Opened
  <2>2. edit \in QueuedEdits(lost.nextEpoch) BY <1>4, <1>8, <2>1, PlainEdits
  <2>3. edit.epoch = o /\ ~Ends(edit) /\ ~Types(edit) BY DEF LostEdit, Ends, Types
  <2>4. Scene(lost, o, f, D, 0) /\ Opened(lost, D, 0) BY <1>8, <1>9 DEF Onward, Staged
  <2> HIDE DEF edit
  <2>5. /\ Scene(u, o, f, D, 0) /\ Carries(lost, o, u, o, D) /\ SameDrawing(lost, u, D)
        /\ Opened(u, D, 0)
    BY <1>4, <1>5, <2>2, <2>3, <2>4, SceneRun
  <2>6. RunMakes(lost, u, D, D, edit) BY <1>5, <2>2, RunFacts
  <2>7. u.composition = c /\ u.nextEpoch = st.nextEpoch BY <1>8, <2>6 DEF RunMakes
  <2>8. Staged(u, f, D, 0) /\ Onward(lost, u, f, D, 0)
    BY <1>8, <2>5, <2>7 DEF Onward, Staged, Moved
  <2>9. /\ t.queue = u.queue /\ t.segments = u.segments /\ t.tracker = u.tracker
        /\ t.nextEpoch = u.nextEpoch
        /\ t.composition.epoch = c.epoch /\ t.composition.doc = c.doc
        /\ t.composition.preceding = c.preceding /\ t.composition.buffer = c.buffer
    BY <1>5, <1>8 DEF Run, Fine, Good, IsState
  <2>10. 0 \notin DOMAIN u.segments
    BY <1>5, FineMore, <2>6 DEF RunMakes
  <2> HIDE DEF t, u, c
  <2>11. Onward(u, t, f, D, 0)
    BY <1>4, <2>7, <2>8, <2>9, <2>10, StagedSame DEF Requesting
  <2>12. Onward(lost, t, f, D, 0)
    BY <1>4, <1>8, <2>7, <2>8, <2>9, <2>11, OnwardThen DEF Epochs
  <2>13. Onward(st, t, f, D, 0)
    BY <1>4, <1>8, <1>9, <2>7, <2>9, <2>12, OnwardThen DEF Epochs
  <2>14. BackendLost(st) = t BY <1>1, <1>11, <2>1 DEF t
  <2> QED BY <2>7, <2>9, <2>13, <2>14
<1> QED BY <1>10, <1>11

LEMMA StagedOpen ==
  ASSUME NEW st, NEW waits \in BOOLEAN, Fine(st, waits), NEW f \in Nat, NEW D \in Docs,
         Staged(st, f, D, 0), f < st.nextEpoch
  PROVE  LET t == Open(st, D)
         IN  Staged(t, f, D, 0) /\ Moved(st, t, D) /\ st.nextEpoch <= t.nextEpoch
<1>0. st.nextEpoch \in Nat BY FineMore
<1>1. CASE st.composition.epoch # 0
  BY <1>1, <1>0 DEF Open, Moved, Carries, Keeps
<1>2. CASE st.composition.epoch = 0
  <2> DEFINE n == st.nextEpoch
             c == NewComposition(n, D)
             edit == OpenEdit(n)
             t == Run([st EXCEPT !.composition = c, !.nextEpoch = @ + 1], D, edit)
             S == QueuedEdits(n + 1)
  <2>1. Open(st, D) = t BY <1>2 DEF Open
  <2>2. /\ t.composition = c /\ t.tracker = st.tracker /\ t.segments = st.segments
        /\ t.nextEpoch = n + 1
        /\ t.queue = [st.queue EXCEPT ![D] = Append(st.queue[D], edit)]
    BY DEF Run, Fine, Good, IsState
  <2>3. n \in Nat \ {0} /\ n + 1 \in Nat BY FineParts
  <2>4. c.epoch = n /\ c.doc = D BY DEF NewComposition
  <2>5. st.queue \in [Docs -> Seq(QueuedEdits(n))] BY DEF Fine, Typed1
  <2>6. /\ edit \in S /\ Proper(S) /\ QueuedEdits(n) \subseteq S
        /\ edit.epoch = n /\ ~Ends(edit) /\ ~Types(edit) /\ \A e : edit # SealEdit(e)
    <3>1. n \in 1..((n + 1) - 1) /\ n \in Nat /\ n <= n + 1 BY <2>3
    <3>2. edit \in S BY <2>3, <3>1, PlainEdits
    <3>3. Proper(S) BY <2>3, ProperEdits
    <3>4. QueuedEdits(n) \subseteq S BY <2>3, <3>1, MoreEdits
    <3> QED BY <3>2, <3>3, <3>4 DEF OpenEdit, SealEdit, Ends, Types
  <2>7. \A s \in DOMAIN st.tracker.pending : st.tracker.pending[s].epoch # n
    BY FineParts DEF Fine, Good, Counted
  <2>8. DOMAIN st.segments \subseteq 1..(n - 1) /\ \A e \in DOMAIN st.segments : st.segments[e].doc \in Docs
    BY FineMore
  <2> DEFINE q == st.queue[D]
             r == Append(q, edit)
  <2>9. q \in Seq(QueuedEdits(n)) /\ q \in Seq(S) /\ Flow(q, 0, f) BY <1>2, <2>5, <2>6 DEF Staged, Scene
  <2>10. /\ Len(q) \in Nat /\ DOMAIN q = 1..Len(q) /\ DOMAIN r = 1..(Len(q) + 1)
         /\ r[Len(q) + 1] = edit /\ \A k \in 1..Len(q) : r[k] = q[k] /\ q[k] \in QueuedEdits(n)
    <3>1. \A k \in 1..Len(q) : q[k] \in QueuedEdits(n) BY <2>9
    <3> HIDE DEF q, S
    <3> QED BY <2>6, <2>9, <3>1, Appended
  <2>11. \A k \in DOMAIN q : q[k].epoch < n
    BY <2>10 DEF QueuedEdits
  <2>12. \A k \in Docs : t.queue[k] = IF k = D THEN r ELSE st.queue[k] BY <2>2, <2>5
  <2> HIDE DEF q, r, t, S, c, edit
  <2>13. Flow(r, n, f)
    BY <2>3, <2>6, <2>9, <2>11, FlowOpen, FlowMore DEF r
  <2>14. \A k \in DOMAIN q : k \in DOMAIN r /\ r[k] = q[k] BY <2>10
  <2>15. \A k \in DOMAIN r : (k \in DOMAIN q /\ r[k] = q[k]) \/ r[k] = edit BY <2>10
  <2>16. \E k \in DOMAIN r : r[k] = edit BY <2>10
  <2>17. \A z : Has(st.queue[D], z) => Has(t.queue[D], z) BY <2>12, <2>14 DEF Has, q
  <2>18. \A k \in Docs : \A z : Has(st.queue[k], z) => Has(t.queue[k], z)
    BY <2>12, <2>17
  <2>19. \A z : z # edit /\ Has(t.queue[D], z) => Has(st.queue[D], z) BY <2>12, <2>15 DEF Has, q
  <2>20. \A e : e # n /\ InQueue(t.queue[D], e) => InQueue(st.queue[D], e)
    BY <2>6, <2>12, <2>15 DEF InQueue, q
  <2>21. Has(t.queue[D], edit) BY <2>12, <2>16 DEF Has
  <2>22. Scene(t, n, f, D, 0)
    <3>1. \A d \in Docs \ {D} : \A k \in DOMAIN t.queue[d] : t.queue[d][k].epoch = 0
      BY <2>12 DEF Staged, Scene
    <3>2. \A e : Has(t.queue[D], SealEdit(e)) =>
            e \in DOMAIN t.segments /\ t.segments[e].doc = D /\ ~t.segments[e].placed
      BY <2>2, <2>6, <2>19 DEF Staged, Scene
    <3>3. \A e \in DOMAIN t.segments : (e # 0 /\ t.segments[e].stage = "context") =>
            Has(t.queue[t.segments[e].doc], OpenEdit(e))
      BY <2>2, <2>8, <2>18 DEF Staged, Scene
    <3> QED BY <2>12, <2>13, <3>1, <3>2, <3>3 DEF Scene
  <2>23. Opened(t, D, 0) BY <2>2, <2>3, <2>4, <2>7, <2>21 DEF Opened, edit
  <2>24. Moved(st, t, D) BY <2>2, <2>3, <2>4, <2>20 DEF Moved, Carries, Keeps
  <2> QED BY <2>1, <2>2, <2>3, <2>4, <2>22, <2>23, <2>24 DEF Staged
<1> QED BY <1>1, <1>2

\* The first edit of a document is taken from its queue.
PopMakes(d, D) ==
  LET x == Head(queue[d])
      p == Popped(d)
  IN  /\ \A c \in Docs : \A z : Has(p.queue[c], z) => Has(queue[c], z)
      /\ \A c \in Docs : \A z : (Has(queue[c], z) /\ z # x) => Has(p.queue[c], z)
      /\ \A e : InQueue(p.queue[D], e) => InQueue(queue[D], e)
      /\ \A e : (ShowQueued(queue[D], e) /\ ~(x.do = "show" /\ x.epoch = e)) =>
                  ShowQueued(p.queue[D], e)
      /\ (\A c \in Docs \ {D} : \A k \in DOMAIN queue[c] : queue[c][k].epoch = 0) =>
           /\ x.epoch # 0 => d = D
           /\ \A c \in Docs \ {D} : \A k \in DOMAIN p.queue[c] : p.queue[c][k].epoch = 0
      /\ p.queue[D] = IF d = D THEN Tail(queue[D]) ELSE queue[D]

LEMMA PopFacts ==
  ASSUME TInv, NEW d \in Docs, NEW D \in Docs, queue[d] # <<>>
  PROVE  PopMakes(d, D)
<1> DEFINE x == Head(queue[d])
           p == Popped(d)
           q == queue[d]
           r == Tail(q)
           S == QueuedEdits(nextEpoch)
<1>1. p.queue = [queue EXCEPT ![d] = r] BY FinePopped
<1>2. queue \in [Docs -> Seq(S)] BY DEF TInv, Typed1, Now
<1>3. q \in Seq(S) /\ q # <<>> BY <1>2
<1> HIDE DEF S, p
<1>4. /\ x = q[1] /\ 1 \in DOMAIN q /\ Len(q) \in Nat \ {0} /\ DOMAIN q = 1..Len(q)
      /\ DOMAIN r = 1..(Len(q) - 1)
      /\ \A k \in 1..(Len(q) - 1) : r[k] = q[k + 1] /\ k + 1 \in DOMAIN q
  BY <1>3, Rest
<1>5. \A c \in Docs : p.queue[c] = IF c = d THEN r ELSE queue[c] BY <1>1, <1>2
<1> HIDE DEF q, r, x
<1>6. \A k \in DOMAIN r : \E j \in DOMAIN q : q[j] = r[k] BY <1>4
<1>7. \A j \in DOMAIN q : q[j] = x \/ \E k \in DOMAIN r : r[k] = q[j]
  <2> TAKE j \in DOMAIN q
  <2>1. CASE j = 1 BY <1>4, <2>1
  <2>2. CASE j # 1
    <3>1. j - 1 \in 1..(Len(q) - 1) /\ (j - 1) + 1 = j BY <1>4, <2>2
    <3> QED BY <1>4, <3>1
  <2> QED BY <2>1, <2>2
<1>8. \A z : Has(r, z) => Has(q, z) BY <1>6 DEF Has
<1>9. \A z : (Has(q, z) /\ z # x) => Has(r, z) BY <1>7 DEF Has
<1>10. \A e : InQueue(r, e) => InQueue(q, e) BY <1>6 DEF InQueue
<1>11. \A e : (ShowQueued(q, e) /\ ~(x.do = "show" /\ x.epoch = e)) => ShowQueued(r, e)
  BY <1>7 DEF ShowQueued
<1>12. queue[d] = q BY DEF q
<1>13. \A c \in Docs : \A z : Has(p.queue[c], z) => Has(queue[c], z) BY <1>5, <1>8, <1>12
<1>14. \A c \in Docs : \A z : (Has(queue[c], z) /\ z # x) => Has(p.queue[c], z) BY <1>5, <1>9, <1>12
<1>15. \A e : InQueue(p.queue[D], e) => InQueue(queue[D], e) BY <1>5, <1>10, <1>12
<1>16. \A e : (ShowQueued(queue[D], e) /\ ~(x.do = "show" /\ x.epoch = e)) =>
                ShowQueued(p.queue[D], e)
  BY <1>5, <1>11, <1>12
<1>17. ASSUME \A c \in Docs \ {D} : \A k \in DOMAIN queue[c] : queue[c][k].epoch = 0
       PROVE  /\ x.epoch # 0 => d = D
              /\ \A c \in Docs \ {D} : \A k \in DOMAIN p.queue[c] : p.queue[c][k].epoch = 0
  <2>1. x.epoch # 0 => d = D BY <1>4, <1>12, <1>17
  <2>2. ASSUME NEW c \in Docs \ {D}, NEW k \in DOMAIN p.queue[c] PROVE p.queue[c][k].epoch = 0
    <3>1. CASE c # d BY <1>5, <1>17, <3>1
    <3>2. CASE c = d
      <4>1. k \in DOMAIN r /\ p.queue[c][k] = r[k] BY <1>5, <3>2
      <4>2. PICK j \in DOMAIN q : q[j] = r[k] BY <1>6, <4>1
      <4> QED BY <1>12, <1>17, <3>2, <4>1, <4>2
    <3> QED BY <3>1, <3>2
  <2> QED BY <2>1, <2>2
<1>18. p.queue[D] = IF d = D THEN Tail(queue[D]) ELSE queue[D] BY <1>5 DEF q, r
<1>19. x = Head(queue[d]) BY DEF x, q
<1> HIDE DEF p
<1> QED BY <1>13, <1>14, <1>15, <1>16, <1>17, <1>18, <1>19 DEF PopMakes, p

-----------------------------------------------------------------------------
(***************************************************************************)
(* Where the text of the compositions is                                   *)
(***************************************************************************)
\* The epochs of which something is still to come in D.
InUse(st, o, f, D) ==
  {e \in 1..(st.nextEpoch - 1) : e \in {o, f} \/ InQueue(st.queue[D], e)}

\* The composition shown is the last piece of D; no other piece is of an epoch in
\* use (inUse), and each tracked range is that of a segment in its document.
Standing(next, segs, inUse, sh, rg, tx, D) ==
  /\ tx \in [Docs -> Seq(PieceType)]
  /\ sh = NotShown \/ /\ sh = [epoch |-> sh.epoch, doc |-> D] /\ sh.epoch \in inUse
                      /\ tx[D] # <<>> /\ tx[D][Len(tx[D])].epoch = sh.epoch
  /\ \A d \in Docs : \A i \in 1..Len(tx[d]) :
       /\ tx[d][i].epoch < next
       /\ tx[d][i].epoch \in inUse => d = D /\ tx[d][i].epoch = sh.epoch /\ i = Len(tx[D])
  /\ \A r \in rg : /\ r \in DOMAIN segs /\ segs[r].placed /\ r \notin inUse
                   /\ PiecesOf(tx[segs[r].doc], r) # {}

LEMMA StandsOn ==
  ASSUME NEW next \in Nat, NEW more \in Nat, next <= more, NEW segs, NEW later,
         NEW U, NEW V, V \subseteq Nat \ {0}, \A e \in V : e < next => e \in U,
         DOMAIN segs \subseteq 1..(next - 1),
         NEW sh, NEW rg, NEW tx, NEW D, Standing(next, segs, U, sh, rg, tx, D),
         sh.epoch = 0 \/ sh.epoch \in V, 0 \notin U,
         \A r \in rg : r \in DOMAIN later /\ later[r].doc = segs[r].doc /\ later[r].placed
  PROVE  Standing(more, later, V, sh, rg, tx, D)
<1>1. ASSUME NEW d \in Docs, NEW i \in 1..Len(tx[d])
      PROVE  /\ tx[d][i].epoch < more
             /\ tx[d][i].epoch \in V => d = D /\ tx[d][i].epoch = sh.epoch /\ i = Len(tx[D])
  <2>1. tx[d] \in Seq(PieceType) BY DEF Standing
  <2>2. tx[d][i] \in PieceType BY <2>1
  <2>3. tx[d][i].epoch \in Nat BY <2>2 DEF PieceType
  <2>4. tx[d][i].epoch < next BY DEF Standing
  <2>5. tx[d][i].epoch < more BY <2>3, <2>4
  <2>6. tx[d][i].epoch \in V => tx[d][i].epoch \in U BY <2>4
  <2> QED BY <2>5, <2>6 DEF Standing
<1>2. ASSUME NEW r \in rg
      PROVE  /\ r \in DOMAIN later /\ later[r].placed /\ r \notin V
             /\ PiecesOf(tx[later[r].doc], r) # {}
  <2>1. r \in DOMAIN segs /\ r \notin U /\ PiecesOf(tx[segs[r].doc], r) # {} BY DEF Standing
  <2>2. r < next BY <2>1
  <2> QED BY <2>1, <2>2
<1>3. sh = NotShown \/ /\ sh = [epoch |-> sh.epoch, doc |-> D] /\ sh.epoch \in V
                       /\ tx[D] # <<>> /\ tx[D][Len(tx[D])].epoch = sh.epoch
  BY DEF Standing
<1>4. tx \in [Docs -> Seq(PieceType)] BY DEF Standing
<1> QED BY <1>1, <1>2, <1>3, <1>4 DEF Standing

\* The pieces change, but for their epochs.
LEMMA StandsText ==
  ASSUME NEW next, NEW segs, NEW U, NEW sh, NEW rg, NEW tx, NEW D \in Docs,
         Standing(next, segs, U, sh, rg, tx, D), \A r \in rg : segs[r].doc \in Docs,
         NEW tx2, tx2 \in [Docs -> Seq(PieceType)],
         \A d \in Docs : SameEpochs(tx[d], tx2[d])
  PROVE  Standing(next, segs, U, sh, rg, tx2, D)
<1>1. \A d \in Docs : /\ tx[d] \in Seq(PieceType) /\ tx2[d] \in Seq(PieceType)
                      /\ Len(tx2[d]) = Len(tx[d])
                      /\ \A i \in 1..Len(tx[d]) : tx2[d][i].epoch = tx[d][i].epoch
  BY DEF Standing, SameEpochs
<1>2. tx2 \in [Docs -> Seq(PieceType)] OBVIOUS
<1>3. \A d \in Docs : Len(tx[d]) \in Nat /\ DOMAIN tx[d] = 1..Len(tx[d]) /\ DOMAIN tx2[d] = 1..Len(tx[d])
  BY <1>1
<1>4. \A d \in Docs : \A r : PiecesOf(tx[d], r) # {} => PiecesOf(tx2[d], r) # {}
  <2> TAKE d \in Docs
  <2> SUFFICES ASSUME NEW r, PiecesOf(tx[d], r) # {} PROVE PiecesOf(tx2[d], r) # {} OBVIOUS
  <2>1. PICK i \in 1..Len(tx[d]) : tx[d][i].epoch = r BY <1>3 DEF PiecesOf
  <2>2. i \in PiecesOf(tx2[d], r) BY <1>1, <1>3, <2>1 DEF PiecesOf
  <2> QED BY <2>2
<1>5. tx[D] # <<>> => tx2[D] # <<>> /\ Len(tx[D]) \in 1..Len(tx[D])
  BY <1>1
<1>6. sh = NotShown \/ /\ sh = [epoch |-> sh.epoch, doc |-> D] /\ sh.epoch \in U
                       /\ tx2[D] # <<>> /\ tx2[D][Len(tx2[D])].epoch = sh.epoch
  BY <1>1, <1>5 DEF Standing
<1>7. \A d \in Docs : \A i \in 1..Len(tx2[d]) :
        /\ tx2[d][i].epoch < next
        /\ tx2[d][i].epoch \in U => d = D /\ tx2[d][i].epoch = sh.epoch /\ i = Len(tx2[D])
  BY <1>1 DEF Standing
<1>8. \A r \in rg : /\ r \in DOMAIN segs /\ segs[r].placed /\ r \notin U
                    /\ PiecesOf(tx2[segs[r].doc], r) # {}
  BY <1>4 DEF Standing
<1> QED BY <1>2, <1>6, <1>7, <1>8 DEF Standing

\* What was shown is not any more, and not in use.
LEMMA StandsUnshown ==
  ASSUME NEW next, NEW segs, NEW U, NEW sh, NEW rg, NEW tx, NEW D,
         Standing(next, segs, U, sh, rg, tx, D),
         NEW V, V \subseteq U, sh.epoch \notin V
  PROVE  Standing(next, segs, V, NotShown, rg, tx, D)
BY DEF Standing

\* Another piece behind the others.
LEMMA StandsAppended ==
  ASSUME NEW next \in Nat, NEW segs, NEW U, NEW sh, NEW rg, NEW tx, NEW D \in Docs,
         Standing(next, segs, U, sh, rg, tx, D), \A r \in rg : segs[r].doc \in Docs,
         NEW d \in Docs, d = D => sh = NotShown, 0 \notin U,
         NEW piece \in PieceType, piece.epoch < next,
         NEW now, \/ piece.epoch \notin U /\ now = sh
                  \/ d = D /\ piece.epoch \in U /\ now = [epoch |-> piece.epoch, doc |-> D]
  PROVE  Standing(next, segs, U, now, rg, [tx EXCEPT ![d] = Append(@, piece)], D)
<1> DEFINE tx2 == [tx EXCEPT ![d] = Append(tx[d], piece)]
           r == Append(tx[d], piece)
           n == Len(tx[d])
<1>1. tx \in [Docs -> Seq(PieceType)] BY DEF Standing
<1>2. tx[d] \in Seq(PieceType) BY <1>1
<1>3. /\ n \in Nat /\ Len(r) = n + 1 /\ r[n + 1] = piece /\ r \in Seq(PieceType) /\ r # <<>>
      /\ \A i \in 1..n : r[i] = tx[d][i]
      /\ DOMAIN tx[d] = 1..n /\ DOMAIN r = 1..(n + 1)
  BY <1>2
<1>4. \A c \in Docs : tx2[c] = IF c = d THEN r ELSE tx[c] BY <1>1
<1>5. tx2 \in [Docs -> Seq(PieceType)] BY <1>1, <1>3
<1> HIDE DEF tx2, r
<1>6. ASSUME NEW i \in 1..n, tx[d][i].epoch \in U
      PROVE  FALSE \/ d # D \/ sh # NotShown
  BY <1>6 DEF Standing, NotShown
<1>7. ASSUME NEW c \in Docs, NEW i \in 1..Len(tx2[c])
      PROVE  /\ tx2[c][i].epoch < next
             /\ tx2[c][i].epoch \in U => c = D /\ tx2[c][i].epoch = now.epoch /\ i = Len(tx2[D])
  <2>1. CASE c # d
    BY <1>4, <2>1 DEF Standing
  <2>2. CASE c = d
    <3>1. tx2[c] = r BY <1>4, <2>2
    <3>2. CASE i = n + 1
      BY <1>3, <3>1, <3>2, <2>2
    <3>3. CASE i # n + 1
      <4>1. i \in 1..n BY <1>3, <3>1, <3>3
      <4>2. tx2[c][i] = tx[d][i] BY <1>3, <3>1, <4>1
      <4>3. tx[d][i].epoch < next BY <4>1 DEF Standing
      <4>4. tx[d][i].epoch \in U => d = D BY <4>1 DEF Standing
      <4> QED BY <1>6, <4>1, <4>2, <4>3, <4>4
    <3> QED BY <3>2, <3>3
  <2> QED BY <2>1, <2>2
<1>8. ASSUME NEW e \in rg
      PROVE  /\ e \in DOMAIN segs /\ segs[e].placed /\ e \notin U
             /\ PiecesOf(tx2[segs[e].doc], e) # {}
  <2>1. PiecesOf(tx[segs[e].doc], e) # {} BY DEF Standing
  <2>2. segs[e].doc \in Docs OBVIOUS
  <2>3. CASE segs[e].doc # d
    BY <1>4, <2>1, <2>2, <2>3 DEF Standing
  <2>4. CASE segs[e].doc = d
    <3>1. PICK i \in 1..n : tx[d][i].epoch = e BY <1>3, <2>1, <2>4 DEF PiecesOf
    <3>2. i \in 1..(n + 1) /\ r[i].epoch = e BY <1>3, <3>1
    <3>3. i \in PiecesOf(r, e) BY <1>3, <3>2 DEF PiecesOf
    <3> QED BY <1>4, <2>4, <3>3 DEF Standing
  <2> QED BY <2>3, <2>4
<1>9. now = NotShown \/ /\ now = [epoch |-> now.epoch, doc |-> D] /\ now.epoch \in U
                        /\ tx2[D] # <<>> /\ tx2[D][Len(tx2[D])].epoch = now.epoch
  BY <1>4, <1>3 DEF Standing
<1> QED BY <1>5, <1>7, <1>8, <1>9 DEF Standing, tx2

\* The characters of the composition shown are those of the last piece.
LEMMA LastChars ==
  ASSUME NEW next, NEW segs, NEW U, NEW sh, NEW rg, NEW tx, NEW D \in Docs,
         Standing(next, segs, U, sh, rg, tx, D), sh.epoch # 0
  PROVE  CharsOf(tx[D], sh.epoch) = tx[D][Len(tx[D])].chars
<1> DEFINE p == tx[D]
           n == Len(p)
<1>1. p \in Seq(PieceType) /\ p # <<>> /\ p[n].epoch = sh.epoch /\ sh.epoch \in U
  BY DEF Standing, NotShown
<1>2. \A i \in 1..n : p[i].epoch = sh.epoch => i = n BY <1>1 DEF Standing
<1> HIDE DEF p
<1>3. n \in 1..n BY <1>1
<1>4. CharsOf(p, sh.epoch) = p[n].chars BY <1>1, <1>2, <1>3, PieceFound
<1> QED BY <1>4 DEF p

\* A range more.
LEMMA StandsTracked ==
  ASSUME NEW next, NEW segs, NEW U, NEW sh, NEW rg, NEW tx, NEW D,
         Standing(next, segs, U, sh, rg, tx, D),
         NEW r, r \in DOMAIN segs, segs[r].placed, r \notin U, PiecesOf(tx[segs[r].doc], r) # {}
  PROVE  Standing(next, segs, U, sh, rg \union {r}, tx, D)
BY DEF Standing

LEMMA StandsFewer ==
  ASSUME NEW next, NEW segs, NEW U, NEW sh, NEW rg, NEW tx, NEW D,
         Standing(next, segs, U, sh, rg, tx, D), NEW fewer, fewer \subseteq rg
  PROVE  Standing(next, segs, U, sh, fewer, tx, D)
BY DEF Standing

\* What is on the screen is what is to be shown, or will be shown again.
Drawn(st, sh, tx, now, D) ==
  \/ ToShow(st, D)
  \/ /\ sh = [epoch |-> st.composition.epoch, doc |-> D]
     /\ CharsOf(tx[D], st.composition.epoch) = Shown(st.composition.buffer, now)

\* The controller, the screen and the text fit together.
SettledIn(st, sh, rg, tx, now, D) ==
  /\ Staged(st, sh.epoch, D, 0)
  /\ Drawn(st, sh, tx, now, D)
  /\ Standing(st.nextEpoch, st.segments, InUse(st, st.composition.epoch, sh.epoch, D),
              sh, rg, tx, D)

\* The host ending a composition has let go of the controller's, and when the
\* service stops nothing is left to convert.
BusyOK(D) ==
  /\ busy.call = "terminate" =>
       /\ ~Active /\ busy.doc = D /\ busy.epoch # 0
       /\ shown = NotShown \/ shown.epoch = busy.epoch
  /\ busy.call \in {"stop", "stopped"} =>
       ~Active /\ \A e \in DOMAIN segments : Finished(segments[e])

\* What the documents and the controller have in common.
Settling(D) == SettledIn(Now, shown, ranges, text, immediate, D) /\ BusyOK(D)

LEMMA SettledSame ==
  ASSUME NEW s, NEW t, t.composition = s.composition, t.nextEpoch = s.nextEpoch,
         t.tracker = s.tracker, t.segments = s.segments, t.queue = s.queue,
         NEW sh, NEW rg, NEW tx, NEW now, NEW D, SettledIn(s, sh, rg, tx, now, D)
  PROVE  SettledIn(t, sh, rg, tx, now, D)
BY DEF SettledIn, Staged, Scene, Opened, Drawn, ToShow, InUse

LEMMA StandsCarried ==
  ASSUME NEW st, NEW waits \in BOOLEAN, Fine(st, waits), NEW t, NEW o, NEW p, NEW D, NEW U,
         t.nextEpoch \in Nat, Carries(st, o, t, p, D),
         NEW sh, NEW rg, NEW tx, Standing(st.nextEpoch, st.segments, U, sh, rg, tx, D),
         U \subseteq 1..(st.nextEpoch - 1),
         \A e \in 1..(st.nextEpoch - 1) :
           (e \in {o, sh.epoch} \/ InQueue(st.queue[D], e)) => e \in U
  PROVE  Standing(t.nextEpoch, t.segments, InUse(t, p, sh.epoch, D), sh, rg, tx, D)
<1> DEFINE V == InUse(t, p, sh.epoch, D)
<1>1. st.nextEpoch \in Nat /\ DOMAIN st.segments \subseteq 1..(st.nextEpoch - 1) BY FineMore
<1>2. st.nextEpoch <= t.nextEpoch BY DEF Carries
<1>3. V \subseteq Nat \ {0} BY DEF InUse
<1>4. \A e \in V : e < st.nextEpoch => e \in U
  <2> SUFFICES ASSUME NEW e \in V, e < st.nextEpoch PROVE e \in U OBVIOUS
  <2>1. e \in 1..(st.nextEpoch - 1) BY <1>1, <1>3
  <2>2. e \in {p, sh.epoch} \/ InQueue(t.queue[D], e) BY DEF InUse
  <2> QED BY <2>1, <2>2 DEF Carries
<1>5. sh.epoch = 0 \/ sh.epoch \in V
  BY <1>1, <1>2 DEF Standing, NotShown, InUse
<1>6. \A r \in rg : r \in DOMAIN t.segments /\ t.segments[r].doc = st.segments[r].doc
                    /\ t.segments[r].placed
  BY DEF Carries, Keeps, Standing
<1>7. 0 \notin U OBVIOUS
<1> HIDE DEF V
<1>8. Standing(t.nextEpoch, t.segments, V, sh, rg, tx, D)
  BY <1>1, <1>2, <1>3, <1>4, <1>5, <1>6, <1>7, StandsOn
<1> QED BY <1>8 DEF V

\* A method that goes on with what is on the screen.
LEMMA SettledMoves ==
  ASSUME NEW st, NEW waits \in BOOLEAN, Fine(st, waits), NEW t, t.nextEpoch \in Nat,
         NEW sh, NEW rg, NEW tx, NEW now, NEW D, SettledIn(st, sh, rg, tx, now, D),
         Onward(st, t, sh.epoch, D, 0)
  PROVE  SettledIn(t, sh, rg, tx, now, D)
<1> DEFINE U == InUse(st, st.composition.epoch, sh.epoch, D)
<1>1. U \subseteq 1..(st.nextEpoch - 1) BY DEF InUse
<1>2. \A e \in 1..(st.nextEpoch - 1) :
        (e \in {st.composition.epoch, sh.epoch} \/ InQueue(st.queue[D], e)) => e \in U
  BY DEF InUse
<1> HIDE DEF U
<1>3. Standing(st.nextEpoch, st.segments, U, sh, rg, tx, D) BY DEF SettledIn, U
<1>4. Carries(st, st.composition.epoch, t, t.composition.epoch, D) BY DEF Onward, Moved
<1>5. Standing(t.nextEpoch, t.segments, InUse(t, t.composition.epoch, sh.epoch, D), sh, rg, tx, D)
  <2> DEFINE o == st.composition.epoch
             p == t.composition.epoch
  <2>1. /\ Carries(st, o, t, p, D)
        /\ \A e \in 1..(st.nextEpoch - 1) :
             (e \in {o, sh.epoch} \/ InQueue(st.queue[D], e)) => e \in U
    BY <1>2, <1>4
  <2> HIDE DEF o, p
  <2>2. Standing(t.nextEpoch, t.segments, InUse(t, p, sh.epoch, D), sh, rg, tx, D)
    BY <1>1, <1>3, <2>1, StandsCarried
  <2> QED BY <2>2 DEF p
<1>6. Drawn(t, sh, tx, now, D)
  BY DEF Drawn, SettledIn, SameDrawing, Onward
<1> QED BY <1>5, <1>6 DEF SettledIn, Onward

ShownIn(sh, D, next) ==
  /\ sh.epoch \in 0..(next - 1) /\ sh.epoch \in Nat /\ sh.epoch < next
  /\ sh = NotShown \/ sh = [epoch |-> sh.epoch, doc |-> D]
  /\ (sh.epoch = 0 <=> sh = NotShown)
  /\ sh \in [epoch : Nat, doc : Docs \union {NoDoc}]

LEMMA ShownFacts ==
  ASSUME NEW st, NEW waits \in BOOLEAN, Fine(st, waits),
         NEW sh, NEW rg, NEW tx, NEW now, NEW D \in Docs, SettledIn(st, sh, rg, tx, now, D)
  PROVE  ShownIn(sh, D, st.nextEpoch)
BY FineParts DEF SettledIn, Standing, InUse, ShownIn, NotShown

-----------------------------------------------------------------------------
(***************************************************************************)
(* The edits                                                               *)
(***************************************************************************)
\* What the first edit of a queue says of the composition shown.
LEMMA PopHead ==
  ASSUME TInv, NEW d \in Docs, NEW D \in Docs, queue[d] # <<>>, NEW f \in Nat, NEW x,
         x = Head(queue[d]), Scene(Now, composition.epoch, f, D, 0)
  PROVE  /\ x \in QueuedEdits(nextEpoch)
         /\ x.epoch # 0 => d = D /\ f \in {0, x.epoch} /\ x.epoch \in 1..(nextEpoch - 1)
                           /\ InQueue(queue[D], x.epoch)
         /\ Types(x) /\ d = D => f = 0
         /\ Ends(x) => /\ x.epoch # 0 /\ x.epoch # composition.epoch
                       /\ ~InQueue(Popped(d).queue[D], x.epoch)
<1> DEFINE q == queue[d]
           S == QueuedEdits(nextEpoch)
           o == composition.epoch
<1>1. Fine(Now, TRUE) /\ Now.composition = composition /\ Now.nextEpoch = nextEpoch
      /\ Now.queue = queue
  BY FineNow DEF Now
<1>2. o \in Nat /\ nextEpoch \in Nat BY <1>1, FineMore
<1>3. queue \in [Docs -> Seq(S)] BY DEF TInv, Typed1, Now
<1>4. q \in Seq(S) /\ q # <<>> /\ Proper(S) BY <1>2, <1>3, ProperEdits
<1> HIDE DEF S, o
<1>5. x \in S /\ x = q[1] /\ 1 \in DOMAIN q BY <1>4, Rest
<1>6. x.epoch \in 0..(nextEpoch - 1) BY <1>2, <1>5, EditParts DEF S
<1>7. x.epoch # 0 => d = D BY <1>1, <1>5 DEF Scene
<1>8. /\ x.epoch # 0 => f \in {0, x.epoch}
      /\ Types(x) /\ d = D => f = 0
      /\ Ends(x) => x.epoch # 0 /\ x.epoch # o /\ \A k \in DOMAIN Tail(q) : Tail(q)[k].epoch # x.epoch
  BY <1>1, <1>2, <1>4, FlowFirst, <1>5, <1>7 DEF Scene, o, Proper
<1>9. PopMakes(d, D) BY PopFacts
<1>10. Ends(x) => ~InQueue(Popped(d).queue[D], x.epoch)
  BY <1>7, <1>8, <1>9 DEF PopMakes, InQueue
<1>11. x.epoch # 0 => InQueue(queue[D], x.epoch) BY <1>5, <1>7 DEF InQueue
<1> QED BY <1>2, <1>5, <1>6, <1>7, <1>8, <1>10, <1>11 DEF S, o

\* The segment whose context an edit reads need not wait for it any more.
Reads(x) == IF x.do = "open" THEN x.epoch ELSE 0

\* Once the first edit has run, the composition shown is g.
LEMMA PopScene ==
  ASSUME TInv, NEW d \in Docs, NEW D \in Docs, queue[d] # <<>>, NEW f \in Nat, NEW g \in Nat,
         NEW x, x = Head(queue[d]), Staged(Now, f, D, 0),
         \/ (g = f \/ g = 0) /\ (Ends(x) => g # x.epoch)
         \/ f = 0 /\ ~Ends(x) /\ x.epoch # 0 /\ g = x.epoch
  PROVE  Staged(Popped(d), g, D, Reads(x))
<1> DEFINE o == composition.epoch
           p == Popped(d)
           q == queue[D]
           S == QueuedEdits(nextEpoch)
<1>1. /\ p.composition = composition /\ p.segments = segments /\ p.tracker = tracker
      /\ p.nextEpoch = nextEpoch /\ Fine(p, TRUE)
  BY FinePopped
<1>2. PopMakes(d, D) BY PopFacts
<1>3. Fine(Now, TRUE) BY FineNow
<1>4. Scene(Now, o, f, D, 0) /\ Opened(Now, D, 0) BY DEF Staged, Now
<1>5. o \in Nat /\ nextEpoch \in Nat
  <2>1. Now.composition.epoch \in Nat /\ Now.nextEpoch \in Nat BY <1>3, FineMore
  <2> QED BY <2>1 DEF Now
<1>6. q \in Seq(S) /\ Proper(S) BY <1>5, ProperEdits DEF TInv, Typed1, Now
<1>7. \A e \in DOMAIN segments : segments[e].doc \in Docs
  <2>1. \A e \in DOMAIN Now.segments : Now.segments[e].doc \in Docs BY <1>3, FineMore
  <2> QED BY <2>1 DEF Now
<1>8. Flow(q, o, f) BY <1>4 DEF Scene, Now
<1>9. x.epoch # 0 => d = D BY <1>4, PopHead
<1> HIDE DEF p, q, S, o
<1>10. Flow(p.queue[D], o, g)
  BY <1>5, <1>6, <1>8, FlowTaken, FlowShown, <1>2, <1>9, FlowUnshown DEF q, PopMakes, p
<1>11. \A c \in Docs \ {D} : \A k \in DOMAIN p.queue[c] : p.queue[c][k].epoch = 0
  BY <1>2, <1>4 DEF PopMakes, p, Scene, Now
<1>12. \A c \in Docs : \A z : Has(p.queue[c], z) => Has(queue[c], z)
  BY <1>2 DEF PopMakes, p
<1>13. \A c \in Docs : \A z : (Has(queue[c], z) /\ z # x) => Has(p.queue[c], z)
  BY <1>2 DEF PopMakes, p
<1>14. \A e : Has(p.queue[D], SealEdit(e)) =>
         e \in DOMAIN p.segments /\ p.segments[e].doc = D /\ ~p.segments[e].placed
  BY <1>1, <1>4, <1>12 DEF Scene, Now
<1>15. \A e : e # Reads(x) => OpenEdit(e) # x BY DEF Reads, OpenEdit
<1>16. 0 \notin DOMAIN segments
  <2>1. 0 \notin DOMAIN Now.segments BY <1>3, FineMore
  <2> QED BY <2>1 DEF Now
<1>17. ASSUME NEW e \in DOMAIN p.segments, e # Reads(x), p.segments[e].stage = "context"
       PROVE  Has(p.queue[p.segments[e].doc], OpenEdit(e))
  BY <1>1, <1>16, <1>17, <1>4, <1>7, <1>13, <1>15 DEF Scene, Now
<1>18. Scene(p, o, g, D, Reads(x)) BY <1>10, <1>11, <1>14, <1>17 DEF Scene
<1>19. Opened(p, D, Reads(x)) BY <1>1, <1>4, <1>13, <1>15 DEF Opened, Now
<1> QED BY <1>1, <1>18, <1>19 DEF Staged, p, o

\* The controller goes on from Popped(d); the screen is then sh, rg and tx.
LEMMA EditSettles ==
  ASSUME TInv, NEW d \in Docs, NEW D \in Docs, queue[d] # <<>>,
         NEW sh, NEW rg, NEW tx, NEW now, NEW U,
         Standing(nextEpoch, segments, U, sh, rg, tx, D), U \subseteq 1..(nextEpoch - 1),
         \A e \in 1..(nextEpoch - 1) :
           (e = composition.epoch \/ InQueue(Popped(d).queue[D], e)) => e \in U,
         NEW t, t.nextEpoch = nextEpoch, Staged(t, sh.epoch, D, 0), Moved(Popped(d), t, D),
         Drawn(t, sh, tx, now, D)
  PROVE  SettledIn(t, sh, rg, tx, now, D)
<1> DEFINE p == Popped(d)
           o == composition.epoch
           r == t.composition.epoch
<1>1. /\ p.composition = composition /\ p.segments = segments
      /\ p.nextEpoch = nextEpoch /\ Fine(p, TRUE)
  BY FinePopped
<1>2. nextEpoch \in Nat BY <1>1, FineMore
<1>3. Carries(p, o, t, r, D) BY <1>1 DEF Moved
<1>4. \A e \in 1..(nextEpoch - 1) : e \in {o, sh.epoch} \/ InQueue(p.queue[D], e) => e \in U
  BY DEF Standing, NotShown
<1> HIDE DEF p, o, r
<1>5. Standing(t.nextEpoch, t.segments, InUse(t, r, sh.epoch, D), sh, rg, tx, D)
  <2>1. /\ t.nextEpoch \in Nat /\ U \subseteq 1..(p.nextEpoch - 1)
        /\ Standing(p.nextEpoch, p.segments, U, sh, rg, tx, D)
        /\ \A e \in 1..(p.nextEpoch - 1) :
             (e \in {o, sh.epoch} \/ InQueue(p.queue[D], e)) => e \in U
    BY <1>1, <1>2, <1>4
  <2> QED BY <1>1, <1>3, <2>1, StandsCarried
<1> QED BY <1>5 DEF SettledIn, r

AllDone(segs) == \A e \in DOMAIN segs : Finished(segs[e])

\* What no edit does: open or end a composition, or give a segment something
\* to wait for.
EndsNothing(st, t) ==
  /\ t.composition.epoch = st.composition.epoch
  /\ AllDone(st.segments) => AllDone(t.segments)

LEMMA EditBusy ==
  ASSUME NEW D, BusyOK(D), NEW d, NEW t, CanRun(d), Proceed(d, t), EndsNothing(Now, t),
         shown' \in {shown, NotShown} \/ busy.call # "terminate"
  PROVE  BusyOK(D)'
BY DEF Proceed, Become, EndsNothing, Now, BusyOK, Active, AllDone, NotBusy, Busy

LEMMA DoneWrite ==
  ASSUME NEW st, NEW waits \in BOOLEAN, Fine(st, waits), NEW e
  PROVE  EndsNothing(st, WriteIfFinished(st, e))
BY DEF EndsNothing, WriteIfFinished, Run, Fine, Good, IsState

LEMMA DoneContextReady ==
  ASSUME NEW st, NEW waits \in BOOLEAN, Fine(st, waits), NEW epoch
  PROVE  EndsNothing(st, ContextReady(st, epoch))
<1>1. CASE st.composition.epoch = epoch
  <2> DEFINE t == Preceding(st)
  <2>1. t.segments = st.segments /\ t.composition.epoch = st.composition.epoch /\ Fine(t, waits)
    BY FinePreceding
  <2>2. ContextReady(st, epoch) = Request(t) BY <1>1 DEF ContextReady, Preceding
  <2> HIDE DEF t
  <2>3. Request(t).segments = t.segments /\ Request(t).composition.epoch = t.composition.epoch
    BY <2>1 DEF Request, Fine, Good, IsState
  <2> QED BY <2>1, <2>2, <2>3 DEF EndsNothing
<1>2. CASE st.composition.epoch # epoch /\ epoch \notin DOMAIN st.segments
  BY <1>2 DEF ContextReady, EndsNothing
<1>3. CASE st.composition.epoch # epoch /\ epoch \in DOMAIN st.segments
  <2> DEFINE t == KnownSegment(st, epoch)
             u == WriteIfFinished(ConvertSegment(t, epoch), epoch)
  <2>1. /\ Fine(t, waits)
        /\ t.composition = st.composition /\ DOMAIN t.segments = DOMAIN st.segments
        /\ \A k \in DOMAIN st.segments : k # epoch => t.segments[k] = st.segments[k]
        /\ t.segments[epoch].stage = st.segments[epoch].stage
    BY <1>3, FineKnown
  <2>2. ContextReady(st, epoch) = IF st.segments[epoch].stage # "context" THEN t ELSE u
    BY <1>3 DEF ContextReady, KnownSegment
  <2> HIDE DEF t
  <2>3. EndsNothing(st, t) BY <1>3, <2>1 DEF EndsNothing, AllDone, Finished
  <2>4. st.segments[epoch].stage = "context" => ~AllDone(st.segments)
    BY <1>3 DEF AllDone, Finished
  <2>5. u.composition.epoch = t.composition.epoch
    <3>1. Fine(ConvertSegment(t, epoch), waits) BY <1>3, <2>1, FineConvert
    <3>2. ConvertSegment(t, epoch).composition = t.composition
      BY <2>1 DEF ConvertSegment, Fine, Good, IsState
    <3> QED BY <3>1, <3>2, DoneWrite DEF EndsNothing
  <2> HIDE DEF u
  <2> QED BY <2>1, <2>2, <2>3, <2>4, <2>5 DEF EndsNothing
<1> QED BY <1>1, <1>2, <1>3

LEMMA DoneMergeSealed ==
  ASSUME NEW st, NEW waits \in BOOLEAN, Fine(st, waits),
         NEW sequence, NEW request, NEW outcome,
         Requested(request, sequence, st.tracker.asked),
         outcome.predicted \in 0..Len(request.snapshot)
  PROVE  EndsNothing(st, MergeSealed(st, sequence, request, outcome))
<1> DEFINE e == request.epoch
           t == Merges(st, sequence, request, outcome)
<1>1. CASE e \notin DOMAIN st.segments BY <1>1 DEF MergeSealed, EndsNothing
<1>2. CASE e \in DOMAIN st.segments
  <2>1. MergeSealed(st, sequence, request, outcome) = WriteIfFinished(t, e)
    BY <1>2 DEF MergeSealed, Merges
  <2>2. Fine(t, waits) /\ DOMAIN t.segments = DOMAIN st.segments BY <1>2, FineMerged
  <2>3. /\ t.composition = st.composition
        /\ t.segments = [st.segments EXCEPT ![e] = Merged(st.segments[e], sequence, request, outcome)]
    BY DEF Merges, Fine, Good, IsState
  <2> HIDE DEF t
  <2>4. st.segments[e].stage = "finished" => t.segments[e].stage = "finished"
    BY <1>2, <2>3 DEF Fine, Good, IsState, Merged, SegmentFields
  <2>5. \A k \in DOMAIN st.segments : k # e => t.segments[k] = st.segments[k] BY <1>2, <2>3
  <2>6. EndsNothing(st, t) BY <2>2, <2>3, <2>4, <2>5 DEF EndsNothing, AllDone, Finished
  <2> QED BY <2>1, <2>2, <2>6, DoneWrite DEF EndsNothing
<1> QED BY <1>1, <1>2

\* What is known before an edit of d runs.
LEMMA EditStart ==
  ASSUME TInv, NEW D \in Docs, Settling(D)
  PROVE  /\ shown.epoch \in 0..(nextEpoch - 1) /\ shown.epoch \in Nat
         /\ shown = NotShown \/ shown = [epoch |-> shown.epoch, doc |-> D]
         /\ shown.epoch = 0 => shown = NotShown
         /\ Staged(Now, shown.epoch, D, 0)
         /\ Scene(Now, composition.epoch, shown.epoch, D, 0)
         /\ Opened(Now, D, 0)
         /\ Drawn(Now, shown, text, immediate, D)
         /\ Standing(nextEpoch, segments, InUse(Now, composition.epoch, shown.epoch, D),
                     shown, ranges, text, D)
         /\ nextEpoch \in Nat \ {0} /\ composition.epoch \in 0..(nextEpoch - 1)
         /\ \A e \in DOMAIN segments : segments[e].doc \in Docs
         /\ \A r \in ranges : segments[r].doc \in Docs
         /\ DOMAIN segments \subseteq 1..(nextEpoch - 1)
         /\ text \in [Docs -> Seq(PieceType)]
<1>1. Fine(Now, TRUE) BY FineNow
<1>2. SettledIn(Now, shown, ranges, text, immediate, D) BY DEF Settling
<1>3. /\ shown.epoch \in 0..(Now.nextEpoch - 1) /\ shown.epoch \in Nat
      /\ shown = NotShown \/ shown = [epoch |-> shown.epoch, doc |-> D]
      /\ (shown.epoch = 0 <=> shown = NotShown)
  <2>1. ShownIn(shown, D, Now.nextEpoch) BY <1>1, <1>2, ShownFacts
  <2> QED BY <2>1 DEF ShownIn
<1>4. /\ Now.nextEpoch \in Nat \ {0} /\ Now.composition.epoch \in 0..(Now.nextEpoch - 1)
      /\ \A e \in DOMAIN Now.segments : Now.segments[e].doc \in Docs
      /\ DOMAIN Now.segments \subseteq 1..(Now.nextEpoch - 1)
  BY <1>1, FineParts, FineMore
<1>5. /\ Now.composition = composition /\ Now.nextEpoch = nextEpoch /\ Now.segments = segments
  BY DEF Now
<1>6. /\ Staged(Now, shown.epoch, D, 0) /\ Drawn(Now, shown, text, immediate, D)
      /\ Standing(nextEpoch, segments, InUse(Now, composition.epoch, shown.epoch, D),
                  shown, ranges, text, D)
  BY <1>2, <1>5 DEF SettledIn
<1>7. Scene(Now, composition.epoch, shown.epoch, D, 0) /\ Opened(Now, D, 0)
  BY <1>5, <1>6 DEF Staged
<1>8. \A r \in ranges : r \in DOMAIN segments BY <1>6 DEF Standing
<1>9. text \in [Docs -> Seq(PieceType)] BY <1>6 DEF Standing
<1> QED BY <1>3, <1>4, <1>5, <1>6, <1>7, <1>8, <1>9

LEMMA EditEnd ==
  ASSUME TInv, NEW D \in Docs, Settling(D), NEW d \in Docs, CanRun(d),
         NEW t, Proceed(d, t), EndsNothing(Now, t),
         SettledIn(t, shown', ranges', text', immediate, D), immediate' = immediate,
         shown' \in {shown, NotShown} \/ busy.call # "terminate"
  PROVE  Settling(D)'
<1>1. BusyOK(D)' BY EditBusy DEF Settling
<1>2. /\ (Now').composition = t.composition /\ (Now').nextEpoch = t.nextEpoch
      /\ (Now').tracker = t.tracker /\ (Now').segments = t.segments /\ (Now').queue = t.queue
  BY DEF Proceed, Become, Now
<1>3. SettledIn(Now', shown', ranges', text', immediate', D)
  <2> DEFINE s == Now'
             a == shown'
             b == ranges'
             c == text'
  <2>1. SettledIn(t, a, b, c, immediate, D) OBVIOUS
  <2>2. s.composition = t.composition /\ s.nextEpoch = t.nextEpoch
        /\ s.tracker = t.tracker /\ s.segments = t.segments /\ s.queue = t.queue
    BY <1>2
  <2> HIDE DEF s, a, b, c
  <2>3. SettledIn(s, a, b, c, immediate, D) BY <2>1, <2>2, SettledSame
  <2> QED BY <2>3 DEF s, a, b, c
<1> QED BY <1>1, <1>3 DEF Settling

\* A rewritten text is that of its composition.
Overwritten(tx, tx2, d, e, chars) == tx2 = [tx EXCEPT ![d] = Rewritten(tx[d], e, chars)]

LEMMA WrittenOver ==
  ASSUME NEW next, NEW segs, NEW U, NEW sh, NEW rg, NEW tx, NEW D \in Docs,
         Standing(next, segs, U, sh, rg, tx, D), \A r \in rg : segs[r].doc \in Docs,
         NEW d \in Docs, NEW e \in Nat, NEW chars \in Seq(Character),
         NEW tx2, Overwritten(tx, tx2, d, e, chars)
  PROVE  /\ Standing(next, segs, U, sh, rg, tx2, D)
         /\ sh.epoch # 0 => CharsOf(tx2[D], sh.epoch) =
                              IF d = D /\ e = sh.epoch THEN chars ELSE CharsOf(tx[D], sh.epoch)
<1>1. tx \in [Docs -> Seq(PieceType)] BY DEF Standing
<1> DEFINE p == tx[d]
           r == Rewritten(p, e, chars)
<1>2. p \in Seq(PieceType) BY <1>1
<1>3. /\ SameEpochs(p, r)
      /\ \A i \in 1..Len(p) : r[i] = IF p[i].epoch = e THEN Piece(e, chars) ELSE p[i]
  BY <1>2, RewrittenSame
<1>4. \A c \in Docs : tx2[c] = IF c = d THEN r ELSE tx[c] BY <1>1 DEF Overwritten
<1>5. tx2 \in [Docs -> Seq(PieceType)] BY <1>1, <1>3 DEF SameEpochs, Overwritten
<1>6. \A c \in Docs : SameEpochs(tx[c], tx2[c]) BY <1>1, <1>3, <1>4 DEF SameEpochs
<1> HIDE DEF r
<1>7. Standing(next, segs, U, sh, rg, tx2, D)
  BY <1>5, <1>6, StandsText
<1>8. ASSUME sh.epoch # 0
      PROVE  CharsOf(tx2[D], sh.epoch) =
               IF d = D /\ e = sh.epoch THEN chars ELSE CharsOf(tx[D], sh.epoch)
  <2> DEFINE n == Len(tx[D])
  <2>1. CharsOf(tx2[D], sh.epoch) = tx2[D][Len(tx2[D])].chars BY <1>7, <1>8, LastChars
  <2>2. CharsOf(tx[D], sh.epoch) = tx[D][n].chars BY <1>8, LastChars
  <2>3. Len(tx2[D]) = n BY <1>6 DEF SameEpochs
  <2>4. tx[D] \in Seq(PieceType) /\ tx[D] # <<>> /\ tx[D][n].epoch = sh.epoch
    BY <1>1, <1>8 DEF Standing, NotShown
  <2>5. n \in 1..n BY <2>4
  <2>6. CASE d = D
    BY <1>4, <2>6, <1>3, <2>4, <2>5, <2>1, <2>2, <2>3 DEF Piece
  <2>7. CASE d # D BY <1>4, <2>7
  <2> QED BY <2>6, <2>7
<1> QED BY <1>7, <1>8

\* What Render does, of the composition an edit is about.
LEMMA Rendered ==
  ASSUME TInv, NEW D \in Docs, Settling(D), NEW e \in 1..(nextEpoch - 1),
         InQueue(queue[D], e), shown.epoch \in {0, e},
         NEW chars \in Seq(Character), Render(D, e, chars)
  PROVE  /\ Standing(nextEpoch, segments, InUse(Now, composition.epoch, shown.epoch, D) \union {e},
                     shown', ranges, text', D)
         /\ \/ busy.call = "terminate" /\ shown.epoch = 0 /\ shown' = shown
            \/ /\ shown' = [epoch |-> e, doc |-> D] /\ CharsOf(text'[D], e) = chars
               /\ shown' = shown \/ busy.call # "terminate"
<1> DEFINE U == InUse(Now, composition.epoch, shown.epoch, D)
           V == U \union {e}
<1>1. /\ shown.epoch \in Nat /\ nextEpoch \in Nat /\ e \in Nat /\ e < nextEpoch
      /\ shown = NotShown \/ shown = [epoch |-> shown.epoch, doc |-> D]
      /\ shown.epoch = 0 => shown = NotShown
      /\ Standing(nextEpoch, segments, U, shown, ranges, text, D)
      /\ \A r \in ranges : segments[r].doc \in Docs
  BY EditStart
<1>2. V = U /\ 0 \notin V /\ e \in V BY DEF InUse, Now
<1> HIDE DEF U, V
<1>3. CASE shown.epoch = e
  <2>1. text' = [text EXCEPT ![D] = Rewritten(@, e, chars)] /\ shown' = shown
    BY <1>3 DEF Render
  <2>2. /\ Standing(nextEpoch, segments, U, shown, ranges, text', D)
        /\ shown.epoch # 0 => CharsOf(text'[D], shown.epoch) = chars
    <3> DEFINE tx2 == text'
    <3>1. Overwritten(text, tx2, D, e, chars) BY <2>1 DEF Overwritten
    <3> HIDE DEF tx2
    <3>2. /\ Standing(nextEpoch, segments, U, shown, ranges, tx2, D)
          /\ shown.epoch # 0 => CharsOf(tx2[D], shown.epoch) =
                IF D = D /\ e = shown.epoch THEN chars ELSE CharsOf(text[D], shown.epoch)
      BY <1>1, <3>1, WrittenOver
    <3> QED BY <1>3, <3>2 DEF tx2
  <2>3. shown = [epoch |-> e, doc |-> D] /\ CharsOf(text'[D], e) = chars
    BY <1>1, <1>3, <2>2 DEF NotShown
  <2> QED BY <1>2, <2>1, <2>2, <2>3 DEF U, V
<1>4. CASE shown.epoch = 0 /\ busy.call # "terminate"
  <2> DEFINE piece == Piece(e, chars)
             now   == [epoch |-> e, doc |-> D]
             tx2   == [text EXCEPT ![D] = Append(@, piece)]
  <2>1. text' = tx2 /\ shown' = now BY <1>1, <1>4 DEF Render
  <2>2. piece \in PieceType /\ piece.epoch = e /\ piece.chars = chars BY <1>1 DEF Piece, PieceType
  <2>3. Standing(nextEpoch, segments, V, now, ranges, tx2, D)
    <3> HIDE DEF piece
    <3> QED BY <1>1, <1>2, <1>4, <2>2, StandsAppended
  <2>4. text[D] \in Seq(PieceType) /\ text \in [Docs -> Seq(PieceType)] BY <1>1 DEF Standing
  <2>5. tx2[D] = Append(text[D], piece) BY <2>4
  <2> HIDE DEF tx2
  <2>6. CharsOf(tx2[D], now.epoch) = tx2[D][Len(tx2[D])].chars
    <3>1. now.epoch # 0 BY <1>1
    <3> HIDE DEF now
    <3> QED BY <2>3, <3>1, LastChars
  <2>7. tx2[D][Len(tx2[D])] = piece BY <2>2, <2>4, <2>5
  <2> QED BY <1>4, <2>1, <2>2, <2>3, <2>6, <2>7 DEF U, V
<1>5. CASE shown.epoch = 0 /\ busy.call = "terminate"
  BY <1>1, <1>5, <1>2 DEF Render, U, V
<1> QED BY <1>3, <1>4, <1>5

\* An edit leaves the screen as it is.
LEMMA QuietEdit ==
  ASSUME TInv, NEW D \in Docs, Settling(D), NEW d \in Docs, CanRun(d),
         Head(queue[d]).do # "show",
         NEW t, Proceed(d, t), EndsNothing(Now, t), t.nextEpoch = nextEpoch,
         Onward(Popped(d), t, shown.epoch, D, 0),
         UNCHANGED <<shown, ranges, text, immediate>>
  PROVE  Settling(D)'
<1> DEFINE p == Popped(d)
           U == InUse(Now, composition.epoch, shown.epoch, D)
<1>1. queue[d] # <<>> BY DEF CanRun
<1>2. PopMakes(d, D) BY <1>1, PopFacts
<1>3. /\ p.composition = composition /\ p.segments = segments /\ p.nextEpoch = nextEpoch
  BY <1>1, FinePopped
<1>4. /\ Standing(nextEpoch, segments, U, shown, ranges, text, D)
      /\ Drawn(Now, shown, text, immediate, D)
  BY EditStart
<1>5. U \subseteq 1..(nextEpoch - 1) BY DEF InUse, Now
<1>6. \A e \in 1..(nextEpoch - 1) :
        (e = composition.epoch \/ InQueue(p.queue[D], e)) => e \in U
  BY <1>2 DEF PopMakes, InUse, Now
<1>7. ToShow(Now, D) => ToShow(p, D) BY <1>2, <1>3 DEF PopMakes, ToShow, Now
<1>8. Drawn(p, shown, text, immediate, D) BY <1>3, <1>4, <1>7 DEF Drawn, Now
<1>9. Drawn(t, shown, text, immediate, D)
  BY <1>8 DEF Onward, Drawn, SameDrawing
<1>10. Staged(t, shown.epoch, D, 0) /\ Moved(p, t, D) BY DEF Onward
<1> HIDE DEF U
<1>11. SettledIn(t, shown, ranges, text, immediate, D)
  BY <1>1, <1>4, <1>5, <1>6, <1>9, <1>10, EditSettles
<1> QED BY <1>11, EditEnd

\* An edit draws the composition it is about.
LEMMA DrawingEdit ==
  ASSUME TInv, NEW D \in Docs, Settling(D), NEW d \in Docs, CanRun(d),
         NEW x, x = Head(queue[d]), x.do \in {"show", "apply", "lost"},
         NEW chars \in Seq(Character), Render(d, x.epoch, chars),
         NEW t, Proceed(d, t), t.nextEpoch = nextEpoch,
         t.queue = Popped(d).queue, t.segments = segments, t.tracker = tracker,
         t.composition.epoch = composition.epoch, t.composition.doc = composition.doc,
         t.composition.preceding = composition.preceding,
         composition.epoch = x.epoch => chars = Shown(t.composition.buffer, immediate),
         UNCHANGED <<ranges, immediate>>
  PROVE  Settling(D)'
<1> DEFINE p == Popped(d)
           f == shown.epoch
           o == composition.epoch
           U == InUse(Now, o, f, D)
           V == U \union {x.epoch}
           sh == shown'
           tx == text'
<1>1. queue[d] # <<>> BY DEF CanRun
<1>2. PopMakes(d, D) BY <1>1, PopFacts
<1>3. /\ p.composition = composition /\ p.segments = segments /\ p.nextEpoch = nextEpoch
      /\ p.tracker = tracker /\ Fine(p, TRUE)
  BY <1>1, FinePopped
<1>4. /\ f \in Nat /\ nextEpoch \in Nat /\ Staged(Now, f, D, 0) /\ Scene(Now, o, f, D, 0)
      /\ Drawn(Now, shown, text, immediate, D) /\ 0 \notin DOMAIN segments
  BY EditStart
<1>5. x \in QueuedEdits(nextEpoch) /\ x.epoch # 0
  BY <1>1, <1>4, PopHead, EditParts
<1>6. /\ d = D /\ f \in {0, x.epoch} /\ x.epoch \in 1..(nextEpoch - 1)
      /\ InQueue(queue[D], x.epoch)
  BY <1>1, <1>4, <1>5, PopHead
<1>7. ~Ends(x) /\ Reads(x) = 0 BY DEF Ends, Reads
<1>8. /\ Standing(nextEpoch, segments, V, sh, ranges, tx, D)
      /\ \/ busy.call = "terminate" /\ f = 0 /\ sh = shown
         \/ /\ sh = [epoch |-> x.epoch, doc |-> D] /\ CharsOf(tx[D], x.epoch) = chars
            /\ sh = shown \/ busy.call # "terminate"
  BY <1>6, Rendered
<1>9. V \subseteq 1..(nextEpoch - 1) BY <1>6 DEF InUse, Now
<1>10. \A e \in 1..(nextEpoch - 1) : (e = o \/ InQueue(p.queue[D], e)) => e \in V
  BY <1>2 DEF PopMakes, InUse, Now
<1> HIDE DEF U, V, sh, tx
<1>11. sh.epoch \in Nat /\ (sh.epoch = f \/ (f = 0 /\ sh.epoch = x.epoch))
  <2>1. CASE sh = shown BY <1>4, <2>1
  <2>2. CASE sh = [epoch |-> x.epoch, doc |-> D]
    <3>1. sh.epoch = x.epoch BY <2>2
    <3> HIDE DEF f
    <3> QED BY <1>6, <3>1
  <2> QED BY <1>8, <2>1, <2>2
<1>12. Staged(p, sh.epoch, D, 0)
  <2> DEFINE g == sh.epoch
  <2>1. /\ g \in Nat
        /\ \/ (g = f \/ g = 0) /\ (Ends(x) => g # x.epoch)
           \/ f = 0 /\ ~Ends(x) /\ x.epoch # 0 /\ g = x.epoch
    BY <1>5, <1>7, <1>11
  <2> HIDE DEF g, f
  <2>2. Staged(p, g, D, Reads(x)) BY <1>1, <1>4, <2>1, PopScene
  <2> QED BY <1>7, <2>2 DEF g
<1>13. Staged(t, sh.epoch, D, 0) /\ Moved(p, t, D)
  <2>1. Requesting(p, t, D) BY <1>3 DEF Requesting
  <2> HIDE DEF p
  <2>2. t.queue = p.queue BY DEF p
  <2> QED BY <1>3, <1>4, <1>12, <2>1, <2>2, StagedSame
<1>14. Drawn(t, sh, tx, immediate, D)
  BY <1>6, <1>4, <1>2, <1>8 DEF Settling, BusyOK, Active, Drawn, ToShow, Now, PopMakes
<1>15. EndsNothing(Now, t) BY DEF EndsNothing, Now
<1>16. SettledIn(t, sh, ranges, tx, immediate, D)
  BY <1>1, <1>8, <1>9, <1>10, <1>13, <1>14, EditSettles
<1>17. sh \in {shown, NotShown} \/ busy.call # "terminate" BY <1>8
<1> QED BY <1>15, <1>16, <1>17, EditEnd DEF sh, tx

LEMMA ShowSettles ==
  ASSUME TInv, NEW D \in Docs, Settling(D), NEW d \in Docs, RunShow(d)
  PROVE  Settling(D)'
<1> DEFINE x == Head(queue[d])
           t == Popped(d)
           chars == IF Live(x.epoch) THEN Shown(composition.buffer, immediate) ELSE x.ended
<1>1. /\ CanRun(d) /\ x.do = "show" /\ Render(d, x.epoch, chars) /\ Proceed(d, t)
      /\ UNCHANGED <<ranges, immediate>>
  BY DEF RunShow, Taken, others
<1>2. queue[d] # <<>> BY <1>1 DEF CanRun
<1>3. /\ t.composition = composition /\ t.segments = segments /\ t.tracker = tracker
      /\ t.nextEpoch = nextEpoch
  BY <1>2, FinePopped
<1>4. x \in QueuedEdits(nextEpoch) /\ nextEpoch \in Nat BY <1>2, FinePopped, EditStart
<1>5. Now.composition.buffer.entries \in Seq(Entry) BY FineNow, FineParts
<1>6. Shown(composition.buffer, immediate) \in Seq(Letter)
  BY <1>5, ShownType DEF Now
<1>7. chars \in Seq(Character) BY <1>1, <1>4, <1>6, EditParts, LetterText
<1>8. composition.epoch = x.epoch => chars = Shown(t.composition.buffer, immediate)
  BY <1>1, <1>4, EditParts, <1>3 DEF Live, Active
<1> HIDE DEF chars, x, t
<1>9. x = Head(queue[d]) /\ t.queue = Popped(d).queue BY DEF x, t
<1> QED BY <1>1, <1>3, <1>7, <1>8, <1>9, DrawingEdit

LEMMA OpenSettles ==
  ASSUME TInv, NEW D \in Docs, Settling(D), NEW d \in Docs, RunOpen(d)
  PROVE  Settling(D)'
<1> DEFINE x == Head(queue[d])
           p == Popped(d)
           f == shown.epoch
           t == ContextReady(p, x.epoch)
<1>1. /\ CanRun(d) /\ x.do = "open" /\ UNCHANGED <<shown, ranges, text, immediate>>
      /\ Proceed(d, IF shown.epoch # 0 /\ shown.doc # d THEN p ELSE t)
  BY DEF RunOpen, Taken, others, screen
<1>2. queue[d] # <<>> BY <1>1 DEF CanRun
<1>3. p.composition = composition /\ p.segments = segments /\ p.nextEpoch = nextEpoch /\ Fine(p, TRUE)
  BY <1>2, FinePopped
<1>4. /\ f \in Nat /\ nextEpoch \in Nat /\ Staged(Now, f, D, 0)
      /\ Scene(Now, composition.epoch, f, D, 0)
      /\ shown = NotShown \/ shown = [epoch |-> f, doc |-> D]
  BY EditStart
<1>5. x \in QueuedEdits(nextEpoch) BY <1>2, FinePopped
<1>6. x.epoch \in Nat \ {0} BY <1>1, <1>4, <1>5, EditParts
<1>7. d = D BY <1>2, <1>4, <1>6, PopHead
<1>8. Proceed(d, t) BY <1>1, <1>4, <1>7 DEF NotShown
<1>9. Staged(p, f, D, x.epoch)
  <2>1. ~Ends(x) /\ Reads(x) = x.epoch BY <1>1 DEF Ends, Reads
  <2> HIDE DEF x, f, p
  <2>2. x = Head(queue[d]) BY DEF x
  <2>3. Staged(Popped(d), f, D, Reads(x)) BY <1>2, <1>4, <2>1, <2>2, PopScene
  <2> QED BY <2>1, <2>3 DEF p
<1>10. Onward(p, t, f, D, 0) /\ t.nextEpoch = p.nextEpoch
  <2> HIDE DEF p, f, x
  <2> QED BY <1>3, <1>4, <1>6, <1>9, StagedContextReady
<1>11. EndsNothing(p, t) BY <1>3, DoneContextReady
<1>12. EndsNothing(Now, t) BY <1>3, <1>11 DEF EndsNothing, Now
<1> HIDE DEF t
<1> QED BY <1>1, <1>3, <1>8, <1>10, <1>12, QuietEdit

LEMMA FineAfter ==
  ASSUME TInv'
  PROVE  Fine(Now', TRUE) /\ Fine(Now', FALSE)
BY DEF TInv, SInv, IInv, Now, Good, Fine

\* The scene once the first edit of a queue is taken, if it ends nothing.
LEMMA PopStaged ==
  ASSUME TInv, NEW D \in Docs, Settling(D), NEW d \in Docs, queue[d] # <<>>,
         ~Ends(Head(queue[d]))
  PROVE  Staged(Popped(d), shown.epoch, D, Reads(Head(queue[d])))
<1> DEFINE x == Head(queue[d])
           f == shown.epoch
<1>1. f \in Nat /\ Staged(Now, f, D, 0) BY EditStart
<1> HIDE DEF x, f
<1>2. (f = f \/ f = 0) /\ (Ends(x) => f # x.epoch) BY DEF x
<1>3. x = Head(queue[d]) BY DEF x
<1>4. Staged(Popped(d), f, D, Reads(x)) BY <1>1, <1>2, <1>3, PopScene
<1> QED BY <1>4 DEF x, f

\* An edit changes the composition it is about, and draws it if it did.
LEMMA ChangingEdit ==
  ASSUME TInv, TInv', NEW D \in Docs, Settling(D), NEW d \in Docs, CanRun(d),
         NEW x, x = Head(queue[d]), x.do \in {"apply", "lost"}, Live(x.epoch),
         NEW t, Proceed(d, t), t.nextEpoch = nextEpoch,
         t.queue = Popped(d).queue, t.segments = segments, t.tracker = tracker,
         t.composition.epoch = composition.epoch, t.composition.doc = composition.doc,
         t.composition.preceding = composition.preceding,
         IF t.composition.buffer = composition.buffer THEN UNCHANGED <<text, shown>>
         ELSE Render(d, x.epoch, Shown(t.composition.buffer, immediate)),
         UNCHANGED <<ranges, immediate>>
  PROVE  Settling(D)'
<1> DEFINE p == Popped(d)
           f == shown.epoch
           b == t.composition.buffer
<1>1. queue[d] # <<>> BY DEF CanRun
<1>2. composition.epoch = x.epoch BY DEF Live
<1>3. CASE b # composition.buffer
  <2> DEFINE chars == Shown(b, immediate)
  <2>1. Fine(Now', TRUE) BY FineAfter
  <2>2. Now'.composition.buffer = b BY DEF Proceed, Become, Now
  <2>3. Now'.composition.buffer.entries \in Seq(Entry) BY <2>1, FineParts
  <2> HIDE DEF b
  <2>4. chars \in Seq(Character) BY <2>2, <2>3, ShownType, LetterText
  <2>5. Render(d, x.epoch, chars) BY <1>3 DEF b
  <2>6. composition.epoch = x.epoch => chars = Shown(t.composition.buffer, immediate) BY DEF b
  <2>7. x.do \in {"show", "apply", "lost"} OBVIOUS
  <2> HIDE DEF chars
  <2> QED BY <2>4, <2>5, <2>6, <2>7, DrawingEdit
<1>4. CASE b = composition.buffer
  <2>1. UNCHANGED <<shown, ranges, text, immediate>> BY <1>4
  <2>2. /\ p.composition = composition /\ p.segments = segments /\ p.nextEpoch = nextEpoch
        /\ p.tracker = tracker /\ Fine(p, TRUE)
    BY <1>1, FinePopped
  <2>3. ~Ends(x) /\ Reads(x) = 0 BY DEF Ends, Reads
  <2>4. Staged(p, f, D, 0)
    BY <1>1, <2>3, PopStaged
  <2>5. 0 \notin DOMAIN p.segments /\ p.nextEpoch \in Nat BY <2>2, FineMore
  <2>6. Requesting(p, t, D) BY <2>2 DEF Requesting
  <2>7. Onward(p, t, f, D, 0)
    <3>1. t.queue = p.queue OBVIOUS
    <3> HIDE DEF p, f
    <3> QED BY <1>4, <2>2, <2>4, <2>5, <2>6, <3>1, StagedSame
  <2>8. EndsNothing(Now, t) BY DEF EndsNothing, Now
  <2>9. Head(queue[d]).do # "show" OBVIOUS
  <2> QED BY <2>1, <2>7, <2>8, <2>9, QuietEdit
<1> QED BY <1>3, <1>4

LEMMA ApplySettles ==
  ASSUME TInv, TInv', NEW D \in Docs, Settling(D), NEW d \in Docs, RunApply(d)
  PROVE  Settling(D)'
<1> DEFINE p == Popped(d)
           x == Head(queue[d])
           c == composition
           b == Merge(c.buffer, x.sequence, x.request.snapshot, x.outcome, c.lock)
           held == HeldBack(c.buffer, x.sequence, x.request.snapshot, x.outcome, c.lock)
           keep == IF held = {} \/ (\E h \in c.held : h.sequence > x.sequence) THEN c.held ELSE held
           done == IF x.request.revision = b.revision THEN b.revision ELSE c.converted
           after == [c EXCEPT !.buffer = b, !.held = keep, !.converted = done]
           live == [p EXCEPT !.composition = after]
           sealed == MergeSealed(p, x.sequence, x.request, x.outcome)
<1>1. CanRun(d) /\ x.do = "apply" /\ UNCHANGED <<ranges, immediate>>
  BY DEF RunApply, Taken, others
<1>2. queue[d] # <<>> BY <1>1 DEF CanRun
<1>3. /\ Fine(p, TRUE) /\ p.composition = c /\ p.queue = Popped(d).queue
      /\ p.nextEpoch = nextEpoch /\ p.tracker = tracker /\ p.segments = segments
  BY <1>2, FinePopped
<1>4. CASE Live(x.epoch)
  <2>1. /\ Proceed(d, live)
        /\ IF b = c.buffer THEN UNCHANGED <<text, shown>> ELSE Render(d, x.epoch, Shown(b, immediate))
    BY <1>4 DEF RunApply
  <2>2. CompositionTyped(c)
    BY <1>3, FineParts
  <2> HIDE DEF b, keep, done
  <2>3. /\ after.epoch = c.epoch /\ after.doc = c.doc /\ after.preceding = c.preceding
        /\ after.buffer = b
    BY <2>2 DEF CompositionTyped, CompositionType
  <2> HIDE DEF after
  <2>4. /\ live.composition = after /\ live.nextEpoch = p.nextEpoch /\ live.queue = p.queue
        /\ live.segments = p.segments /\ live.tracker = p.tracker
    BY DEF Popped, Now
  <2>5. x.do \in {"apply", "lost"} /\ x = Head(queue[d]) BY <1>1
  <2> DEFINE t == live
  <2>6. /\ t.nextEpoch = nextEpoch /\ t.queue = Popped(d).queue /\ t.segments = segments
        /\ t.tracker = tracker /\ t.composition.epoch = composition.epoch
        /\ t.composition.doc = composition.doc /\ t.composition.preceding = composition.preceding
        /\ t.composition.buffer = b
    BY <1>3, <2>3, <2>4
  <2>7. IF t.composition.buffer = composition.buffer THEN UNCHANGED <<text, shown>>
        ELSE Render(d, x.epoch, Shown(t.composition.buffer, immediate))
    BY <2>1, <2>6
  <2>8. Proceed(d, t) BY <2>1
  <2> HIDE DEF t, x
  <2> QED BY <1>1, <1>4, <2>5, <2>6, <2>7, <2>8, ChangingEdit
<1>5. CASE ~Live(x.epoch)
  <2> DEFINE f == shown.epoch
             t == sealed
  <2>1. Proceed(d, t) /\ UNCHANGED <<shown, ranges, text, immediate>>
    BY <1>1, <1>5 DEF RunApply
  <2>2. Applies(x, tracker.asked) BY <1>1, <1>2, PoppedLeads DEF TInv
  <2>3. /\ Requested(x.request, x.sequence, p.tracker.asked)
        /\ x.outcome.predicted \in 0..Len(x.request.snapshot)
    BY <1>3, <2>2 DEF Applies
  <2>4. Staged(p, f, D, 0)
    BY <1>1, <1>2, PopStaged DEF Ends, Reads
  <2>5. f \in Nat BY EditStart
  <2>6. p.composition.epoch \in Nat BY <1>3, FineMore
  <2> HIDE DEF p, f, x
  <2>7. Scene(p, p.composition.epoch, f, D, 0) /\ Opened(p, D, 0) BY <2>4 DEF Staged
  <2>8. Aside(p, t, p.composition.epoch, f, D, 0)
    <3> DEFINE o == p.composition.epoch
               a == x.sequence
               r == x.request
               y == x.outcome
    <3>1. o \in Nat /\ Scene(p, o, f, D, 0) /\ Requested(r, a, p.tracker.asked)
          /\ y.predicted \in 0..Len(r.snapshot) /\ t = MergeSealed(p, a, r, y)
      BY <2>3, <2>6, <2>7
    <3> HIDE DEF o, a, r, y, t
    <3> QED BY <1>3, <2>5, <3>1, AsideMergeSealed DEF o
  <2>9. EndsNothing(p, t)
    <3> DEFINE a == x.sequence
               r == x.request
               y == x.outcome
    <3>1. Requested(r, a, p.tracker.asked)
          /\ y.predicted \in 0..Len(r.snapshot) /\ t = MergeSealed(p, a, r, y)
      BY <2>3
    <3> HIDE DEF a, r, y, t
    <3> QED BY <1>3, <3>1, DoneMergeSealed
  <2> HIDE DEF t
  <2>10. Onward(p, t, f, D, 0) BY <2>7, <2>8, AsideMoves
  <2>11. EndsNothing(Now, t)
    BY <1>3, <2>9 DEF EndsNothing, Now
  <2>12. t.nextEpoch = nextEpoch BY <1>3, <2>8 DEF Aside
  <2>13. Head(queue[d]).do # "show" BY <1>1 DEF x
  <2> QED BY <1>1, <2>1, <2>10, <2>11, <2>12, <2>13, QuietEdit DEF p, f
<1> QED BY <1>4, <1>5

LEMMA LostSettles ==
  ASSUME TInv, TInv', NEW D \in Docs, Settling(D), NEW d \in Docs, RunLost(d)
  PROVE  Settling(D)'
<1> DEFINE p == Popped(d)
           x == Head(queue[d])
           c == composition
           b == AcceptLocalCandidates(c.buffer)
           live == [p EXCEPT !.composition.converted = b.revision, !.composition.buffer = b]
<1>1. CanRun(d) /\ x.do = "lost" /\ UNCHANGED <<ranges, immediate>>
  BY DEF RunLost, Taken, others
<1>2. queue[d] # <<>> BY <1>1 DEF CanRun
<1>3. /\ Fine(p, TRUE) /\ p.composition = c /\ p.queue = Popped(d).queue
      /\ p.nextEpoch = nextEpoch /\ p.tracker = tracker /\ p.segments = segments
  BY <1>2, FinePopped
<1>4. CASE Live(x.epoch)
  <2>1. /\ Proceed(d, live)
        /\ IF b = c.buffer THEN UNCHANGED <<text, shown>> ELSE Render(d, x.epoch, Shown(b, immediate))
    BY <1>4 DEF RunLost
  <2>2. CompositionTyped(p.composition) BY <1>3, FineParts
  <2> HIDE DEF b
  <2>3. /\ live.composition.epoch = c.epoch /\ live.composition.doc = c.doc
        /\ live.composition.preceding = c.preceding /\ live.composition.buffer = b
        /\ live.nextEpoch = p.nextEpoch /\ live.queue = p.queue
        /\ live.segments = p.segments /\ live.tracker = p.tracker
    BY <1>3, <2>2 DEF CompositionTyped, CompositionType, Popped, Now
  <2>5. x.do \in {"apply", "lost"} /\ x = Head(queue[d]) BY <1>1
  <2> DEFINE t == live
  <2>6. /\ t.nextEpoch = nextEpoch /\ t.queue = Popped(d).queue /\ t.segments = segments
        /\ t.tracker = tracker /\ t.composition.epoch = composition.epoch
        /\ t.composition.doc = composition.doc /\ t.composition.preceding = composition.preceding
        /\ t.composition.buffer = b
    BY <1>3, <2>3
  <2>7. IF t.composition.buffer = composition.buffer THEN UNCHANGED <<text, shown>>
        ELSE Render(d, x.epoch, Shown(t.composition.buffer, immediate))
    BY <2>1, <2>6
  <2>8. Proceed(d, t) BY <2>1
  <2> HIDE DEF t, x
  <2> QED BY <1>1, <1>4, <2>5, <2>6, <2>7, <2>8, ChangingEdit
<1>5. CASE ~Live(x.epoch)
  <2> DEFINE f == shown.epoch
  <2>1. Proceed(d, p) /\ UNCHANGED <<shown, ranges, text, immediate>>
    BY <1>1, <1>5 DEF RunLost
  <2>2. Staged(p, f, D, 0)
    BY <1>1, <1>2, PopStaged DEF Ends, Reads
  <2>3. EndsNothing(Now, p) BY <1>3 DEF EndsNothing, Now
  <2> DEFINE t == p
  <2>4. t.nextEpoch = nextEpoch /\ Onward(p, t, f, D, 0) /\ EndsNothing(Now, t) /\ Proceed(d, t)
    BY <1>3, <2>1, <2>2, <2>3, StagedStill
  <2>5. Head(queue[d]).do # "show" BY <1>1
  <2> HIDE DEF t
  <2> QED BY <1>1, <2>1, <2>4, <2>5, QuietEdit
<1> QED BY <1>4, <1>5

\* The edit is over when the controller goes on from st to t.
LEMMA EditGoesOn ==
  ASSUME TInv, NEW D \in Docs, Settling(D), NEW d \in Docs, CanRun(d),
         NEW st, NEW waits \in BOOLEAN, Fine(st, waits),
         SettledIn(st, shown', ranges', text', immediate, D),
         NEW t, Proceed(d, t), EndsNothing(Now, t), t.nextEpoch \in Nat,
         Onward(st, t, shown'.epoch, D, 0),
         immediate' = immediate, shown' \in {shown, NotShown} \/ busy.call # "terminate"
  PROVE  Settling(D)'
<1> DEFINE a == shown'
           b == ranges'
           c == text'
<1>1. SettledIn(st, a, b, c, immediate, D) /\ Onward(st, t, a.epoch, D, 0) OBVIOUS
<1> HIDE DEF a, b, c
<1>2. SettledIn(t, a, b, c, immediate, D) BY <1>1, SettledMoves
<1> QED BY <1>2, EditEnd DEF a, b, c

\* What is so before the last edit of a composition runs, which is shown no more.
Dropping(d, D, x) ==
  LET p == Popped(d)
      V == InUse(p, composition.epoch, 0, D)
  IN  /\ d = D /\ x.epoch \in 1..(nextEpoch - 1)
      /\ shown = NotShown \/ shown = [epoch |-> x.epoch, doc |-> D]
      /\ Staged(p, 0, D, 0) /\ ToShow(p, D)
      /\ x.epoch \notin V /\ ~InQueue(p.queue[D], x.epoch)
      /\ Standing(nextEpoch, segments, V, NotShown, ranges, text, D)

LEMMA EndDrops ==
  ASSUME TInv, NEW D \in Docs, Settling(D), NEW d \in Docs, queue[d] # <<>>,
         NEW x, x = Head(queue[d]), Ends(x)
  PROVE  Dropping(d, D, x)
<1> DEFINE p == Popped(d)
           f == shown.epoch
           o == composition.epoch
           U == InUse(Now, o, f, D)
           V == InUse(p, o, 0, D)
<1>1. /\ f \in Nat /\ Staged(Now, f, D, 0) /\ Scene(Now, o, f, D, 0)
      /\ Drawn(Now, shown, text, immediate, D)
      /\ shown = NotShown \/ shown = [epoch |-> f, doc |-> D]
      /\ f = 0 => shown = NotShown
      /\ Standing(nextEpoch, segments, U, shown, ranges, text, D)
  BY EditStart
<1>2. /\ x.epoch # 0 => d = D /\ f \in {0, x.epoch} /\ x.epoch \in 1..(nextEpoch - 1)
      /\ x.epoch # 0 /\ x.epoch # o /\ ~InQueue(p.queue[D], x.epoch)
  BY <1>1, PopHead
<1>3. PopMakes(d, D) BY PopFacts
<1>4. p.composition = composition /\ p.nextEpoch = nextEpoch BY FinePopped
<1>5. shown = NotShown \/ shown = [epoch |-> x.epoch, doc |-> D]
  <2> HIDE DEF f
  <2> QED BY <1>1, <1>2
<1>6. Reads(x) = 0 BY DEF Reads, Ends
<1>7. Staged(p, 0, D, 0)
  <2> HIDE DEF p, f
  <2>1. (0 = f \/ 0 = 0) /\ (Ends(x) => 0 # x.epoch) BY <1>2
  <2>2. Staged(Popped(d), 0, D, Reads(x)) BY <1>1, <2>1, PopScene
  <2> QED BY <1>6, <2>2 DEF p
<1>8. ToShow(p, D)
  <2>1. CASE ToShow(Now, D)
    BY <2>1, <1>3, <1>4 DEF ToShow, Now, Ends, PopMakes
  <2>2. CASE shown = [epoch |-> o, doc |-> D]
    <3>1. o = 0
      <4>1. f = o BY <2>2
      <4> HIDE DEF f
      <4> QED BY <1>2, <4>1
    <3> QED BY <1>4, <3>1 DEF ToShow
  <2> QED BY <1>1, <2>1, <2>2 DEF Drawn, Now
<1>9. V \subseteq U BY <1>3, <1>4 DEF InUse, PopMakes, Now
<1>10. x.epoch \notin V BY <1>2 DEF InUse
<1>11. shown.epoch \notin V
  BY <1>2, <1>10 DEF InUse
<1>12. Standing(nextEpoch, segments, V, NotShown, ranges, text, D)
  <2> HIDE DEF U, V
  <2> QED BY <1>1, <1>9, <1>11, StandsUnshown
<1> QED BY <1>2, <1>5, <1>7, <1>8, <1>10, <1>12 DEF Dropping

\* The controller, the list closed, once the composition is shown no more.
LEMMA Dropped ==
  ASSUME TInv, NEW D \in Docs, Settling(D), NEW d \in Docs, CanRun(d),
         NEW x, x = Head(queue[d]), Ends(x), Dropping(d, D, x),
         NEW tx, Standing(nextEpoch, segments, InUse(Popped(d), composition.epoch, 0, D),
                          NotShown, ranges, tx, D)
  PROVE  LET st == WithoutList(Popped(d))
         IN  /\ Fine(st, TRUE) /\ st.segments = segments /\ st.nextEpoch = nextEpoch
             /\ st.queue = Popped(d).queue /\ st.composition.epoch = composition.epoch
             /\ Onward(Popped(d), st, 0, D, 0) /\ ToShow(st, D)
             /\ SettledIn(st, NotShown, ranges, tx, immediate, D)
<1> DEFINE p == Popped(d)
           st == WithoutList(p)
           sh == NotShown
           o == composition.epoch
<1>0. queue[d] # <<>> BY DEF CanRun
<1>1. Fine(p, TRUE) /\ p.composition = composition /\ p.segments = segments /\ p.nextEpoch = nextEpoch
  BY <1>0, FinePopped
<1>2. Staged(p, 0, D, 0) /\ ToShow(p, D) BY DEF Dropping
<1>3. Standing(nextEpoch, segments, InUse(p, o, 0, D), sh, ranges, tx, D) OBVIOUS
<1>4. sh.epoch = 0 BY DEF NotShown
<1> HIDE DEF p, sh
<1>5. SettledIn(p, sh, ranges, tx, immediate, D)
  BY <1>1, <1>2, <1>3, <1>4 DEF SettledIn, Drawn
<1>6. Onward(p, st, 0, D, 0) BY <1>1, <1>2, StagedList
<1>7. Fine(st, TRUE) /\ st.nextEpoch = p.nextEpoch /\ st.composition.epoch = p.composition.epoch
      /\ st.segments = p.segments
  BY <1>1, FineList2
<1>8. st.queue = p.queue BY DEF WithoutList
<1>9. ToShow(st, D) BY <1>2, <1>7, <1>8 DEF ToShow
<1>10. st.nextEpoch \in Nat BY <1>7, FineMore
<1> HIDE DEF st
<1>11. SettledIn(st, sh, ranges, tx, immediate, D) BY <1>1, <1>4, <1>5, <1>6, <1>10, SettledMoves
<1> QED BY <1>1, <1>6, <1>7, <1>8, <1>9, <1>11 DEF p, st, sh

LEMMA CommitSettles ==
  ASSUME TInv, NEW D \in Docs, Settling(D), NEW d \in Docs, RunCommit(d)
  PROVE  Settling(D)'
<1> DEFINE x == Head(queue[d])
           p == Popped(d)
           st == WithoutList(p)
<1>1. /\ CanRun(d) /\ Ends(x) /\ Drop(x.epoch) /\ Proceed(d, st)
      /\ UNCHANGED <<ranges, text, immediate>>
  BY DEF RunCommit, Taken, Ends
<1>2. queue[d] # <<>> BY <1>1 DEF CanRun
<1>3. Dropping(d, D, x) BY <1>1, <1>2, EndDrops
<1>4. shown' = NotShown BY <1>1, <1>3 DEF Drop, Dropping, NotShown
<1>5. Standing(nextEpoch, segments, InUse(p, composition.epoch, 0, D), NotShown, ranges, text, D)
  BY <1>3 DEF Dropping
<1>6. /\ st.segments = segments /\ st.nextEpoch = nextEpoch
      /\ st.composition.epoch = composition.epoch
      /\ SettledIn(st, NotShown, ranges, text, immediate, D)
  BY <1>1, <1>3, <1>5, Dropped
<1>7. EndsNothing(Now, st) BY <1>6 DEF EndsNothing, Now
<1>8. SettledIn(st, shown', ranges', text', immediate, D) BY <1>1, <1>4, <1>6
<1> HIDE DEF st
<1> QED BY <1>1, <1>4, <1>7, <1>8, EditEnd

LEMMA DiscardSettles ==
  ASSUME TInv, NEW D \in Docs, Settling(D), NEW d \in Docs, RunDiscard(d)
  PROVE  Settling(D)'
<1> DEFINE x == Head(queue[d])
           p == Popped(d)
           st == WithoutList(p)
           e == x.epoch
           V == InUse(p, composition.epoch, 0, D)
           tx == text'
<1>1. /\ CanRun(d) /\ Ends(x) /\ Drop(e) /\ Proceed(d, st)
      /\ UNCHANGED <<ranges, immediate>>
      /\ tx = IF shown.epoch = e THEN [text EXCEPT ![d] = Rewritten(@, e, <<>>)] ELSE text
  BY DEF RunDiscard, Taken, Ends, others
<1>2. queue[d] # <<>> BY <1>1 DEF CanRun
<1>3. Dropping(d, D, x) BY <1>1, <1>2, EndDrops
<1>4. shown' = NotShown BY <1>1, <1>3 DEF Drop, Dropping, NotShown
<1>5. Standing(nextEpoch, segments, V, NotShown, ranges, text, D) /\ e \in Nat
      /\ \A r \in ranges : segments[r].doc \in Docs
  BY <1>3, EditStart DEF Dropping
<1>6. Standing(nextEpoch, segments, V, NotShown, ranges, tx, D)
  <2>1. CASE shown.epoch = e
    <3> DEFINE chars == <<>>
    <3>1. chars \in Seq(Character) OBVIOUS
    <3>2. Overwritten(text, tx, d, e, chars) BY <1>1, <2>1 DEF Overwritten
    <3> HIDE DEF V, tx, chars, e
    <3> QED BY <1>5, <3>1, <3>2, WrittenOver
  <2>2. CASE shown.epoch # e BY <1>1, <1>5, <2>2
  <2> QED BY <2>1, <2>2
<1> HIDE DEF tx
<1>7. /\ st.segments = segments /\ st.nextEpoch = nextEpoch
      /\ st.composition.epoch = composition.epoch
      /\ SettledIn(st, NotShown, ranges, tx, immediate, D)
  BY <1>1, <1>3, <1>6, Dropped
<1>8. EndsNothing(Now, st) BY <1>7 DEF EndsNothing, Now
<1>9. SettledIn(st, shown', ranges', text', immediate, D) BY <1>1, <1>4, <1>7 DEF tx
<1> HIDE DEF st
<1> QED BY <1>1, <1>4, <1>8, <1>9, EditEnd

\* A segment whose text is now the host's.
WithPlaced(st, e) == [st EXCEPT !.segments[e].placed = TRUE]

PlacedMakes(st, e, t, waits) ==
  /\ Fine(t, waits) /\ t.composition = st.composition /\ t.queue = st.queue
  /\ t.nextEpoch = st.nextEpoch /\ t.tracker = st.tracker
  /\ DOMAIN t.segments = DOMAIN st.segments
  /\ \A k \in DOMAIN st.segments :
       /\ t.segments[k].doc = st.segments[k].doc
       /\ t.segments[k].stage = st.segments[k].stage
       /\ t.segments[k].placed = (k = e \/ st.segments[k].placed)

LEMMA PlacedFacts ==
  ASSUME NEW st, NEW waits \in BOOLEAN, Fine(st, waits), NEW e \in DOMAIN st.segments
  PROVE  PlacedMakes(st, e, WithPlaced(st, e), waits)
<1> DEFINE r == st.segments[e]
           s == [r EXCEPT !.placed = TRUE]
           t == [st EXCEPT !.segments[e] = s]
<1>1. t = WithPlaced(st, e) BY DEF WithPlaced
<1>2. r \in SegmentType /\ \A k \in DOMAIN st.segments : st.segments[k] \in SegmentType
  BY DEF Fine, Typed1
<1>3. /\ s \in SegmentType /\ s.buffer = r.buffer /\ s.stage = r.stage /\ s.awaited = r.awaited
      /\ s.doc = r.doc /\ s.placed
  BY <1>2 DEF SegmentType
<1> HIDE DEF s
<1>4. Fine(t, waits) BY <1>3, FineStage
<1>5. /\ t.composition = st.composition /\ t.queue = st.queue /\ t.nextEpoch = st.nextEpoch
      /\ t.tracker = st.tracker /\ t.segments = [st.segments EXCEPT ![e] = s]
  BY DEF Fine, Good, IsState
<1> HIDE DEF t
<1>6. \A k \in DOMAIN st.segments : st.segments[k].placed \in BOOLEAN BY <1>2 DEF SegmentType
<1>7. \A k \in DOMAIN st.segments :
        /\ t.segments[k].doc = st.segments[k].doc
        /\ t.segments[k].stage = st.segments[k].stage
        /\ t.segments[k].placed = (k = e \/ st.segments[k].placed)
  BY <1>3, <1>5, <1>6
<1>8. DOMAIN t.segments = DOMAIN st.segments BY <1>5
<1> QED BY <1>1, <1>4, <1>5, <1>7, <1>8 DEF PlacedMakes

LEMMA SealSettles ==
  ASSUME TInv, NEW D \in Docs, Settling(D), NEW d \in Docs, RunSeal(d)
  PROVE  Settling(D)'
<1> DEFINE x == Head(queue[d])
           e == x.epoch
           p == Popped(d)
           st == WithoutList(p)
           o == composition.epoch
           V == InUse(p, o, 0, D)
           placed == WithPlaced(st, e)
           t == WriteIfFinished(placed, e)
           rg == ranges'
<1>1. /\ CanRun(d) /\ Ends(x) /\ x.do = "seal" /\ Drop(e)
      /\ UNCHANGED <<text, immediate>>
      /\ rg = IF shown.epoch = e THEN ranges \union {e} ELSE ranges
      /\ Proceed(d, IF e \notin DOMAIN segments THEN st ELSE t)
  BY DEF RunSeal, Taken, Ends, others, WithPlaced
<1>2. queue[d] # <<>> BY <1>1 DEF CanRun
<1>3. Dropping(d, D, x) BY <1>1, <1>2, EndDrops
<1>4. /\ e \in DOMAIN segments /\ segments[e].doc = D /\ d = D
  <2>1. x \in QueuedEdits(nextEpoch) /\ nextEpoch \in Nat BY <1>2, FinePopped, EditStart
  <2>2. x = SealEdit(e) BY <1>1, <2>1 DEF QueuedEdits, EditType, SealEdit
  <2>3. Head(queue[d]) = queue[d][1] /\ 1 \in DOMAIN queue[d]
    BY <1>2 DEF TInv, Typed1, Now
  <2>4. d = D BY <1>3 DEF Dropping
  <2>5. Has(queue[D], SealEdit(e)) BY <2>2, <2>3, <2>4 DEF Has
  <2>6. Scene(Now, o, shown.epoch, D, 0) BY EditStart
  <2> QED BY <2>4, <2>5, <2>6 DEF Scene, Now
<1>5. shown' = NotShown BY <1>1, <1>3 DEF Drop, Dropping, NotShown
<1>6. Standing(nextEpoch, segments, V, NotShown, ranges, text, D) /\ e \in Nat
      /\ e \notin V /\ ~InQueue(p.queue[D], e)
  BY <1>3 DEF Dropping
<1>7. /\ Fine(st, TRUE) /\ st.segments = segments /\ st.nextEpoch = nextEpoch
      /\ st.queue = p.queue /\ st.composition.epoch = o
      /\ Onward(p, st, 0, D, 0) /\ ToShow(st, D)
  BY <1>1, <1>3, <1>6, Dropped
<1> HIDE DEF x, e, p, st, o
<1>8. /\ Fine(placed, TRUE) /\ placed.composition = st.composition /\ placed.queue = st.queue
      /\ placed.nextEpoch = st.nextEpoch /\ placed.tracker = st.tracker
      /\ DOMAIN placed.segments = DOMAIN st.segments
      /\ \A k \in DOMAIN st.segments :
           /\ placed.segments[k].doc = st.segments[k].doc
           /\ placed.segments[k].stage = st.segments[k].stage
           /\ placed.segments[k].placed = (k = e \/ st.segments[k].placed)
  <2>1. e \in DOMAIN st.segments BY <1>4, <1>7
  <2>2. PlacedMakes(st, e, WithPlaced(st, e), TRUE) BY <1>7, <2>1, PlacedFacts
  <2>3. PlacedMakes(st, e, placed, TRUE) BY <2>2
  <2> HIDE DEF placed
  <2> QED BY <2>3 DEF PlacedMakes
<1> HIDE DEF placed
<1>9. Scene(st, o, 0, D, 0) /\ Opened(st, D, 0) BY <1>7 DEF Onward, Staged
<1>10. Scene(placed, o, 0, D, 0)
  <2>1. \A k : Has(placed.queue[D], SealEdit(k)) =>
          k \in DOMAIN placed.segments /\ placed.segments[k].doc = D /\ ~placed.segments[k].placed
    <3> TAKE k
    <3> HAVE Has(placed.queue[D], SealEdit(k))
    <3>1. k \in DOMAIN st.segments /\ st.segments[k].doc = D /\ ~st.segments[k].placed
      BY <1>8, <1>9 DEF Scene
    <3>2. k # e BY <1>6, <1>7, <1>8 DEF Has, InQueue, SealEdit
    <3> QED BY <1>8, <3>1, <3>2
  <2> QED BY <1>8, <1>9, <2>1 DEF Scene
<1>11. Opened(placed, D, 0) BY <1>8, <1>9 DEF Opened
<1>12. ToShow(placed, D) BY <1>7, <1>8 DEF ToShow
<1>13. Standing(nextEpoch, placed.segments, V, NotShown, rg, text, D)
  <2> DEFINE later == placed.segments
             sh == NotShown
  <2>1. \A r \in ranges : r \in DOMAIN segments /\ segments[r].placed BY <1>6 DEF Standing
  <2>2. \A r \in ranges : r \in DOMAIN later /\ later[r].doc = segments[r].doc /\ later[r].placed
    BY <1>7, <1>8, <2>1
  <2>3. nextEpoch \in Nat /\ nextEpoch <= nextEpoch /\ DOMAIN segments \subseteq 1..(nextEpoch - 1)
    BY EditStart
  <2>4. V \subseteq Nat \ {0} /\ 0 \notin V BY DEF InUse
  <2>5. sh.epoch = 0 BY DEF NotShown
  <2>6. e \in DOMAIN later /\ later[e].placed /\ later[e].doc = D BY <1>4, <1>7, <1>8
  <2>7. shown.epoch = e => PiecesOf(text[D], e) # {}
    <3>1. HAVE shown.epoch = e
    <3>2. Standing(nextEpoch, segments, InUse(Now, composition.epoch, shown.epoch, D),
                   shown, ranges, text, D)
      BY EditStart
    <3>3. e # 0 /\ e \in Nat BY <1>4, <2>3
    <3>4. shown # NotShown BY <3>1, <3>3 DEF NotShown
    <3>5. /\ text[D] \in Seq(PieceType) /\ text[D] # <<>> /\ text[D][Len(text[D])].epoch = e
      BY <3>1, <3>2, <3>4 DEF Standing
    <3>6. Len(text[D]) \in DOMAIN text[D] BY <3>5
    <3> QED BY <3>5, <3>6 DEF PiecesOf
  <2> HIDE DEF V, later, sh
  <2>8. Standing(nextEpoch, later, V, sh, ranges, text, D)
    BY <1>6, <2>2, <2>3, <2>4, <2>5, StandsOn DEF sh
  <2>9. CASE shown.epoch = e
    BY <2>6, <2>7, <2>9, <1>6, <2>8, StandsTracked, <1>1 DEF later, sh
  <2>10. CASE shown.epoch # e BY <1>1, <2>8, <2>10 DEF later, sh
  <2> QED BY <2>9, <2>10
<1>14. InUse(placed, placed.composition.epoch, 0, D) = V BY <1>7, <1>8, FinePopped, <1>2 DEF InUse, p, o
<1> HIDE DEF V, rg
<1>15. SettledIn(placed, NotShown, rg, text, immediate, D)
  BY <1>7, <1>8, <1>10, <1>11, <1>12, <1>13, <1>14 DEF NotShown, Staged, SettledIn, Drawn
<1>16. o \in Nat
  BY <1>7, FineMore
<1>17. Aside(placed, t, o, 0, D, 0) BY <1>4, <1>7, <1>8, <1>10, <1>16, AsideWrite
<1>18. EndsNothing(placed, t) BY <1>8, DoneWrite
<1> HIDE DEF t
<1>19. Onward(placed, t, 0, D, 0)
  BY <1>7, <1>8, <1>11, <1>17, AsideMoves
<1>20. EndsNothing(Now, t)
  BY <1>7, <1>8, <1>18 DEF Now, o, AllDone, Finished, EndsNothing
<1>21. Proceed(d, t) BY <1>1, <1>4
<1>22. t.nextEpoch \in Nat
  BY EditStart, <1>7, <1>8, <1>17 DEF Aside
<1>23. SettledIn(placed, shown', ranges', text', immediate, D)
  BY <1>1, <1>5, <1>15 DEF rg
<1>24. Onward(placed, t, shown'.epoch, D, 0) BY <1>5, <1>19 DEF NotShown
<1>25. shown' \in {shown, NotShown} BY <1>5
<1>26. immediate' = immediate BY <1>1
<1> QED BY <1>1, <1>8, <1>20, <1>21, <1>22, <1>23, <1>24, <1>25, <1>26, EditGoesOn

\* Text outside a composition is edited while D shows none.
LEMMA TypingEdit ==
  ASSUME TInv, NEW D \in Docs, Settling(D), NEW d \in Docs, CanRun(d), Types(Head(queue[d])),
         Proceed(d, Popped(d)), UNCHANGED <<shown, ranges, immediate>>,
         d # D => text'[D] = text[D],
         (d = D => shown = NotShown) =>
           Standing(nextEpoch, segments, InUse(Now, composition.epoch, shown.epoch, D),
                    shown, ranges, text', D)
  PROVE  Settling(D)'
<1> DEFINE p == Popped(d)
           f == shown.epoch
           o == composition.epoch
           U == InUse(Now, o, f, D)
           tx == text'
<1>1. queue[d] # <<>> BY DEF CanRun
<1>2. PopMakes(d, D) BY <1>1, PopFacts
<1>3. /\ p.composition = composition /\ p.segments = segments /\ p.nextEpoch = nextEpoch
      /\ Fine(p, TRUE)
  BY <1>1, FinePopped
<1>4. /\ f \in Nat /\ Scene(Now, o, f, D, 0) /\ Drawn(Now, shown, text, immediate, D)
      /\ f = 0 => shown = NotShown
  BY EditStart
<1>5. ~Ends(Head(queue[d])) /\ Reads(Head(queue[d])) = 0 BY DEF Types, Ends, Reads
<1>6. Staged(p, f, D, 0)
  BY <1>1, <1>5, PopStaged
<1>7. d = D => shown = NotShown
  <2>1. d = D => f = 0
    <3> DEFINE x == Head(queue[d])
    <3>1. x = Head(queue[d]) /\ Types(x) OBVIOUS
    <3> HIDE DEF x, f
    <3> QED BY <1>1, <1>4, <3>1, PopHead
  <2> QED BY <1>4, <2>1
<1>8. Standing(nextEpoch, segments, U, shown, ranges, tx, D) BY <1>7
<1>9. U \subseteq 1..(nextEpoch - 1) BY DEF InUse, Now
<1>10. \A e \in 1..(nextEpoch - 1) : (e = o \/ InQueue(p.queue[D], e)) => e \in U
  BY <1>2 DEF PopMakes, InUse, Now
<1>11. ToShow(Now, D) => ToShow(p, D)
  BY <1>2, <1>3 DEF Types, PopMakes, ToShow, Now
<1>12. Drawn(p, shown, tx, immediate, D)
  BY <1>11, <1>3, <1>4, <1>7 DEF Drawn, Now, NotShown, ToShow
<1>13. Moved(p, p, D) /\ p.nextEpoch = nextEpoch
  <2>1. Onward(p, p, f, D, 0)
    <3> HIDE DEF p, f
    <3> QED BY <1>3, <1>6, StagedStill
  <2> QED BY <1>3, <2>1 DEF Onward
<1> HIDE DEF U, tx
<1>14. SettledIn(p, shown, ranges, tx, immediate, D)
  <2> DEFINE t == p
  <2>1. /\ t.nextEpoch = nextEpoch /\ Staged(t, shown.epoch, D, 0) /\ Moved(Popped(d), t, D)
        /\ Drawn(t, shown, tx, immediate, D)
    BY <1>6, <1>12, <1>13
  <2>2. \A e \in 1..(nextEpoch - 1) :
           (e = composition.epoch \/ InQueue(Popped(d).queue[D], e)) => e \in U
    BY <1>10
  <2> HIDE DEF t
  <2>3. SettledIn(t, shown, ranges, tx, immediate, D)
    BY <1>1, <1>8, <1>9, <2>1, <2>2, EditSettles
  <2> QED BY <2>3 DEF t
<1>15. EndsNothing(Now, p) BY <1>3 DEF EndsNothing, Now
<1>16. SettledIn(p, shown', ranges', text', immediate, D) BY <1>14 DEF tx
<1> HIDE DEF p
<1> QED BY <1>15, <1>16, EditEnd DEF p

LEMMA InsertSettles ==
  ASSUME TInv, NEW D \in Docs, Settling(D), NEW d \in Docs, RunInsert(d)
  PROVE  Settling(D)'
<1> DEFINE piece == Piece(0, <<Typed>>)
           U == InUse(Now, composition.epoch, shown.epoch, D)
           tx == text'
<1>1. /\ CanRun(d) /\ Types(Head(queue[d])) /\ Proceed(d, Popped(d))
      /\ UNCHANGED <<shown, ranges, immediate>>
      /\ tx = [text EXCEPT ![d] = Append(@, piece)]
  BY DEF RunInsert, Taken, Types, others
<1>2. /\ Standing(nextEpoch, segments, U, shown, ranges, text, D)
      /\ \A r \in ranges : segments[r].doc \in Docs
      /\ nextEpoch \in Nat \ {0} /\ text \in [Docs -> Seq(PieceType)]
  BY EditStart
<1>3. piece \in PieceType /\ piece.epoch = 0 BY TypedCharacter DEF Piece, PieceType
<1>4. 0 \notin U BY DEF InUse
<1>5. d # D => tx[D] = text[D] BY <1>1, <1>2
<1>6. ASSUME d = D => shown = NotShown
      PROVE  Standing(nextEpoch, segments, U, shown, ranges, tx, D)
  <2> DEFINE sh == shown
  <2>1. /\ piece.epoch < nextEpoch /\ piece.epoch \notin U /\ sh = shown
        /\ Standing(nextEpoch, segments, U, sh, ranges, text, D) /\ (d = D => sh = NotShown)
        /\ nextEpoch \in Nat
    BY <1>2, <1>3, <1>4, <1>6
  <2> HIDE DEF piece, U, sh
  <2>2. Standing(nextEpoch, segments, U, sh, ranges, [text EXCEPT ![d] = Append(@, piece)], D)
    BY <1>2, <1>3, <1>4, <2>1, StandsAppended
  <2> QED BY <1>1, <2>1, <2>2
<1> QED BY <1>1, <1>5, <1>6, TypingEdit

LEMMA EraseSettles ==
  ASSUME TInv, NEW D \in Docs, Settling(D), NEW d \in Docs, RunErase(d)
  PROVE  Settling(D)'
<1> DEFINE p == Popped(d)
           f == shown.epoch
           U == InUse(Now, composition.epoch, f, D)
           tx == text'
<1>1. CanRun(d) /\ Types(Head(queue[d])) /\ UNCHANGED <<shown, ranges, immediate>>
  BY DEF RunErase, Taken, Types, others
<1>2. queue[d] # <<>> BY <1>1 DEF CanRun
<1>3. /\ Standing(nextEpoch, segments, U, shown, ranges, text, D)
      /\ \A r \in ranges : segments[r].doc \in Docs
      /\ text \in [Docs -> Seq(PieceType)] /\ f \in Nat
  BY EditStart
<1>4. CASE Erasable(d) = {}
  <2>1. tx = [text EXCEPT ![d] = Erased(@, Len(@), 1)] /\ Proceed(d, p)
    BY <1>4 DEF RunErase
  <2> DEFINE r == Erased(text[d], Len(text[d]), 1)
  <2>2. SameEpochs(text[d], r)
    <3> DEFINE w == text[d]
               n == Len(w)
    <3>1. w \in Seq(PieceType) /\ n \in 0..Len(w) BY <1>3
    <3> HIDE DEF w, n
    <3>2. SameEpochs(w, Erased(w, n, 1)) BY <3>1, ErasedSame
    <3> QED BY <3>2 DEF w, n
  <2> HIDE DEF r
  <2>3. tx = [text EXCEPT ![d] = r] BY <2>1 DEF r
  <2>4. tx \in [Docs -> Seq(PieceType)] BY <1>3, <2>2, <2>3 DEF SameEpochs
  <2>5. \A c \in Docs : SameEpochs(text[c], tx[c])
    BY <1>3, <2>2, <2>3 DEF SameEpochs
  <2>6. d # D => tx[D] = text[D] BY <1>3, <2>3
  <2>7. Standing(nextEpoch, segments, U, shown, ranges, tx, D)
    <3> HIDE DEF U, tx
    <3> QED BY <1>3, <2>4, <2>5, StandsText
  <2> QED BY <1>1, <2>1, <2>6, <2>7, TypingEdit
<1>5. CASE Erasable(d) # {}
  <2>1. PICK e \in Erasable(d) : Proceed(d, WriteIfFinished([p EXCEPT !.segments[e] = EraseLast(@)], e))
    BY <1>5 DEF RunErase
  <2>2. UNCHANGED <<shown, ranges, text, immediate>> BY <1>1, <1>5 DEF RunErase
  <2> DEFINE s == EraseLast(segments[e])
             st == [p EXCEPT !.segments[e] = s]
             t == WriteIfFinished(st, e)
  <2>3. Fine(p, TRUE) /\ p.composition = composition /\ p.segments = segments /\ p.nextEpoch = nextEpoch
    BY <1>2, FinePopped
  <2>4. e \in DOMAIN segments /\ segments[e] \in SegmentType
    BY <2>3 DEF SegmentsOf, Erasable, Fine, Typed1
  <2>5. /\ s \in SegmentType /\ s.buffer = segments[e].buffer
        /\ s.stage = "converting" =>
             segments[e].stage = "converting" /\ s.awaited = segments[e].awaited
        /\ s.doc = segments[e].doc /\ s.placed = segments[e].placed
        /\ s.stage \in {segments[e].stage, "finished"}
    <3> DEFINE r == segments[e]
               stage == IF r.erased + 1 >= Length(r) THEN "finished" ELSE r.stage
    <3>1. s = [r EXCEPT !.erased = r.erased + 1, !.stage = stage] BY DEF EraseLast
    <3>2. r \in SegmentType /\ r.erased + 1 \in Nat /\ stage \in {"context", "converting", "finished"}
      BY <2>4, SegmentParts
    <3>3. stage \in {r.stage, "finished"} OBVIOUS
    <3> HIDE DEF r, stage, s
    <3> QED BY <3>1, <3>2, <3>3 DEF SegmentType, r
  <2>6. Proceed(d, t)
    BY <2>3, <2>1
  <2>7. Staged(p, f, D, 0)
    BY <1>1, <1>2, PopStaged DEF Types, Ends, Reads
  <2>8. EndsNothing(Now, p) BY <2>3 DEF EndsNothing, Now
  <2>9. Head(queue[d]).do # "show" BY <1>1 DEF Types
  <2>10. Popped(d) = p OBVIOUS
  <2> DEFINE o == p.composition.epoch
  <2>11. Scene(p, o, f, D, 0) BY <2>7 DEF Staged
  <2>12. o \in Nat BY <2>3, FineMore
  <2> HIDE DEF p, s, f, o
  <2>13. Fine(st, TRUE) BY <2>3, <2>4, <2>5, FineStage
  <2>14. /\ st.composition = p.composition /\ st.queue = p.queue /\ st.nextEpoch = p.nextEpoch
         /\ st.tracker = p.tracker /\ st.segments = [segments EXCEPT ![e] = s]
    BY <2>3 DEF Fine, Good, IsState
  <2> HIDE DEF st
  <2>15. /\ DOMAIN st.segments = DOMAIN p.segments /\ e \in DOMAIN p.segments
         /\ \A k \in DOMAIN p.segments : k # e => st.segments[k] = p.segments[k]
         /\ st.segments[e] = s
    BY <2>3, <2>4, <2>14
  <2>16. Aside(p, st, o, f, D, 0)
    <3>1. \A k \in DOMAIN st.tracker.pending :
           \/ k \in DOMAIN p.tracker.pending /\ st.tracker.pending[k] = p.tracker.pending[k]
           \/ st.tracker.pending[k].epoch = e
      BY <2>14
    <3> QED BY ZenonT(30), <2>3, <2>4, <2>5, <2>11, <2>14, <2>15, <3>1, AsideFrame
  <2>17. Aside(st, t, o, f, D, 0)
    <3>1. Scene(st, o, f, D, 0) BY <2>16 DEF Aside
    <3> QED BY <1>3, <2>12, <2>13, <2>15, <3>1, AsideWrite DEF f
  <2>18. EndsNothing(st, t) BY <2>13, DoneWrite
  <2> HIDE DEF t
  <2>19. p.nextEpoch \in Nat BY <2>3, FineMore
  <2>20. Aside(p, t, o, f, D, 0) BY <2>16, <2>17, <2>19, AsideThen
  <2>21. Onward(p, t, f, D, 0) BY <2>7, <2>20, AsideOnward DEF o
  <2>22. t.nextEpoch = nextEpoch BY <2>3, <2>20 DEF Aside
  <2>23. EndsNothing(Now, t)
    BY <2>3, <2>5, <2>15, <2>8, <2>14, <2>18 DEF AllDone, Finished, EndsNothing, Now
  <2> QED BY <1>1, <2>2, <2>6, <2>9, <2>10, <2>21, <2>22, <2>23, QuietEdit DEF f
<1> QED BY <1>4, <1>5

\* Writing a segment changes its own piece and those before it.
LEMMA WrittenSame ==
  ASSUME NEW p \in Seq(PieceType), NEW e \in Nat, PiecesOf(p, e) # {}, NEW s \in SegmentType
  PROVE  /\ SameEpochs(p, Written(p, e, s))
         /\ p[Len(p)].epoch # e => Written(p, e, s)[Len(p)] = p[Len(p)]
<1> DEFINE chars == SealedText(s)
           n == PieceOf(p, e) - 1
           count == ErasesBefore(s)
           r == Rewritten(p, e, chars)
           w == Erased(r, n, count)
<1>1. PieceOf(p, e) \in 1..Len(p) BY PieceFound
<1>2. s.buffer.entries \in Seq(Entry) /\ s.erased \in Nat BY SegmentParts DEF Buffer
<1>3. Len(s.buffer.entries) \in Nat BY <1>2
<1>4. count \in Nat /\ Kept(s) \in 0..Len(s.buffer.entries)
  BY <1>2, <1>3 DEF ErasesBefore, Kept, Length
<1>5. chars \in Seq(Character)
  <2> DEFINE q == SubSeq(s.buffer.entries, 1, Kept(s))
  <2>1. q \in Seq(Entry) BY <1>2, <1>4
  <2> HIDE DEF q
  <2>2. TextOf(q) \in Seq(Character) BY <2>1, TextType, LetterText
  <2> QED BY <2>2 DEF SealedText, q
<1>6. /\ SameEpochs(p, r)
      /\ \A i \in 1..Len(p) : r[i] = IF p[i].epoch = e THEN Piece(e, chars) ELSE p[i]
  <2> HIDE DEF chars
  <2> QED BY <1>5, RewrittenSame
<1>7. r \in Seq(PieceType) /\ Len(r) = Len(p) BY <1>6 DEF SameEpochs
<1>8. n \in 0..Len(r) /\ n < Len(p) /\ Len(p) \in Nat /\ Len(p) \in 1..Len(p) BY <1>1, <1>7
<1>9. Written(p, e, s) = w BY DEF Written
<1> HIDE DEF r, n, count
<1>10. SameEpochs(r, w) /\ \A i \in 1..Len(r) : i > n => w[i] = r[i] BY <1>4, <1>7, <1>8, ErasedSame
<1> HIDE DEF w
<1>11. SameEpochs(p, w) BY <1>6, <1>10, SameThen
<1>12. p[Len(p)].epoch # e => w[Len(p)] = p[Len(p)] BY <1>6, <1>7, <1>8, <1>10
<1> QED BY <1>9, <1>11, <1>12

\* A segment is gone, with its range.
LEMMA WriteSettles ==
  ASSUME TInv, NEW D \in Docs, Settling(D), NEW d \in Docs, RunWrite(d)
  PROVE  Settling(D)'
<1> DEFINE p == Popped(d)
           f == shown.epoch
           o == composition.epoch
           U == InUse(Now, o, f, D)
           tx == text'
<1>1. CanRun(d) /\ Head(queue[d]).do = "write" /\ UNCHANGED <<shown, immediate>>
  BY DEF RunWrite, Taken
<1>2. queue[d] # <<>> BY <1>1 DEF CanRun
<1>3. /\ Standing(nextEpoch, segments, U, shown, ranges, text, D)
      /\ \A r \in ranges : segments[r].doc \in Docs
      /\ text \in [Docs -> Seq(PieceType)] /\ f \in Nat
      /\ Staged(Now, f, D, 0) /\ Drawn(Now, shown, text, immediate, D)
      /\ nextEpoch \in Nat /\ DOMAIN segments \subseteq 1..(nextEpoch - 1)
  BY EditStart
<1>4. CASE Writable(d) = {}
  <2>1. UNCHANGED <<shown, ranges, text, immediate>> /\ Proceed(d, p) BY <1>1, <1>4 DEF RunWrite
  <2>2. ~Ends(Head(queue[d])) /\ Reads(Head(queue[d])) = 0 BY <1>1 DEF Ends, Reads
  <2>3. Staged(p, f, D, 0)
    BY <1>2, <2>2, PopStaged
  <2>4. Fine(p, TRUE) /\ p.nextEpoch = nextEpoch /\ p.composition = composition /\ p.segments = segments
    BY <1>2, FinePopped
  <2>5. EndsNothing(Now, p) BY <2>4 DEF EndsNothing, Now
  <2> DEFINE t == p
  <2>6. Onward(p, t, f, D, 0) /\ EndsNothing(Now, t) /\ t.nextEpoch = nextEpoch /\ Proceed(d, t)
    BY <2>1, <2>3, <2>4, <2>5, StagedStill
  <2>7. Head(queue[d]).do # "show" BY <1>1
  <2> HIDE DEF t
  <2> QED BY <1>1, <2>1, <2>6, <2>7, QuietEdit
<1>5. CASE Writable(d) # {}
  <2> DEFINE fewer(e) == [Now EXCEPT !.segments = Restrict(@, DOMAIN segments \ {e})]
  <2>1. PICK e \in Writable(d) :
          /\ Proceed(d, fewer(e)) /\ ranges' = ranges \ {e}
          /\ IF Untouched(d, e) THEN tx = [text EXCEPT ![d] = Written(@, e, segments[e])]
             ELSE tx = text
    BY <1>5 DEF RunWrite
  <2> DEFINE t == fewer(e)
             rg == ranges \ {e}
  <2>2. e \in DOMAIN segments /\ segments[e].doc = d /\ segments[e].placed /\ e \in Nat
    BY <1>3 DEF Writable, SegmentsOf, Ready
  <2>3. segments[e] \in SegmentType BY <2>2 DEF TInv, Typed1, Now
  <2>4. /\ t.composition = composition /\ t.queue = queue /\ t.nextEpoch = nextEpoch
        /\ t.tracker = tracker /\ t.segments = Restrict(segments, DOMAIN segments \ {e})
    BY DEF Now
  <2> HIDE DEF fewer
  <2>5. DOMAIN t.segments = DOMAIN segments \ {e}
        /\ \A k \in DOMAIN segments : k # e => t.segments[k] = segments[k]
    BY <2>4 DEF Restrict
  <2> HIDE DEF t
  <2>6. Scene(Now, o, f, D, 0) /\ Opened(Now, D, 0) BY <1>3 DEF Staged, Now
  <2>7. Scene(t, o, f, D, 0)
    BY <2>2, <2>4, <2>5, <2>6 DEF Scene, Now
  <2>8. Opened(t, D, 0) BY <2>4, <2>6 DEF Opened, Now
  <2>9. Staged(t, f, D, 0) BY <2>4, <2>7, <2>8 DEF Staged
  <2>10. ToShow(Now, D) => ToShow(t, D) BY <2>4 DEF ToShow, Now
  <2>11. InUse(t, o, f, D) = U BY <2>4 DEF InUse, Now
  <2>12. U \subseteq Nat \ {0} /\ 0 \notin U BY DEF InUse
  <2>13. f = 0 \/ f \in U BY <1>3 DEF Standing, NotShown
  <2>14. /\ tx \in [Docs -> Seq(PieceType)] /\ \A c \in Docs : SameEpochs(text[c], tx[c])
         /\ shown.epoch # 0 => CharsOf(tx[D], f) = CharsOf(text[D], f)
         /\ Standing(nextEpoch, segments, U, shown, ranges, tx, D)
    <3>0. \A c \in Docs : SameEpochs(text[c], text[c]) BY <1>3 DEF SameEpochs
    <3>1. CASE tx = text BY <1>3, <3>0, <3>1
    <3>2. CASE Untouched(d, e) /\ tx = [text EXCEPT ![d] = Written(@, e, segments[e])]
      <4> DEFINE w == text[d]
                 r == Written(w, e, segments[e])
      <4>1. e \in ranges BY <3>2 DEF Untouched
      <4>2. PiecesOf(w, e) # {} /\ e \notin U BY <1>3, <2>2, <4>1 DEF Standing
      <4>3. w \in Seq(PieceType) BY <1>3
      <4>4. SameEpochs(w, r) /\ (w[Len(w)].epoch # e => r[Len(w)] = w[Len(w)])
        <5> DEFINE s == segments[e]
        <5>1. s \in SegmentType BY <2>3
        <5> HIDE DEF w, s
        <5> QED BY <2>2, <4>2, <4>3, <5>1, WrittenSame DEF s
      <4>5. tx = [text EXCEPT ![d] = r] BY <3>2
      <4> HIDE DEF r
      <4>6. r \in Seq(PieceType) /\ Len(r) = Len(w) BY <4>4 DEF SameEpochs
      <4>7. \A c \in Docs : tx[c] = IF c = d THEN r ELSE text[c] BY <1>3, <4>5
      <4>8. tx \in [Docs -> Seq(PieceType)] BY <1>3, <4>5, <4>6
      <4>9. \A c \in Docs : SameEpochs(text[c], tx[c]) BY <3>0, <4>4, <4>7
      <4> HIDE DEF tx, U, w
      <4>10. Standing(nextEpoch, segments, U, shown, ranges, tx, D)
        BY <1>3, <4>8, <4>9, StandsText
      <4>11. ASSUME shown.epoch # 0 PROVE CharsOf(tx[D], shown.epoch) = CharsOf(text[D], shown.epoch)
        <5>1. CharsOf(tx[D], shown.epoch) = tx[D][Len(tx[D])].chars BY <4>10, <4>11, LastChars
        <5>2. CharsOf(text[D], shown.epoch) = text[D][Len(text[D])].chars BY <1>3, <4>11, LastChars
        <5>3. shown # NotShown BY <4>11 DEF NotShown
        <5>4. text[D][Len(text[D])].epoch = shown.epoch BY <1>3, <5>3 DEF Standing
        <5>5. shown.epoch # e BY <2>13, <4>2, <4>11
        <5>6. tx[D][Len(tx[D])] = text[D][Len(text[D])]
          BY <4>4, <4>6, <4>7, <5>4, <5>5 DEF w
        <5> QED BY <5>1, <5>2, <5>6
      <4> QED BY <4>8, <4>9, <4>10, <4>11 DEF tx, U
    <3> QED BY <2>1, <3>1, <3>2
  <2>15. Standing(nextEpoch, t.segments, U, shown, rg, tx, D)
    <3> DEFINE later == t.segments
               sh == shown
    <3>1. Standing(nextEpoch, segments, U, sh, rg, tx, D)
      <4>1. rg \subseteq ranges OBVIOUS
      <4> HIDE DEF U, tx, rg
      <4> QED BY <2>14, <4>1, StandsFewer
    <3>2. \A r \in rg : r \in DOMAIN segments /\ segments[r].placed /\ r # e
      BY <1>3 DEF Standing
    <3>3. \A r \in rg : r \in DOMAIN later /\ later[r].doc = segments[r].doc /\ later[r].placed
      BY <2>5, <3>2
    <3>4. sh.epoch = 0 \/ sh.epoch \in U BY <2>13
    <3>5. nextEpoch <= nextEpoch BY <1>3
    <3> HIDE DEF U, tx, rg, later, sh
    <3>6. Standing(nextEpoch, later, U, sh, rg, tx, D)
      BY <1>3, <2>12, <3>1, <3>3, <3>4, <3>5, StandsOn
    <3> QED BY <3>6 DEF later, sh
  <2>16. Drawn(t, shown, tx, immediate, D)
    <3>1. CASE ToShow(Now, D) BY <2>10, <3>1 DEF Drawn
    <3>2. CASE ~ToShow(Now, D)
      <4>1. shown = [epoch |-> o, doc |-> D] /\ CharsOf(text[D], o) = Shown(composition.buffer, immediate)
        BY <1>3, <3>2 DEF Drawn, Now
      <4>2. o # 0 BY <3>2 DEF ToShow, Now
      <4>3. f = o BY <4>1
      <4>4. CharsOf(tx[D], o) = CharsOf(text[D], o) BY <2>14, <4>2, <4>3
      <4> HIDE DEF tx
      <4> QED BY <2>4, <4>1, <4>4 DEF Drawn
    <3> QED BY <3>1, <3>2
  <2>17. SettledIn(t, shown, rg, tx, immediate, D)
    <3> HIDE DEF tx, rg, U
    <3> QED BY <2>4, <2>9, <2>11, <2>15, <2>16 DEF SettledIn
  <2>18. EndsNothing(Now, t) BY <2>4, <2>5 DEF EndsNothing, AllDone, Now
  <2>19. Proceed(d, t) /\ ranges' = rg BY <2>1 DEF t
  <2>20. SettledIn(t, shown', ranges', text', immediate, D) BY <1>1, <2>17, <2>19 DEF tx
  <2> QED BY <1>1, <2>18, <2>19, <2>20, EditEnd
<1> QED BY <1>4, <1>5

LEMMA RunEditSettles ==
  ASSUME TInv, TInv', NEW D \in Docs, Settling(D), NEW d \in Docs, RunEdit(d)
  PROVE  Settling(D)'
BY OpenSettles, ShowSettles, ApplySettles, CommitSettles, DiscardSettles, SealSettles,
   LostSettles, EraseSettles, InsertSettles, WriteSettles DEF RunEdit

-----------------------------------------------------------------------------
(***************************************************************************)
(* The keys                                                                *)
(***************************************************************************)
\* The controller reaches st, but for what was typed.
Reaches(st) ==
  /\ composition' = st.composition /\ nextEpoch' = st.nextEpoch /\ tracker' = st.tracker
  /\ segments' = st.segments /\ queue' = st.queue

\* The controller goes on to st, the screen stays.
LEMMA SettlesOn ==
  ASSUME TInv, NEW D \in Docs, Settling(D), NEW st, Reaches(st), st.nextEpoch \in Nat,
         Onward(Now, st, shown.epoch, D, 0), UNCHANGED <<shown, ranges, text, immediate>>
  PROVE  SettledIn(Now, shown, ranges, text, immediate, D)'
<1> DEFINE a == shown
           b == ranges
           c == text
           g == immediate
           t == Now'
<1>1. Fine(Now, TRUE) BY FineNow
<1>2. SettledIn(Now, a, b, c, g, D) /\ Onward(Now, st, a.epoch, D, 0) BY DEF Settling
<1>3. /\ t.composition = st.composition /\ t.nextEpoch = st.nextEpoch /\ t.tracker = st.tracker
      /\ t.segments = st.segments /\ t.queue = st.queue
  BY DEF Reaches, Now
<1> HIDE DEF a, b, c, g, t
<1>4. SettledIn(st, a, b, c, g, D) BY <1>1, <1>2, SettledMoves
<1>5. SettledIn(t, a, b, c, g, D) BY <1>3, <1>4, SettledSame
<1>6. t = Now' /\ a = shown' /\ b = ranges' /\ c = text' /\ g = immediate' BY DEF t, a, b, c, g
<1> QED BY <1>5, <1>6

LEMMA NoCall ==
  ASSUME NEW D, busy'.call \notin {"terminate", "stop", "stopped"}
  PROVE  BusyOK(D)'
BY DEF BusyOK

\* A key in D.
LEMMA KeyGoesOn ==
  ASSUME TInv, NEW D \in Docs, Settling(D), NEW d, NEW st, Handled(d, st), st.nextEpoch \in Nat,
         Onward(Now, st, shown.epoch, D, 0), UNCHANGED <<shown, ranges, text, immediate>>
  PROVE  Settling(D)'
BY SettlesOn, NoCall DEF Handled, Busy, NotBusy, Become, Reaches, Settling

\* With nothing open or queued anywhere, any document will do.
LEMMA Rehomed ==
  ASSUME TInv, NEW D \in Docs, Alone(D), Settling(D), docs \subseteq calls.docs,
         NEW d \in docs, d \in Docs, Idle, calls.prompt => Granted, Active => Owns(d)
  PROVE  Alone(d) /\ Settling(d)
<1> DEFINE f == shown.epoch
           o == composition.epoch
<1>1. /\ Scene(Now, o, f, D, 0) /\ Opened(Now, D, 0) /\ f \in Nat
      /\ f = 0 => shown = NotShown
      /\ Standing(nextEpoch, segments, InUse(Now, o, f, D), shown, ranges, text, D)
  BY EditStart
<1>2. CASE Active
  BY <1>1, <1>2 DEF Owns, Active, Opened, Now
<1>3. CASE ~Active /\ calls.prompt
  <2>1. \A c \in Docs : queue[c] = <<>> BY <1>3 DEF Granted
  <2>2. o = 0 BY <1>3 DEF Active
  <2>3. f = 0
    BY <1>1, <2>1, <2>2, FlowNothing DEF Scene, Now
  <2>4. shown = NotShown BY <1>1, <2>3
  <2>5. Alone(d) BY <1>3 DEF Alone
  <2>6. Scene(Now, 0, 0, d, 0)
    BY FlowEmpty, <2>1, <1>1 DEF Has, Scene, Now
  <2>7. Opened(Now, d, 0)
    BY FineNow, FineMore, <2>2 DEF Now, Opened
  <2>8. Staged(Now, shown.epoch, d, 0) BY <2>2, <2>3, <2>6, <2>7 DEF Staged, Now
  <2>9. Drawn(Now, shown, text, immediate, d) BY <2>2 DEF Drawn, ToShow, Now
  <2>10. InUse(Now, 0, 0, d) = {} BY <2>1 DEF InUse, InQueue, Now
  <2>11. Standing(nextEpoch, segments, {}, shown, ranges, text, d)
    BY <1>1, <2>4 DEF Standing
  <2>12. SettledIn(Now, shown, ranges, text, immediate, d)
    BY <2>2, <2>3, <2>8, <2>9, <2>10, <2>11 DEF SettledIn, Now
  <2>13. BusyOK(d) BY DEF BusyOK, Idle, NotBusy, Busy
  <2> QED BY <2>5, <2>12, <2>13 DEF Settling
<1>4. CASE ~calls.prompt
  BY <1>4 DEF Alone
<1> QED BY <1>2, <1>3, <1>4

\* The states in which a key finds the composition.
KeyFinds(D) ==
  LET n == WithoutList(Now)
      open == Open(n, D)
  IN  /\ Fine(Now, TRUE) /\ Staged(Now, shown.epoch, D, 0)
      /\ Fine(n, TRUE) /\ Onward(Now, n, shown.epoch, D, 0)
      /\ n.composition.epoch = composition.epoch /\ n.composition.buffer = composition.buffer
      /\ Fine(open, TRUE) /\ open.composition.epoch # 0
      /\ Staged(open, shown.epoch, D, 0) /\ Moved(n, open, D)
      /\ shown.epoch \in Nat

LEMMA KeyFound ==
  ASSUME TInv, NEW D \in Docs, Settling(D)
  PROVE  KeyFinds(D)
<1> DEFINE n == WithoutList(Now)
           open == Open(n, D)
           f == shown.epoch
<1>1. f \in Nat /\ Staged(Now, f, D, 0) /\ f \in 0..(nextEpoch - 1) /\ nextEpoch \in Nat
  BY EditStart
<1>2. /\ Fine(Now, TRUE) /\ Now.composition = composition
      /\ Fine(n, TRUE) /\ n.composition.epoch = composition.epoch
      /\ n.composition.buffer = composition.buffer
      /\ Fine(open, TRUE) /\ open.composition.epoch # 0
  BY FineUnlisted
<1>3. Onward(Now, n, f, D, 0)
  <2> HIDE DEF f
  <2> QED BY <1>1, <1>2, StagedList
<1>4. n.nextEpoch = nextEpoch BY DEF WithoutList, Now
<1>5. Staged(n, f, D, 0) BY <1>3 DEF Onward
<1>6. f < n.nextEpoch BY <1>1, <1>4
<1> HIDE DEF n, f
<1>7. Staged(open, f, D, 0) /\ Moved(n, open, D) BY <1>1, <1>2, <1>5, <1>6, StagedOpen
<1> QED BY <1>1, <1>2, <1>3, <1>7 DEF KeyFinds, n, f

\* What a key does to the buffer of the composition, opened for it or not.
LEMMA OpenedEdited ==
  ASSUME NEW st, NEW waits \in BOOLEAN, Fine(st, waits), NEW f \in Nat, NEW D \in Docs,
         NEW n, Fine(n, waits), Onward(st, n, f, D, 0),
         NEW open, Fine(open, waits), open.composition.epoch # 0,
         Staged(open, f, D, 0), Moved(n, open, D),
         NEW b, Edited(open.composition.buffer, b)
  PROVE  LET t == Update(WithBuffer(open, b))
         IN  Onward(st, t, f, D, 0) /\ t.nextEpoch \in Nat
<1> DEFINE t == Update(WithBuffer(open, b))
<1>1. Onward(open, t, f, D, 0) /\ ToShow(t, D) /\ t.nextEpoch = open.nextEpoch
  BY StagedEdited
<1>2. st.nextEpoch \in Nat /\ n.nextEpoch \in Nat /\ open.nextEpoch \in Nat BY FineMore
<1> HIDE DEF t
<1>3. Onward(n, t, f, D, 0) BY <1>1, <1>2, MovedThen DEF Epochs
<1>4. Onward(st, t, f, D, 0) BY <1>1, <1>2, <1>3, OnwardThen DEF Epochs
<1> QED BY <1>1, <1>2, <1>4 DEF t

LEMMA MoreEdited ==
  ASSUME NEW st, NEW waits \in BOOLEAN, Fine(st, waits), NEW f \in Nat, NEW D \in Docs,
         NEW n, Fine(n, waits), Onward(st, n, f, D, 0), n.composition.epoch # 0,
         NEW b, Edited(n.composition.buffer, b)
  PROVE  LET t == Update(WithBuffer(n, b))
         IN  Onward(st, t, f, D, 0) /\ t.nextEpoch \in Nat
<1> DEFINE t == Update(WithBuffer(n, b))
<1>1. Staged(n, f, D, 0) BY DEF Onward
<1>2. Onward(n, t, f, D, 0) /\ t.nextEpoch = n.nextEpoch BY <1>1, StagedEdited
<1>3. st.nextEpoch \in Nat /\ n.nextEpoch \in Nat BY FineMore
<1> HIDE DEF t
<1>4. Onward(st, t, f, D, 0) BY <1>2, <1>3, OnwardThen DEF Epochs
<1> QED BY <1>2, <1>3, <1>4 DEF t

\* An edit more, that ends nothing.
LEMMA StagedRun ==
  ASSUME NEW st, NEW waits \in BOOLEAN, Fine(st, waits), NEW f \in Nat, NEW D \in Docs,
         Staged(st, f, D, 0), NEW edit \in QueuedEdits(st.nextEpoch), ~Ends(edit),
         edit.epoch \in {0, st.composition.epoch}, Types(edit) => st.composition.epoch = 0
  PROVE  LET t == Run(st, D, edit)
         IN  Onward(st, t, f, D, 0) /\ t.nextEpoch = st.nextEpoch
<1> DEFINE t == Run(st, D, edit)
           o == st.composition.epoch
<1>1. Scene(st, o, f, D, 0) /\ Opened(st, D, 0) BY DEF Staged
<1>2. o \in Nat BY FineMore
<1>3. t.composition = st.composition /\ t.nextEpoch = st.nextEpoch
  BY DEF Run, Fine, Good, IsState
<1>4. t.composition.epoch = o BY <1>3
<1>5. edit.epoch \in {0, o} /\ (Types(edit) => o = 0) OBVIOUS
<1> HIDE DEF o
<1>6. Scene(t, o, f, D, 0) /\ Carries(st, o, t, o, D) /\ SameDrawing(st, t, D) /\ Opened(t, D, 0)
  BY <1>1, <1>2, <1>5, SceneRun
<1> HIDE DEF t
<1>7. Onward(st, t, f, D, 0) BY <1>4, <1>6 DEF Onward, Staged, Moved, o
<1> QED BY <1>3, <1>7 DEF t

\* Once the composition is left or let go, none is open.
LEMMA StagedLeft ==
  ASSUME NEW st, NEW waits \in BOOLEAN, Fine(st, waits), NEW f \in Nat, NEW D \in Docs,
         Staged(st, f, D, 0)
  PROVE  LET t == Seal(st)
         IN  Onward(st, t, f, D, 0) /\ t.nextEpoch = st.nextEpoch /\ t.composition.epoch = 0
BY StagedSeal, StagedStill DEF Seal

LEMMA TypingSettles ==
  ASSUME TInv, NEW D \in Docs, Settling(D), Typing(D), UNCHANGED <<shown, ranges, text, immediate>>
  PROVE  Settling(D)'
<1> DEFINE n == WithoutList(Now)
           open == Open(n, D)
           without == DiscardReading(n)
           again == Open(without, D)
           f == shown.epoch
<1>0. /\ Fine(Now, TRUE) /\ Staged(Now, f, D, 0)
      /\ Fine(n, TRUE) /\ Onward(Now, n, f, D, 0)
      /\ n.composition.epoch = composition.epoch /\ n.composition.buffer = composition.buffer
      /\ Fine(open, TRUE) /\ open.composition.epoch # 0
      /\ Staged(open, f, D, 0) /\ Moved(n, open, D)
      /\ f \in Nat /\ Now.composition = composition
      /\ f < n.nextEpoch
  <2>1. KeyFinds(D) BY KeyFound
  <2>2. f \in 0..(nextEpoch - 1) /\ nextEpoch \in Nat BY EditStart
  <2>3. n.nextEpoch = nextEpoch BY DEF WithoutList, Now
  <2>4. f < n.nextEpoch BY <2>2, <2>3
  <2>5. Now.composition = composition BY DEF Now
  <2> HIDE DEF n
  <2> QED BY <2>1, <2>4, <2>5 DEF KeyFinds, n
<1>00. Owns(D) => composition.epoch # 0 BY DEF Owns, Active
<1>000. BufferOK(composition.buffer) BY <1>0, FineParts
<1>N. Now.nextEpoch \in Nat /\ n.nextEpoch \in Nat BY <1>0, FineMore
<1>A. ASSUME NEW st, Handled(D, st), Onward(Now, st, f, D, 0), st.nextEpoch \in Nat
      PROVE  Settling(D)'
  BY <1>A, KeyGoesOn
<1>B. ASSUME NEW b, Edited(open.composition.buffer, b),
             Handled(D, Update(WithBuffer(open, b)))
      PROVE  Settling(D)'
  <2> DEFINE t == Update(WithBuffer(open, b))
  <2>1. Onward(Now, t, f, D, 0) /\ t.nextEpoch \in Nat
    <3> HIDE DEF n, open, f
    <3> QED BY <1>0, <1>B, OpenedEdited
  <2> QED BY <1>A, <1>B, <2>1
<1>C. ASSUME composition.epoch # 0
      PROVE  /\ Fine(without, TRUE) /\ Onward(Now, without, f, D, 0) /\ without.nextEpoch = n.nextEpoch
  <2> HIDE DEF n, f
  <2>1. Staged(n, f, D, 0) BY <1>0 DEF Onward
  <2>2. Fine(without, TRUE) BY <1>0, <1>C, FineDiscardReading
  <2>3. Onward(n, without, f, D, 0) /\ without.nextEpoch = n.nextEpoch
    BY <1>0, <1>C, <2>1, StagedDiscardReading
  <2> HIDE DEF without
  <2>4. Onward(Now, without, f, D, 0) BY <1>0, <1>N, <2>3, OnwardThen DEF Epochs
  <2> QED BY <2>2, <2>3, <2>4
<1>1. ASSUME NEW key \in Keys, TypeReading(D, key) PROVE Settling(D)'
  <2>1. Handled(D, Update(WithBuffer(open, Add(open.composition.buffer, key))))
    BY <1>1 DEF TypeReading, Composed
  <2>2. Edited(open.composition.buffer, Add(open.composition.buffer, key))
    <3> HIDE DEF n, open
    <3> QED BY <1>0, FineParts, AddEdited
  <2> QED BY <1>B, <2>1, <2>2
<1>2. CASE TypeText(D)
  <2>1. Handled(D, Update(WithBuffer(open, AddChosenCandidate(open.composition.buffer))))
    BY <1>2 DEF TypeText, Composed
  <2>2. Edited(open.composition.buffer, AddChosenCandidate(open.composition.buffer))
    <3> HIDE DEF n, open
    <3> QED BY <1>0, FineParts, AddChosenEdited
  <2> QED BY <1>B, <2>1, <2>2
<1>3. CASE ComposeEnglish(D)
  <2> DEFINE b == AddChosenCandidate(again.composition.buffer)
             t == Update(WithBuffer(again, b))
  <2>1. Handled(D, t) /\ composition.epoch # 0
    BY <1>00, <1>3 DEF ComposeEnglish, Composed
  <2>2. Fine(without, TRUE) /\ Onward(Now, without, f, D, 0) /\ without.nextEpoch = n.nextEpoch
    BY <1>C, <2>1
  <2>3. Onward(Now, t, f, D, 0) /\ t.nextEpoch \in Nat
    <3> HIDE DEF n, without, f
    <3>1. Fine(again, TRUE) /\ again.composition.epoch # 0 BY <2>2, FineOpen
    <3>2. Staged(without, f, D, 0) /\ f < without.nextEpoch BY <1>0, <2>2 DEF Onward
    <3>3. Staged(again, f, D, 0) /\ Moved(without, again, D)
      BY <1>0, <2>2, <3>2, StagedOpen
    <3> HIDE DEF again
    <3>4. Edited(again.composition.buffer, b) BY <3>1, FineParts, AddChosenEdited
    <3> HIDE DEF b
    <3> QED BY <1>0, <2>2, <3>1, <3>3, <3>4, OpenedEdited
  <2> QED BY <1>A, <2>1, <2>3
<1>4. CASE Shift(D)
  <2>1. Become(without) /\ composition.epoch # 0 /\ busy' = busy /\ Idle
    BY <1>00, <1>4 DEF Shift, Key, Call
  <2>2. Onward(Now, without, f, D, 0) /\ without.nextEpoch \in Nat BY <1>C, <1>N, <2>1
  <2>3. Reaches(without) BY <2>1 DEF Become, Reaches
  <2>4. busy'.call = "none" BY <2>1 DEF Idle, NotBusy, Busy
  <2> HIDE DEF n, without
  <2>5. SettledIn(Now, shown, ranges, text, immediate, D)' BY <2>2, <2>3, SettlesOn
  <2>6. BusyOK(D)' BY <2>4, NoCall
  <2> QED BY <2>5, <2>6 DEF Settling
<1>5. CASE Backspace(D)
  <2> DEFINE b == RemoveLast(composition.buffer)
             t == Update(WithBuffer(n, b))
  <2>1. Handled(D, t) /\ OnEntry(composition.buffer) /\ composition.epoch # 0
    BY <1>00, <1>5 DEF Backspace
  <2>2. Edited(composition.buffer, b) BY <1>000, <2>1, RemoveLastEdited
  <2>3. Onward(Now, t, f, D, 0) /\ t.nextEpoch \in Nat
    <3> HIDE DEF n, f, b
    <3> QED BY <1>0, <2>1, <2>2, MoreEdited
  <2> QED BY <1>A, <2>1, <2>3
<1>6. ASSUME NEW forward \in BOOLEAN, NEW toEdge \in BOOLEAN, MoveCaret(D, forward, toEdge)
      PROVE  Settling(D)'
  <2> DEFINE b == Move(composition.buffer, forward, toEdge)
             moved == WithBuffer(Now, b)
             t == ShowAgain(moved)
  <2>1. Handled(D, t) BY <1>6 DEF MoveCaret
  <2>2. composition.epoch # 0 /\ CanMove(composition.buffer, forward)
    BY <1>00, <1>6 DEF MoveCaret
  <2>3. Edited(composition.buffer, b) BY <1>000, <2>2, MoveEdited
  <2> HIDE DEF b
  <2>4. Fine(moved, TRUE) BY <1>0, <2>2, <2>3, FineBuffer
  <2>5. /\ Staged(moved, f, D, 0) /\ Moved(Now, moved, D)
        /\ moved.composition.epoch = Now.composition.epoch /\ moved.nextEpoch = Now.nextEpoch
    <3> HIDE DEF f
    <3> QED BY <1>0, StagedBuffer
  <2>6. moved.composition.epoch # 0 BY <1>0, <2>2, <2>5
  <2>7. Onward(Now, t, f, D, 0) /\ t.nextEpoch \in Nat
    <3> HIDE DEF moved, f
    <3>1. Onward(moved, t, f, D, 0) /\ ToShow(t, D) /\ t.nextEpoch = moved.nextEpoch
      BY <1>0, <2>4, <2>5, <2>6, StagedShow
    <3> HIDE DEF t
    <3> QED BY <1>N, <2>5, <3>1, MovedThen DEF Epochs
  <2> QED BY <1>A, <2>1, <2>7
<1>7. CASE Enter(D)
  <2>0. Now.composition.epoch # 0 BY <1>0, <1>00, <1>7 DEF Enter
  <2>1. CASE Handled(D, Commit(Now))
    <3> DEFINE t == Commit(Now)
    <3>1. Onward(Now, t, f, D, 0) /\ t.nextEpoch \in Nat
      <4> HIDE DEF f
      <4> QED BY <1>0, <1>N, <2>0, StagedCommit
    <3> QED BY <1>A, <2>1, <3>1
  <2>2. CASE Handled(D, Seal(Request(Now)))
    <3> DEFINE r == Request(Now)
               t == Seal(r)
    <3>1. Fine(r, TRUE) BY <1>0, FineRequest
    <3>2. Onward(Now, r, f, D, 0) /\ r.nextEpoch = Now.nextEpoch
      <4> HIDE DEF f
      <4> QED BY <1>0, StagedRequest
    <3>3. Onward(Now, t, f, D, 0) /\ t.nextEpoch \in Nat
      <4> HIDE DEF r, f
      <4>1. Staged(r, f, D, 0) BY <3>2 DEF Onward
      <4>2. Onward(r, t, f, D, 0) /\ t.nextEpoch = r.nextEpoch BY <1>0, <3>1, <4>1, StagedLeft
      <4> HIDE DEF t
      <4> QED BY <1>N, <3>2, <4>2, OnwardThen DEF Epochs
    <3> QED BY <1>A, <2>2, <3>3
  <2> QED BY <1>7, <2>1, <2>2 DEF Enter
<1>8. CASE Escape(D)
  <2> DEFINE t == Discard(Now)
  <2>1. Now.composition.epoch # 0 /\ Handled(D, t) BY <1>0, <1>00, <1>8 DEF Escape
  <2>2. Onward(Now, t, f, D, 0) /\ t.nextEpoch \in Nat
    <3> HIDE DEF f
    <3> QED BY <1>0, <1>N, <2>1, StagedDiscard
  <2> QED BY <1>A, <2>1, <2>2
<1>9. ASSUME ~Owns(D) PROVE composition.epoch = 0
  BY <1>0, <1>9 DEF Staged, Opened, Owns, Active, Now
<1>10. ASSUME NEW chars, NEW edit, edit \in {EraseEdit, InsertEdit}, ~Owns(D),
              Handled(D, Run([Now EXCEPT !.owed[D] = chars], D, edit))
       PROVE  Settling(D)'
  <2> DEFINE st == Run([Now EXCEPT !.owed[D] = chars], D, edit)
             u == Run(Now, D, edit)
  <2>1. /\ st.composition = u.composition /\ st.nextEpoch = u.nextEpoch /\ st.tracker = u.tracker
        /\ st.segments = u.segments /\ st.queue = u.queue
    BY DEF Run, Now
  <2>2. edit \in QueuedEdits(Now.nextEpoch)
    BY <1>0, FineParts, <1>10, OtherEdits
  <2>3. ~Ends(edit) /\ edit.epoch = 0 BY <1>10 DEF Ends, EraseEdit, InsertEdit
  <2>4. Now.composition.epoch = 0 BY <1>0, <1>9, <1>10
  <2>5. Onward(Now, u, f, D, 0) /\ u.nextEpoch = Now.nextEpoch
    <3> HIDE DEF f
    <3>1. edit.epoch \in {0, Now.composition.epoch} BY <2>3
    <3> QED BY <1>0, <2>2, <2>3, <2>4, <3>1, StagedRun
  <2> HIDE DEF st, u
  <2>6. Become(st) /\ busy'.call \in {"afterKey", "none"} BY <1>10 DEF Handled, Busy, NotBusy, st
  <2>7. Reaches(u) BY <2>1, <2>6 DEF Become, Reaches
  <2>8. SettledIn(Now, shown, ranges, text, immediate, D)' BY <1>N, <2>5, <2>7, SettlesOn
  <2>9. BusyOK(D)' BY <2>6, NoCall
  <2> QED BY <2>8, <2>9 DEF Settling
<1>11. CASE BackspaceInOrder(D)
  BY <1>11, <1>10 DEF BackspaceInOrder, Now
<1>12. CASE InsertText(D)
  BY <1>12, <1>10 DEF InsertText, Now
<1> QED
  BY <1>1, <1>2, <1>3, <1>4, <1>5, <1>6, <1>7, <1>8, <1>11, <1>12 DEF Typing

LEMMA ChoosingSettles ==
  ASSUME TInv, NEW D \in Docs, Settling(D), Choosing(D),
         UNCHANGED <<shown, ranges, text, immediate>>
  PROVE  Settling(D)'
<1> DEFINE n == WithoutList(Now)
           f == shown.epoch
<1>0. /\ Fine(Now, TRUE) /\ Staged(Now, f, D, 0)
      /\ Fine(n, TRUE) /\ Onward(Now, n, f, D, 0)
      /\ n.composition.epoch = composition.epoch /\ n.composition.buffer = composition.buffer
      /\ f \in Nat /\ Now.composition = composition
  <2>1. KeyFinds(D) BY KeyFound
  <2>2. Now.composition = composition BY DEF Now
  <2> HIDE DEF n
  <2> QED BY <2>1, <2>2 DEF KeyFinds, n
<1>00. Owns(D) => composition.epoch # 0 BY DEF Owns, Active
<1>000. BufferOK(composition.buffer) BY <1>0, FineParts
<1>N. Now.nextEpoch \in Nat /\ n.nextEpoch \in Nat /\ 0 \notin DOMAIN Now.segments BY <1>0, FineMore
<1>A. ASSUME NEW st, Handled(D, st), Onward(Now, st, f, D, 0), st.nextEpoch \in Nat
      PROVE  Settling(D)'
  BY <1>A, KeyGoesOn
<1>1. CASE OpenCandidates(D)
  <2> DEFINE id == CandidateTarget(composition.buffer).id
             st == [Now EXCEPT !.composition.list = TRUE, !.composition.lock = id]
  <2>1. Handled(D, st) BY <1>1 DEF OpenCandidates
  <2> HIDE DEF id
  <2>2. CompositionTyped(composition) BY <1>0, FineParts
  <2>3. /\ st.composition.epoch = composition.epoch /\ st.composition.doc = composition.doc
        /\ st.composition.preceding = composition.preceding
        /\ st.composition.buffer = composition.buffer
        /\ st.tracker = Now.tracker /\ st.nextEpoch = Now.nextEpoch
        /\ st.segments = Now.segments /\ st.queue = Now.queue
    BY <2>2 DEF Now, CompositionTyped, CompositionType
  <2>4. Requesting(Now, st, D) BY <2>3 DEF Requesting
  <2> HIDE DEF st
  <2>5. Onward(Now, st, f, D, 0)
    <3> HIDE DEF f
    <3> QED BY <1>0, <1>N, <2>3, <2>4, StagedSame
  <2> QED BY <1>A, <1>N, <2>1, <2>3, <2>5
<1>2. ASSUME NEW b, Edited(composition.buffer, b), Handled(D, Finalized(b)), composition.epoch # 0
      PROVE  Settling(D)'
  <2> DEFINE t == Update(WithBuffer(n, StepForward(b)))
  <2>1. BufferOK(b) BY <1>2 DEF Edited
  <2>2. Edited(b, StepForward(b)) BY <2>1, StepForwardEdited
  <2>3. Edited(composition.buffer, StepForward(b)) BY <1>2, <1>000, <2>2, EditedThen
  <2>4. Handled(D, t) BY <1>2 DEF Finalized
  <2>5. Onward(Now, t, f, D, 0) /\ t.nextEpoch \in Nat
    <3> HIDE DEF n, f
    <3> QED BY <1>0, <1>2, <2>3, MoreEdited
  <2> QED BY <1>A, <2>4, <2>5
<1>3. CASE Choose(D)
  <2>1. PICK literal \in BOOLEAN :
          Handled(D, Finalized(SelectCandidate(composition.buffer, composition.lock, literal)))
    BY <1>3 DEF Choose
  <2>2. composition.epoch # 0 BY <1>00, <1>3 DEF Choose
  <2>3. Edited(composition.buffer, SelectCandidate(composition.buffer, composition.lock, literal))
    BY <1>000, SelectEdited
  <2> QED BY <1>2, <2>1, <2>2, <2>3
<1>4. CASE ChooseReading(D)
  <2>1. PICK withTone \in BOOLEAN :
          Handled(D, Finalized(SelectReading(composition.buffer, composition.lock, withTone)))
    BY <1>4 DEF ChooseReading
  <2>2. composition.epoch # 0 /\ CanSelectReading(composition.buffer, composition.lock)
    BY <1>00, <1>4 DEF ChooseReading
  <2>3. Edited(composition.buffer, SelectReading(composition.buffer, composition.lock, withTone))
    BY <1>000, <2>2, SelectReadingEdited
  <2> QED BY <1>2, <2>1, <2>2, <2>3
<1>5. CASE CloseCandidates(D)
  BY <1>5, <1>0, <1>A, <1>N DEF CloseCandidates
<1> QED BY <1>1, <1>3, <1>4, <1>5 DEF Choosing

LEMMA AfterKeySettles ==
  ASSUME TInv, TInv', NEW D \in Docs, Settling(D), AfterKey
  PROVE  Settling(D)'
<1> DEFINE c  == composition
           f  == shown.epoch
           h  == CHOOSE h \in c.held : TRUE
           b  == IF c.held = {} THEN c.buffer ELSE MergeHeld(c.buffer, h)
           after == [c EXCEPT !.lock = 0, !.held = {}, !.buffer = b]
           st == [Now EXCEPT !.composition = after]
           edit == ShowEdit(after)
           u == Run(Now, D, edit)
           last == ShowAgain(st)
<1>1. /\ IF b = c.buffer THEN Become(st) ELSE Become(last)
      /\ UNCHANGED <<shown, ranges, text, immediate>> /\ busy' = NotBusy
  BY DEF AfterKey, screen, others
<1>2. /\ f \in Nat /\ Staged(Now, f, D, 0) BY EditStart
<1>3. Fine(Now, TRUE) /\ Now.composition = c BY FineNow DEF Now
<1>4. CompositionTyped(c) BY <1>3, FineParts
<1>5. Now.nextEpoch \in Nat /\ 0 \notin DOMAIN Now.segments BY <1>3, FineMore
<1>6. CompositionFit(c, tracker.asked) BY NowSound DEF TInv, Sound
<1> HIDE DEF b, h
<1>7. /\ after.epoch = c.epoch /\ after.doc = c.doc /\ after.buffer = b
      /\ after.preceding = c.preceding
  BY <1>4 DEF CompositionTyped, CompositionType
<1> HIDE DEF after
<1>8. /\ st.composition = after /\ st.tracker = Now.tracker /\ st.nextEpoch = Now.nextEpoch
      /\ st.segments = Now.segments /\ st.queue = Now.queue
  BY DEF Now
<1>9. BusyOK(D)' BY <1>1, NoCall DEF NotBusy, Busy
<1>10. ASSUME NEW t, Become(t), Onward(Now, t, f, D, 0), t.nextEpoch \in Nat
       PROVE  Settling(D)'
  BY <1>10, <1>1, SettlesOn, <1>9 DEF Become, Reaches, Settling
<1>11. CASE b = c.buffer
  <2>1. Become(st) BY <1>1, <1>11
  <2>2. Requesting(Now, st, D) BY <1>8 DEF Requesting
  <2> HIDE DEF st
  <2>3. Onward(Now, st, f, D, 0)
    <3> HIDE DEF f
    <3> QED BY <1>2, <1>3, <1>5, <1>7, <1>8, <1>11, <2>2, StagedSame
  <2> QED BY <1>5, <1>8, <1>10, <2>1, <2>3
<1>12. CASE b # c.buffer
  <2>1. c.held # {} BY <1>12 DEF b
  <2>2. c.epoch # 0 BY <1>6, <2>1 DEF CompositionFit
  <2>3. c.doc = D BY <1>2, <1>3, <2>2 DEF Staged, Opened
  <2>4. /\ last.composition = after /\ last.tracker = Now.tracker /\ last.nextEpoch = Now.nextEpoch
        /\ last.segments = Now.segments /\ last.queue = u.queue
    BY <1>7, <2>3 DEF ShowAgain, Run, Now
  <2>5. Become(last) BY <1>1, <1>12
  <2>6. edit \in QueuedEdits(Now.nextEpoch)
    <3>1. Fine(Now', TRUE) BY FineAfter
    <3>2. Now'.composition = after BY <2>4, <2>5 DEF Become, Now
    <3>3. after.buffer.entries \in Seq(Entry) BY <3>1, <3>2, FineParts
    <3>4. Now.composition.epoch \in 1..(Now.nextEpoch - 1) BY <1>3, <2>2, FineMore
    <3>5. after.epoch \in 1..(Now.nextEpoch - 1) BY <1>3, <1>7, <3>4
    <3> HIDE DEF st
    <3> QED BY <1>5, <3>3, <3>5, ShowTyped
  <2>7. edit.epoch = c.epoch /\ edit.do = "show" BY <1>7 DEF ShowEdit
  <2>8. ~Ends(edit) /\ ~Types(edit) BY <2>7 DEF Ends, Types
  <2>9. u.composition = c /\ u.tracker = Now.tracker /\ u.segments = Now.segments
    BY DEF Run, Now
  <2> HIDE DEF edit, last
  <2>10. Onward(Now, u, f, D, 0) /\ u.nextEpoch = Now.nextEpoch
    <3> HIDE DEF f
    <3>1. edit.epoch \in {0, Now.composition.epoch} BY <1>3, <2>7
    <3> QED BY <1>2, <1>3, <2>6, <2>8, <3>1, StagedRun
  <2>11. Has(u.queue[D], edit)
    BY <1>3, <2>6, RunFacts DEF RunMakes
  <2> HIDE DEF u
  <2>12. ToShow(last, D) BY <1>7, <2>4, <2>7, <2>11 DEF ToShow, ShowQueued, Has
  <2>13. Staged(last, f, D, 0) /\ Moved(u, last, D)
    <3>1. Requesting(u, last, D) BY <2>4, <2>9 DEF Requesting
    <3>2. Staged(u, f, D, 0) BY <2>10 DEF Onward
    <3> HIDE DEF f
    <3> QED BY <1>5, <1>7, <2>4, <2>9, <2>10, <3>1, <3>2, StagedSame
  <2>14. Onward(u, last, f, D, 0) BY <2>12, <2>13 DEF Onward
  <2>15. Onward(Now, last, f, D, 0)
    <3> HIDE DEF f
    <3> QED BY <1>5, <2>4, <2>10, <2>14, OnwardThen DEF Epochs
  <2> QED BY <1>5, <1>10, <2>4, <2>5, <2>15
<1> QED BY <1>11, <1>12

-----------------------------------------------------------------------------
(***************************************************************************)
(* The other calls, and what the service answers                           *)
(***************************************************************************)
LEMMA LeaveSettles ==
  ASSUME TInv, NEW D \in Docs, Settling(D), NEW d \in Docs, LeaveOtherDocument(d)
  PROVE  Settling(D)'
<1> DEFINE n == WithoutList(Now)
           t == Seal(n)
           f == shown.epoch
<1>1. /\ Become(t) /\ UNCHANGED <<shown, ranges, text, immediate, busy>> /\ Idle
  BY DEF LeaveOtherDocument, Call, screen
<1>2. Fine(Now, TRUE) /\ Fine(n, TRUE) /\ Onward(Now, n, f, D, 0) /\ f \in Nat
  BY KeyFound DEF KeyFinds
<1>3. Now.nextEpoch \in Nat /\ n.nextEpoch \in Nat BY <1>2, FineMore
<1>4. Onward(Now, t, f, D, 0) /\ t.nextEpoch \in Nat
  <2> HIDE DEF n, f
  <2>1. Staged(n, f, D, 0) BY <1>2 DEF Onward
  <2>2. Onward(n, t, f, D, 0) /\ t.nextEpoch = n.nextEpoch BY <1>2, <2>1, StagedLeft
  <2> HIDE DEF t
  <2> QED BY <1>2, <1>3, <2>2, OnwardThen DEF Epochs
<1> HIDE DEF t
<1>5. Reaches(t) BY <1>1 DEF Become, Reaches
<1>6. SettledIn(Now, shown, ranges, text, immediate, D)' BY <1>1, <1>4, <1>5, SettlesOn
<1>7. BusyOK(D)' BY <1>1, NoCall DEF Idle, NotBusy, Busy
<1> QED BY <1>6, <1>7 DEF Settling

\* The controller stays as it is.
LEMMA StillSettled ==
  ASSUME TInv, NEW D \in Docs, Settling(D), UNCHANGED controller, immediate' = immediate,
         SettledIn(Now, shown', ranges', text', immediate, D)
  PROVE  SettledIn(Now, shown, ranges, text, immediate, D)'
<1> DEFINE a == shown'
           b == ranges'
           c == text'
           t == Now'
<1>1. t = Now BY DEF Now, controller
<1>2. SettledIn(Now, a, b, c, immediate, D) OBVIOUS
<1> HIDE DEF a, b, c, t
<1>3. SettledIn(t, a, b, c, immediate, D) BY <1>1, <1>2
<1> QED BY <1>3 DEF a, b, c, t

LEMMA UserEditsSettles ==
  ASSUME TInv, NEW D \in Docs, Settling(D), NEW d \in Docs, NEW e \in ranges, UserEdits(d, e)
  PROVE  Settling(D)'
<1> DEFINE chars == <<Typed>> \o Tail(CharsOf(text[d], e))
           U == InUse(Now, composition.epoch, shown.epoch, D)
           tx == text'
<1>1. /\ CharsOf(text[d], e) # <<>> /\ UNCHANGED controller /\ UNCHANGED <<shown, ranges, immediate, busy>>
      /\ Idle
  BY DEF UserEdits, Call
<1>2. /\ Standing(nextEpoch, segments, U, shown, ranges, text, D)
      /\ \A r \in ranges : segments[r].doc \in Docs
      /\ text \in [Docs -> Seq(PieceType)]
      /\ DOMAIN segments \subseteq 1..(nextEpoch - 1)
  BY EditStart
<1>3. tx = [text EXCEPT ![d] = Rewritten(@, e, chars)] BY <1>2 DEF UserEdits
<1>4. e \in Nat /\ e \notin U /\ e # 0 BY <1>2 DEF Standing
<1>5. chars \in Seq(Character)
  <2> DEFINE w == CharsOf(text[d], e)
             p == text[d]
  <2>1. p \in Seq(PieceType) BY <1>2
  <2>2. PiecesOf(p, e) # {} => CharsOf(p, e) \in Seq(Character)
    <3> HIDE DEF p
    <3> QED BY <2>1, PieceFound
  <2>3. PiecesOf(p, e) = {} => CharsOf(p, e) = <<>> BY DEF CharsOf
  <2>4. w \in Seq(Character) /\ w # <<>> BY <1>1, <2>2, <2>3
  <2> HIDE DEF w
  <2>5. Tail(w) \in Seq(Character) BY <2>4
  <2>6. <<Typed>> \in Seq(Character) BY TypedCharacter
  <2> QED BY <2>5, <2>6 DEF w
<1>6. Overwritten(text, tx, d, e, chars) BY <1>3 DEF Overwritten
<1> HIDE DEF U, tx, chars
<1>7. /\ Standing(nextEpoch, segments, U, shown, ranges, tx, D)
      /\ shown.epoch # 0 => CharsOf(tx[D], shown.epoch) =
                              IF d = D /\ e = shown.epoch THEN chars ELSE CharsOf(text[D], shown.epoch)
  BY <1>2, <1>4, <1>5, <1>6, WrittenOver
<1>8. e # shown.epoch
  BY <1>2, <1>4 DEF Standing, NotShown
<1>9. Drawn(Now, shown, tx, immediate, D)
  <2>1. Drawn(Now, shown, text, immediate, D) BY EditStart
  <2>2. CASE ToShow(Now, D) BY <2>2 DEF Drawn
  <2>3. CASE ~ToShow(Now, D)
    <3> DEFINE o == Now.composition.epoch
    <3>1. /\ shown = [epoch |-> o, doc |-> D]
          /\ CharsOf(text[D], o) = Shown(Now.composition.buffer, immediate)
      BY <2>1, <2>3 DEF Drawn
    <3>2. o # 0 BY <2>3 DEF ToShow
    <3> HIDE DEF o
    <3>3. shown.epoch = o BY <3>1
    <3>4. CharsOf(tx[D], o) = CharsOf(text[D], o) BY <1>7, <1>8, <3>2, <3>3
    <3> QED BY <3>1, <3>4 DEF Drawn, o
  <2> QED BY <2>2, <2>3
<1>10. SettledIn(Now, shown, ranges, tx, immediate, D)
  BY EditStart, <1>7, <1>9 DEF Now, U, SettledIn
<1>11. SettledIn(Now, shown', ranges', text', immediate, D) BY <1>1, <1>10 DEF tx
<1>12. SettledIn(Now, shown, ranges, text, immediate, D)' BY <1>1, <1>11, StillSettled
<1>13. BusyOK(D)' BY <1>1, NoCall DEF Idle, NotBusy, Busy
<1> QED BY <1>12, <1>13 DEF Settling

\* A document that goes away leaves nothing of it behind.
LEMMA CloseSettles ==
  ASSUME TInv, NEW D \in Docs, Settling(D), calls.prompt, NEW d \in Docs, CloseDocument(d)
  PROVE  Settling(D)'
<1> DEFINE n == IF Owns(d) THEN WithoutComposition(Now) ELSE Now
           t == [n EXCEPT !.segments = Restrict(@, DOMAIN segments \ SegmentsOf(d)),
                          !.queue[d] = <<>>, !.owed[d] = <<>>]
           f == shown.epoch
           o == composition.epoch
           U == InUse(Now, o, f, D)
           sh == IF Owns(d) THEN NotShown ELSE shown
           rg == {r \in ranges : PiecesOf(text[d], r) = {}}
           tx == [text EXCEPT ![d] = <<>>]
           r == t.composition.epoch
           S == DOMAIN segments \ SegmentsOf(d)
<1>1. /\ Become(t) /\ shown' = sh /\ ranges' = rg /\ text' = tx
      /\ UNCHANGED <<immediate, busy>> /\ Idle /\ Granted
  BY DEF CloseDocument, Call
<1>2. /\ Scene(Now, o, f, D, 0) /\ Opened(Now, D, 0) /\ f \in Nat
      /\ f = 0 => shown = NotShown
      /\ Drawn(Now, shown, text, immediate, D)
      /\ Standing(nextEpoch, segments, U, shown, ranges, text, D)
      /\ \A e \in DOMAIN segments : segments[e].doc \in Docs
      /\ text \in [Docs -> Seq(PieceType)]
      /\ DOMAIN segments \subseteq 1..(nextEpoch - 1)
  BY EditStart
<1>3. \A c \in Docs : queue[c] = <<>> BY <1>1 DEF Granted
<1>4. o = 0 => f = 0
  BY <1>2, <1>3, FlowNothing DEF Scene, Now
<1>5. /\ n.segments = segments /\ n.queue = queue /\ n.tracker = tracker /\ n.nextEpoch = nextEpoch
      /\ n.composition = IF Owns(d) THEN NoComposition ELSE composition
      /\ Fine(n, TRUE)
  BY FineNow, FineNone DEF WithoutComposition, Now
<1> HIDE DEF n
<1>6. /\ t.composition = n.composition /\ t.nextEpoch = nextEpoch /\ t.tracker = tracker
      /\ t.segments = Restrict(segments, S) /\ t.queue = [queue EXCEPT ![d] = <<>>]
  BY <1>5 DEF Fine, Good, IsState
<1> HIDE DEF t
<1>7. DOMAIN t.segments = S /\ \A k \in S : t.segments[k] = segments[k] BY <1>6 DEF Restrict
<1>8. queue \in [Docs -> Seq(QueuedEdits(nextEpoch))] BY DEF TInv, Typed1, Now
<1>9. \A c \in Docs : t.queue[c] = <<>> BY <1>3, <1>6, <1>8
<1>10. \/ Owns(d) /\ d = D /\ r = 0 /\ sh = NotShown
       \/ ~Owns(d) /\ o = 0 /\ r = 0 /\ sh = shown /\ sh = NotShown
       \/ ~Owns(d) /\ o # 0 /\ d # D /\ r = o /\ sh = shown /\ t.composition = composition
  BY <1>2, <1>5, <1>6, <1>4 DEF Owns, Active, Opened, Now, NoComposition, NewComposition
<1>11. \/ sh.epoch = 0 /\ sh = NotShown
       \/ d # D /\ sh = shown /\ r = o
  BY <1>10 DEF NotShown
<1> HIDE DEF sh
<1>12. Staged(t, sh.epoch, D, 0)
  <2>1. Flow(<<>>, r, sh.epoch)
    <3>1. Flow(<<>>, o, f) BY <1>2, <1>3 DEF Scene, Now
    <3>2. r \in Nat
      BY EditStart, <1>10
    <3>3. sh.epoch = 0 => Flow(<<>>, r, sh.epoch) BY <3>2, FlowEmpty
    <3> QED BY <1>11, <3>1, <3>3
  <2>2. \A e \in DOMAIN t.segments : t.segments[e].stage = "context" => FALSE
    <3> SUFFICES ASSUME NEW e \in DOMAIN t.segments, t.segments[e].stage = "context" PROVE FALSE
      OBVIOUS
    <3>1. e \in DOMAIN segments /\ e # 0 /\ segments[e].stage = "context" BY <1>2, <1>7
    <3>2. Has(queue[segments[e].doc], OpenEdit(e)) BY <1>2, <3>1 DEF Scene, Now
    <3>3. queue[segments[e].doc] = <<>> BY <1>2, <1>3, <3>1
    <3> QED BY <3>2, <3>3 DEF Has
  <2>3. Scene(t, r, sh.epoch, D, 0)
    BY <1>9, <2>1, <2>2 DEF Has, Scene
  <2>4. Opened(t, D, 0)
    <3>1. CASE r = 0
      <4>1. Fine(Now, TRUE) BY FineNow
      <4>2. \A s \in DOMAIN Now.tracker.pending : Now.tracker.pending[s].epoch # 0
        BY <4>1, FineMore
      <4>3. t.tracker = Now.tracker BY <1>6 DEF Now
      <4> QED BY <3>1, <4>2, <4>3 DEF Opened
    <3>2. CASE r # 0
      BY <1>6, <1>10, <3>2, <1>3, <1>9, <1>2 DEF Opened, Now
    <3> QED BY <3>1, <3>2
  <2> QED BY <2>3, <2>4 DEF Staged
<1>13. Drawn(t, sh, tx, immediate, D)
  BY <1>10, <1>2, <1>3 DEF Drawn, ToShow, ShowQueued, Now
<1>14. Standing(t.nextEpoch, t.segments, InUse(t, r, sh.epoch, D), sh, rg, tx, D)
  <2> DEFINE V == InUse(t, r, sh.epoch, D)
  <2>1. tx \in [Docs -> Seq(PieceType)] BY <1>2
  <2>2. \A c \in Docs : tx[c] = IF c = d THEN <<>> ELSE text[c] BY <1>2
  <2>3. V \subseteq U
    <3>1. \A e : ~InQueue(t.queue[D], e) BY <1>9 DEF InQueue
    <3>2. \A e \in V : e # 0 /\ e \in 1..(nextEpoch - 1) /\ e \in {r, sh.epoch}
      BY <1>6, <3>1 DEF InUse
    <3>3. r \in {0, o} /\ sh.epoch \in {0, f} BY <1>10, <1>11
    <3> HIDE DEF V, f
    <3> QED BY <3>2, <3>3 DEF InUse, Now, U
  <2>4. sh = NotShown \/ /\ sh = [epoch |-> sh.epoch, doc |-> D] /\ sh.epoch \in V
                         /\ tx[D] # <<>> /\ tx[D][Len(tx[D])].epoch = sh.epoch
    BY <1>2, <1>6, <2>2, <1>11 DEF Standing, InUse, Now
  <2>5. \A c \in Docs : \A i \in 1..Len(tx[c]) :
          /\ tx[c][i].epoch < nextEpoch
          /\ tx[c][i].epoch \in V => c = D /\ tx[c][i].epoch = sh.epoch /\ i = Len(tx[D])
    <3> SUFFICES ASSUME NEW c \in Docs, NEW i \in 1..Len(tx[c])
                 PROVE  /\ tx[c][i].epoch < nextEpoch
                        /\ tx[c][i].epoch \in V =>
                             c = D /\ tx[c][i].epoch = sh.epoch /\ i = Len(tx[D])
      OBVIOUS
    <3>1. c # d BY <2>2
    <3>2. tx[c] = text[c] BY <2>2, <3>1
    <3>3. /\ text[c][i].epoch < nextEpoch
          /\ text[c][i].epoch \in U => c = D /\ text[c][i].epoch = f /\ i = Len(text[D])
      BY <1>2, <3>2 DEF Standing
    <3>4. tx[c][i].epoch \in V => d # D /\ sh = shown
      <4>1. HAVE tx[c][i].epoch \in V
      <4>2. c = D BY <2>3, <3>2, <3>3, <4>1
      <4>3. d # D BY <3>1, <4>2
      <4>4. tx[c][i].epoch = f BY <2>3, <3>2, <3>3, <4>1
      <4>5. f # 0 BY <4>1, <4>4 DEF InUse
      <4>6. sh = shown
        BY <1>4, <4>5, <1>10, <4>3
      <4> QED BY <4>3, <4>6
    <3>5. d # D => tx[D] = text[D] BY <2>2
    <3> HIDE DEF tx, V
    <3> QED BY <2>3, <3>2, <3>3, <3>4, <3>5
  <2>6. \A e \in rg : /\ e \in DOMAIN t.segments /\ t.segments[e].placed /\ e \notin V
                      /\ PiecesOf(tx[t.segments[e].doc], e) # {}
    <3> SUFFICES ASSUME NEW e \in rg
                 PROVE  /\ e \in DOMAIN t.segments /\ t.segments[e].placed /\ e \notin V
                        /\ PiecesOf(tx[t.segments[e].doc], e) # {}
      OBVIOUS
    <3>1. e \in ranges /\ PiecesOf(text[d], e) = {} OBVIOUS
    <3>2. /\ e \in DOMAIN segments /\ segments[e].placed /\ e \notin U
          /\ PiecesOf(text[segments[e].doc], e) # {}
      BY <1>2, <3>1 DEF Standing
    <3>3. segments[e].doc # d /\ segments[e].doc \in Docs BY <1>2, <3>1, <3>2
    <3>4. e \in S BY <3>2, <3>3 DEF SegmentsOf
    <3>5. t.segments[e] = segments[e] /\ e \in DOMAIN t.segments BY <1>7, <3>4
    <3>6. tx[segments[e].doc] = text[segments[e].doc] BY <2>2, <3>3
    <3> HIDE DEF V, tx, U
    <3> QED BY <2>3, <3>2, <3>5, <3>6
  <2> HIDE DEF V, tx, rg
  <2> QED BY <1>6, <2>1, <2>4, <2>5, <2>6 DEF Standing, V
<1> HIDE DEF tx, rg
<1>15. SettledIn(t, sh, rg, tx, immediate, D) BY <1>12, <1>13, <1>14 DEF SettledIn
<1>16. SettledIn(Now, shown, ranges, text, immediate, D)'
  <2> DEFINE u == Now'
             a == shown'
             b == ranges'
             c == text'
             g == immediate'
  <2>1. /\ u.composition = t.composition /\ u.nextEpoch = t.nextEpoch
        /\ u.tracker = t.tracker /\ u.segments = t.segments /\ u.queue = t.queue
    BY <1>1 DEF Become, Now
  <2>2. SettledIn(t, a, b, c, g, D) BY <1>1, <1>15
  <2> HIDE DEF u, a, b, c, g
  <2>3. SettledIn(u, a, b, c, g, D) BY <2>1, <2>2, SettledSame
  <2> QED BY <2>3 DEF u, a, b, c, g
<1>17. BusyOK(D)' BY <1>1, NoCall DEF Idle, NotBusy, Busy
<1> QED BY <1>16, <1>17 DEF Settling

LEMMA TerminateSettles ==
  ASSUME TInv, NEW D \in Docs, Settling(D), Terminate
  PROVE  Settling(D)'
<1> DEFINE n == WithoutList(Now)
           r == DiscardReading(n)
           t == IF Owns(shown.doc) THEN Seal(r) ELSE n
           f == shown.epoch
<1>1. /\ Become(t) /\ f # 0 /\ busy' = Busy("terminate", shown.doc, f)
      /\ UNCHANGED <<shown, ranges, text, immediate>>
  BY DEF Terminate, screen
<1>2. Fine(Now, TRUE) /\ Fine(n, TRUE) /\ Onward(Now, n, f, D, 0) /\ f \in Nat
      /\ n.composition.epoch = composition.epoch
  BY KeyFound DEF KeyFinds
<1>3. Now.nextEpoch \in Nat /\ n.nextEpoch \in Nat BY <1>2, FineMore
<1>4. shown = [epoch |-> f, doc |-> D] /\ Opened(Now, D, 0)
  BY EditStart, <1>1 DEF NotShown
<1>5. Owns(shown.doc) \/ composition.epoch = 0
  BY <1>4 DEF Opened, Now, Owns, Active
<1> HIDE DEF n
<1>6. Onward(Now, t, f, D, 0) /\ t.nextEpoch \in Nat /\ t.composition.epoch = 0
  <2>1. CASE Owns(shown.doc)
    <3>1. n.composition.epoch # 0 BY <1>2, <2>1 DEF Owns, Active
    <3>2. Staged(n, f, D, 0) BY <1>2 DEF Onward
    <3>3. Onward(n, r, f, D, 0) /\ r.nextEpoch = n.nextEpoch BY <1>2, <3>1, <3>2, StagedDiscardReading
    <3>4. Fine(r, TRUE) BY <1>2, <3>1, FineDiscardReading
    <3> HIDE DEF r
    <3>5. Staged(r, f, D, 0) BY <3>3 DEF Onward
    <3> DEFINE u == Seal(r)
    <3>6. Onward(r, u, f, D, 0) /\ u.nextEpoch = r.nextEpoch /\ u.composition.epoch = 0
      BY <1>2, <3>4, <3>5, StagedLeft
    <3>7. t = u BY <2>1
    <3> HIDE DEF u, t
    <3>8. Onward(Now, r, f, D, 0) BY <1>2, <1>3, <3>3, OnwardThen DEF Epochs
    <3>9. Onward(Now, u, f, D, 0) BY <1>3, <3>3, <3>6, <3>8, OnwardThen DEF Epochs
    <3> QED BY <1>3, <3>3, <3>6, <3>7, <3>9
  <2>2. CASE ~Owns(shown.doc)
    <3>1. t = n BY <2>2
    <3> HIDE DEF t
    <3> QED BY <1>2, <1>3, <1>5, <2>2, <3>1
  <2> QED BY <2>1, <2>2
<1> HIDE DEF t
<1>7. Reaches(t) BY <1>1 DEF Become, Reaches
<1>8. SettledIn(Now, shown, ranges, text, immediate, D)' BY <1>1, <1>6, <1>7, SettlesOn
<1>9. BusyOK(D)'
  BY <1>1, <1>6, <1>4 DEF Become, Busy, BusyOK, Active
<1> QED BY <1>8, <1>9 DEF Settling

LEMMA EndTerminationSettles ==
  ASSUME TInv, NEW D \in Docs, Settling(D), EndTermination
  PROVE  Settling(D)'
<1>1. /\ busy.call = "terminate" /\ ~CanRun(busy.doc) /\ shown' = NotShown /\ busy' = NotBusy
      /\ UNCHANGED controller /\ UNCHANGED <<ranges, text, immediate>>
  BY DEF EndTermination, others
<1>2. busy.doc = D /\ composition.epoch = 0 BY <1>1 DEF Settling, BusyOK, Active
<1>3. shown = NotShown
  BY <1>1, <1>2, EditStart, FlowNothing DEF CanRun, Scene, Now, Settling, BusyOK
<1>4. SettledIn(Now, shown, ranges, text, immediate, D) BY DEF Settling
<1>5. SettledIn(Now, shown', ranges', text', immediate, D) BY <1>1, <1>3, <1>4
<1>6. SettledIn(Now, shown, ranges, text, immediate, D)' BY <1>1, <1>5, StillSettled
<1>7. BusyOK(D)' BY <1>1, NoCall DEF NotBusy, Busy
<1> QED BY <1>6, <1>7 DEF Settling

LEMMA DeactivateSettles ==
  ASSUME TInv, NEW D \in Docs, Settling(D), Deactivate
  PROVE  Settling(D)'
<1> DEFINE forgotten == [Now EXCEPT !.tracker = Forget(@)]
           st == [Now EXCEPT !.connected = FALSE, !.tracker = Forget(@)]
           m == WithoutList(st)
           u == Seal(m)
           last == FinishLocally(u)
           f == shown.epoch
<1>0. Fine(Now, TRUE) /\ Fine(Now, FALSE) BY FineNow
<1>1. /\ Become(last) /\ busy' = Busy("stop", NoDoc, 0)
      /\ UNCHANGED <<shown, ranges, text, immediate>>
  BY DEF Deactivate, screen
<1>2. Staged(Now, f, D, 0) /\ f \in Nat BY EditStart
<1>3. Fine(forgotten, FALSE) BY <1>0, FineForget
<1>4. /\ DOMAIN st = DOMAIN forgotten /\ st.composition = forgotten.composition
      /\ st.tracker = forgotten.tracker /\ st.nextEpoch = forgotten.nextEpoch
      /\ st.segments = forgotten.segments /\ st.queue = forgotten.queue
      /\ st.owed = forgotten.owed /\ st.connected = FALSE
  BY DEF Now
<1>5. Onward(Now, forgotten, f, D, 0) /\ forgotten.nextEpoch = nextEpoch
  <2> DEFINE tr == Forget(tracker)
  <2>1. forgotten = WithTracker(Now, tr) BY DEF WithTracker, Now
  <2>2. DOMAIN tr.pending = {}
    BY <1>0 DEF Fine, Good, IsState, Now, Forget
  <2> HIDE DEF tr, forgotten
  <2>3. /\ DOMAIN tr.pending \subseteq DOMAIN Now.tracker.pending
        /\ \A s \in DOMAIN tr.pending : tr.pending[s] = Now.tracker.pending[s]
    BY <2>2
  <2> DEFINE s == Now
  <2>4. Fine(s, TRUE) /\ Staged(s, f, D, 0) /\ s.nextEpoch = nextEpoch BY <1>0, <1>2 DEF Now
  <2>5. /\ DOMAIN tr.pending \subseteq DOMAIN s.tracker.pending
        /\ \A k \in DOMAIN tr.pending : tr.pending[k] = s.tracker.pending[k]
    BY <2>3
  <2>6. forgotten = WithTracker(s, tr) BY <2>1
  <2> HIDE DEF s, f
  <2>7. Onward(s, forgotten, f, D, 0) /\ forgotten.nextEpoch = s.nextEpoch
    BY <2>4, <2>5, <2>6, StagedFewer
  <2> QED BY <2>4, <2>7 DEF s
<1>6. Now.nextEpoch \in Nat /\ forgotten.nextEpoch \in Nat BY <1>0, <1>3, FineMore
<1> HIDE DEF forgotten, st
<1>7. Fine(st, FALSE)
  BY <1>3, <1>4, GoodFrame, LeadsFrame DEF Fine, Good, IsState, Leads, Typed1
<1>8. Onward(forgotten, st, f, D, 0)
  BY <1>5, <1>3, FineMore, <1>4, <1>6, StagedSame DEF Onward, Requesting
<1>9. Onward(Now, st, f, D, 0) BY <1>4, <1>5, <1>6, <1>8, OnwardThen DEF Epochs
<1>10. Fine(m, FALSE) /\ Onward(st, m, f, D, 0) /\ m.nextEpoch \in Nat
  BY <1>9, <1>7, FineList, StagedList, FineMore DEF Onward
<1> HIDE DEF m
<1>11. Onward(Now, m, f, D, 0) BY <1>4, <1>6, <1>9, <1>10, OnwardThen DEF Epochs
<1>12. Fine(u, FALSE) /\ Onward(m, u, f, D, 0) /\ u.nextEpoch \in Nat /\ u.composition.epoch = 0
  BY <1>10, FineSeal, <1>2, StagedLeft, FineMore DEF Onward
<1> HIDE DEF u
<1>13. Onward(Now, u, f, D, 0) BY <1>6, <1>10, <1>11, <1>12, OnwardThen DEF Epochs
<1>14. /\ Onward(u, last, f, D, 0) /\ last.nextEpoch = u.nextEpoch /\ last.composition = u.composition
       /\ \A e \in DOMAIN last.segments : Finished(last.segments[e])
  <2> DEFINE o == u.composition.epoch
  <2>1. Staged(u, f, D, 0) BY <1>12 DEF Onward
  <2>2. Scene(u, o, f, D, 0) /\ o \in Nat BY <1>12, <2>1 DEF Staged
  <2> HIDE DEF o
  <2>3. Aside(u, last, o, f, D, 0) /\ \A e \in DOMAIN last.segments : Finished(last.segments[e])
    BY <1>2, <1>12, <2>2, AsideFinish
  <2> HIDE DEF last
  <2> QED BY <2>1, <2>3, AsideOnward DEF o, Aside
<1> HIDE DEF last
<1>15. Onward(Now, last, f, D, 0) BY <1>6, <1>12, <1>13, <1>14, OnwardThen DEF Epochs
<1>16. Reaches(last) BY <1>1 DEF Become, Reaches
<1>17. SettledIn(Now, shown, ranges, text, immediate, D)'
  BY <1>1, <1>12, <1>14, <1>15, <1>16, SettlesOn
<1>18. BusyOK(D)'
  BY <1>1, <1>12, <1>14 DEF Become, Busy, BusyOK, Active
<1> QED BY <1>17, <1>18 DEF Settling

LEMMA StopSettles ==
  ASSUME TInv, NEW D \in Docs, Settling(D), Stop
  PROVE  Settling(D)'
<1> DEFINE none == [d \in Docs |-> <<>>]
           st == [WithoutComposition(Now) EXCEPT !.queue = none]
<1>1. /\ Become(st) /\ shown' = NotShown /\ busy.call = "stop" /\ busy'.call = "stopped"
      /\ UNCHANGED <<ranges, text, immediate>>
  BY DEF Stop, others, Busy
<1>2. composition.epoch = 0 /\ \A e \in DOMAIN segments : Finished(segments[e])
  BY <1>1 DEF Settling, BusyOK, Active
<1>3. /\ st.composition.epoch = 0 /\ st.segments = segments /\ st.tracker = tracker
      /\ st.nextEpoch = nextEpoch /\ st.queue = none
  BY DEF WithoutComposition, NoComposition, NewComposition, Now
<1>4. \A d \in Docs : st.queue[d] = <<>> BY <1>3
<1> HIDE DEF none, st
<1>5. Staged(st, 0, D, 0)
  <2>1. Flow(st.queue[D], 0, 0) BY <1>4, FlowEmpty
  <2>2. \A e \in DOMAIN st.segments : st.segments[e].stage # "context"
    BY <1>2, <1>3 DEF Finished
  <2>3. Scene(st, 0, 0, D, 0) BY <1>4, <2>1, <2>2 DEF Scene, Has
  <2>4. \A s \in DOMAIN tracker.pending : tracker.pending[s].epoch # 0
    <3>1. Fine(Now, TRUE) /\ Now.tracker = tracker BY FineNow DEF Now
    <3> QED BY <3>1, FineMore
  <2>5. Opened(st, D, 0) BY <1>3, <2>4 DEF Opened
  <2> QED BY <1>3, <2>3, <2>5 DEF Staged
<1>6. Standing(st.nextEpoch, st.segments, InUse(st, st.composition.epoch, 0, D),
               NotShown, ranges, text, D)
  <2> DEFINE U == InUse(Now, composition.epoch, shown.epoch, D)
             V == InUse(st, st.composition.epoch, 0, D)
  <2>1. Standing(nextEpoch, segments, U, shown, ranges, text, D) BY EditStart
  <2>2. V = {}
    BY EditStart, <1>3, <1>4 DEF InUse, InQueue
  <2> HIDE DEF U, V
  <2>3. Standing(nextEpoch, segments, V, NotShown, ranges, text, D) BY <2>1, <2>2, StandsUnshown
  <2> QED BY <1>3, <2>3 DEF V
<1>7. SettledIn(st, NotShown, ranges, text, immediate, D)
  BY <1>3, <1>5, <1>6 DEF SettledIn, Drawn, ToShow, NotShown
<1>8. SettledIn(Now, shown, ranges, text, immediate, D)'
  <2> DEFINE a == shown'
             b == ranges'
             c == text'
             i == immediate'
             t == Now'
  <2>1. /\ t.composition = st.composition /\ t.nextEpoch = st.nextEpoch
        /\ t.tracker = st.tracker /\ t.segments = st.segments /\ t.queue = st.queue
    BY <1>1 DEF Now, Become
  <2>2. a = NotShown /\ b = ranges /\ c = text /\ i = immediate BY <1>1
  <2> HIDE DEF a, b, c, i, t
  <2>3. SettledIn(t, a, b, c, i, D) BY <1>7, <2>1, <2>2, SettledSame
  <2> QED BY <2>3 DEF a, b, c, i, t
<1>9. BusyOK(D)' BY <1>1, <1>2, <1>3 DEF BusyOK, Become, Active
<1> QED BY <1>8, <1>9 DEF Settling

\* A request is answered, or given up.
TakenOK(taken, request, sequence, D) ==
  /\ Fine(taken, FALSE) /\ Onward(Now, taken, shown.epoch, D, 0)
  /\ taken.nextEpoch = nextEpoch /\ taken.composition = composition
  /\ taken.tracker.asked = tracker.asked
  /\ Requested(request, sequence, tracker.asked) /\ RequestOK(request)
  /\ sequence \in Nat \ {0}
  /\ request.epoch = composition.epoch => request.doc = D

LEMMA TakenFacts ==
  ASSUME TInv, NEW D \in Docs, Settling(D), NEW sequence \in DOMAIN tracker.pending
  PROVE  TakenOK([Now EXCEPT !.tracker = Take(@, sequence)], tracker.pending[sequence], sequence, D)
<1> DEFINE taken == [Now EXCEPT !.tracker = Take(@, sequence)]
           request == tracker.pending[sequence]
<1>0. Fine(Now, TRUE) /\ Fine(Now, FALSE) /\ Now.tracker = tracker /\ Now.nextEpoch = nextEpoch
  BY FineNow DEF Now
<1>1. Good(taken, FALSE) BY <1>0, GoodTake DEF Fine
<1>2. /\ Leads(Now, taken) /\ taken.tracker.asked = tracker.asked /\ taken.nextEpoch = nextEpoch
  BY <1>0, LeadsTake DEF Fine, Now
<1>3. Typed1(taken) BY <1>0, TypedTake
<1>4. Fine(taken, FALSE) BY <1>1, <1>2, <1>3 DEF Fine, Leads
<1>5. Requested(request, sequence, tracker.asked) /\ RequestOK(request)
  BY <1>0 DEF Fine, Sound, PendingFit, Typed1
<1>6. sequence \in Nat \ {0}
  BY <1>0 DEF Fine, Good, Counted, Numbered
<1>7. request.epoch = composition.epoch => request.doc = D
  BY EditStart DEF Opened, Now
<1>8. Onward(Now, taken, shown.epoch, D, 0)
  <2> DEFINE s == Now
             tr == Take(tracker, sequence)
             f == shown.epoch
  <2>1. Fine(s, TRUE) /\ Staged(s, f, D, 0) BY <1>0, EditStart
  <2>2. /\ DOMAIN tr.pending \subseteq DOMAIN s.tracker.pending
        /\ \A k \in DOMAIN tr.pending : tr.pending[k] = s.tracker.pending[k]
    BY <1>0 DEF Fine, Good, IsState, Take, Restrict
  <2>3. taken = WithTracker(s, tr) BY DEF WithTracker, Now
  <2> HIDE DEF s, tr, f, taken
  <2>4. Onward(s, taken, f, D, 0) BY <2>1, <2>2, <2>3, StagedFewer
  <2> QED BY <2>4 DEF s, f
<1>9. taken.composition = composition BY DEF Now
<1> HIDE DEF taken, request
<1> QED BY <1>2, <1>4, <1>5, <1>6, <1>7, <1>8, <1>9 DEF TakenOK, taken, request

LEMMA AnswerSettles ==
  ASSUME TInv, NEW D \in Docs, Settling(D), NEW sequence \in DOMAIN tracker.pending, Answer(sequence)
  PROVE  Settling(D)'
<1> DEFINE taken == [Now EXCEPT !.tracker = Take(@, sequence)]
           request == tracker.pending[sequence]
           f == shown.epoch
<1>1. TakenOK(taken, request, sequence, D) BY TakenFacts
<1>2. PICK outcome \in Outcomes(request.snapshot) :
        Become(IF Live(request.epoch)
               THEN Run(taken, request.doc, ApplyEdit(request, sequence, outcome))
               ELSE MergeSealed(taken, sequence, request, outcome))
  BY DEF Answer
<1>3. Idle /\ UNCHANGED <<shown, ranges, text, immediate, busy>> BY DEF Answer, screen, others
<1> HIDE DEF taken, request
<1>4. Now.nextEpoch \in Nat /\ taken.nextEpoch \in Nat /\ f \in Nat
      /\ composition.epoch \in 0..(nextEpoch - 1)
  BY <1>1, FineNow, FineMore, EditStart DEF TakenOK
<1> DEFINE edit == ApplyEdit(request, sequence, outcome)
           last == IF Live(request.epoch) THEN Run(taken, D, edit)
                   ELSE MergeSealed(taken, sequence, request, outcome)
<1>5. Become(last)
  BY <1>1, <1>2 DEF Live, TakenOK
<1>6. Staged(taken, f, D, 0) BY <1>1 DEF TakenOK, Onward
<1>7. Onward(taken, last, f, D, 0) /\ last.nextEpoch = taken.nextEpoch
  <2>1. CASE Live(request.epoch)
    <3>1. request.epoch = composition.epoch /\ composition.epoch # 0 BY <2>1 DEF Live, Active
    <3>2. request.epoch < nextEpoch /\ nextEpoch \in Nat BY <1>1, <1>4, <3>1 DEF TakenOK
    <3>3. edit \in QueuedEdits(taken.nextEpoch) BY <1>1, <3>2, ApplyTyped DEF TakenOK
    <3>4. ~Ends(edit) /\ ~Types(edit) /\ edit.epoch = taken.composition.epoch
      BY <1>1, <3>1 DEF ApplyEdit, Ends, Types, TakenOK
    <3> DEFINE r == Run(taken, D, edit)
    <3>5. last = r BY <2>1
    <3> HIDE DEF edit
    <3>6. Onward(taken, r, f, D, 0) /\ r.nextEpoch = taken.nextEpoch
      BY <1>1, <1>4, <1>6, <3>3, <3>4, StagedRun DEF TakenOK
    <3> HIDE DEF last, r
    <3> QED BY <3>5, <3>6
  <2>2. CASE ~Live(request.epoch)
    <3> DEFINE r == MergeSealed(taken, sequence, request, outcome)
               o == taken.composition.epoch
    <3>1. last = r BY <2>2
    <3>2. outcome.predicted \in 0..Len(request.snapshot)
      <4>1. Len(request.snapshot) \in Nat BY <1>1 DEF Requested, TakenOK
      <4>2. PICK n \in 0..Len(request.snapshot) :
              outcome \in {[predicted |-> n, singles |-> S] :
                             S \in SUBSET {k \in 1..n : ~IsChosen(request.snapshot[k])}}
        BY DEF Outcomes
      <4> QED BY <4>2
    <3>3. Scene(taken, o, f, D, 0) /\ o \in Nat BY <1>1, <1>4, <1>6 DEF Staged, TakenOK
    <3>4. Fine(taken, FALSE) /\ Requested(request, sequence, taken.tracker.asked) BY <1>1 DEF TakenOK
    <3> HIDE DEF o
    <3>5. Aside(taken, r, o, f, D, 0) BY <1>4, <3>2, <3>3, <3>4, AsideMergeSealed
    <3> HIDE DEF r, last
    <3>6. Onward(taken, r, f, D, 0) BY <1>6, <3>5, AsideOnward DEF o
    <3> QED BY <3>1, <3>5, <3>6 DEF Aside
  <2> QED BY <2>1, <2>2
<1> HIDE DEF last
<1>8. Onward(Now, last, f, D, 0) BY <1>1, <1>4, <1>7, OnwardThen DEF Epochs, TakenOK
<1>9. Reaches(last) BY <1>5 DEF Become, Reaches
<1>10. SettledIn(Now, shown, ranges, text, immediate, D)' BY <1>3, <1>4, <1>7, <1>8, <1>9, SettlesOn
<1>11. BusyOK(D)' BY <1>3, NoCall DEF Idle, NotBusy, Busy
<1> QED BY <1>10, <1>11 DEF Settling

LEMMA GivenUpSettles ==
  ASSUME TInv, NEW D \in Docs, Settling(D), NEW sequence \in DOMAIN tracker.pending,
         Supersede(sequence) \/ Lose(sequence)
  PROVE  Settling(D)'
<1> DEFINE taken == [Now EXCEPT !.tracker = Take(@, sequence)]
           request == tracker.pending[sequence]
           f == shown.epoch
           lost == BackendLost(taken)
<1>1. TakenOK(taken, request, sequence, D) BY TakenFacts
<1>2. /\ Become(taken) \/ Become(lost)
      /\ Idle /\ UNCHANGED <<shown, ranges, text, immediate, busy>>
  BY DEF Supersede, Lose, screen, others
<1> HIDE DEF taken, request
<1>3. Now.nextEpoch \in Nat /\ taken.nextEpoch \in Nat /\ f \in Nat
  BY <1>1, FineNow, FineMore, EditStart DEF TakenOK
<1>4. Staged(taken, f, D, 0) BY <1>1 DEF TakenOK, Onward
<1>5. Onward(taken, lost, f, D, 0) /\ lost.nextEpoch = taken.nextEpoch
  BY <1>1, <1>3, <1>4, StagedBackendLost DEF TakenOK
<1> HIDE DEF lost
<1>6. Onward(Now, lost, f, D, 0) BY <1>1, <1>3, <1>5, OnwardThen DEF Epochs, TakenOK
<1>7. PICK last \in {taken, lost} : Become(last) BY <1>2
<1>8. Onward(Now, last, f, D, 0) /\ last.nextEpoch \in Nat BY <1>1, <1>3, <1>5, <1>6 DEF TakenOK
<1>9. Reaches(last) BY <1>7 DEF Become, Reaches
<1>10. SettledIn(Now, shown, ranges, text, immediate, D)' BY <1>2, <1>8, <1>9, SettlesOn
<1>11. BusyOK(D)' BY <1>2, NoCall DEF Idle, NotBusy, Busy
<1> QED BY <1>10, <1>11 DEF Settling

\* A key comes to the controller only between two calls, and in the document that
\* is composed in.
KeyCalled(d) ==
  /\ d \in docs /\ Idle /\ (calls.prompt => Granted) /\ (Active => Owns(d))
  /\ UNCHANGED <<shown, ranges, text, immediate, docs, samples>>

LEMMA KeyCalls ==
  ASSUME NEW d, Typing(d) \/ Choosing(d)
  PROVE  KeyCalled(d)
<1>1. ASSUME NEW operation, Key(d, operation) PROVE KeyCalled(d)
  BY <1>1 DEF Key, Call, KeyCalled, screen
<1>2. \E operation : Key(d, operation)
  <2>1. CASE Typing(d)
    BY <2>1 DEF Typing, TypeReading, TypeText, ComposeEnglish, Shift, Backspace, MoveCaret, Enter,
                Escape, BackspaceInOrder, InsertText
  <2>2. CASE Choosing(d)
    BY <2>2 DEF Choosing, OpenCandidates, Choose, ChooseReading, CloseCandidates
  <2> QED BY <2>1, <2>2
<1> QED BY <1>1, <1>2

\* What a use allows stays as it is.
LEMMA UseStays ==
  ASSUME calls \in Use, [Next]_vars
  PROVE  calls'.among = calls.among /\ calls'.docs = calls.docs /\ calls'.prompt = calls.prompt
<1>1. CASE UNCHANGED vars BY <1>1 DEF vars, others
<1>2. ASSUME NEW d, Typing(d) \/ Choosing(d) \/ Host(d) \/ ChangeSetting \/ Terminate \/ Deactivate
      PROVE  calls'.among = calls.among /\ calls'.docs = calls.docs /\ calls'.prompt = calls.prompt
  <2>1. PICK operation : Call(operation) BY <1>2, CallSteps
  <2>2. calls' = [calls EXCEPT !.left = calls.left - 1] BY <2>1 DEF Call
  <2> QED BY <2>2 DEF Use
<1>3. ASSUME NEW d, RunEdit(d) PROVE calls' = calls
  BY <1>3 DEF RunEdit, RunOpen, RunShow, RunApply, RunCommit, RunDiscard, RunSeal, RunLost,
              RunErase, RunInsert, RunWrite, others
<1>4. CASE AfterKey \/ EndTermination \/ Stop BY <1>4 DEF AfterKey, EndTermination, Stop, others
<1>5. ASSUME NEW sequence, Backend(sequence) PROVE calls' = calls
  BY <1>5 DEF Backend, Answer, Supersede, Lose, others
<1> QED BY <1>1, <1>2, <1>3, <1>4, <1>5 DEF Next

\* What the user and the host were doing, and what was learnt from it.
Scr == /\ immediate \in BOOLEAN /\ calls \in Use /\ docs \subseteq calls.docs
       /\ samples \subseteq SampleType

LEMMA SamplesTyped ==
  ASSUME TInv, samples \subseteq SampleType, NEW d \in Docs, RunEdit(d)
  PROVE  samples' \subseteq SampleType
<1>1. CASE RunCommit(d)
  <2> DEFINE x == Head(queue[d])
  <2>1. queue[d] # <<>> /\ x.do = "commit" BY <1>1 DEF RunCommit, Taken, CanRun
  <2>2. x \in QueuedEdits(nextEpoch) BY <2>1, FinePopped
  <2> HIDE DEF x
  <2>3. x.sample \subseteq SampleType BY <2>1, <2>2 DEF QueuedEdits, EditType
  <2>4. samples' = samples \union x.sample BY <1>1 DEF RunCommit, x
  <2> QED BY <2>3, <2>4
<1>2. CASE RunWrite(d)
  <2>1. \/ samples' = samples
        \/ \E e \in Writable(d) : samples' = samples \union SealedSample(e, segments[e])
    BY <1>2 DEF RunWrite
  <2>2. CASE samples' = samples BY <2>2
  <2>3. CASE \E e \in Writable(d) : samples' = samples \union SealedSample(e, segments[e])
    <3>1. PICK e \in Writable(d) : samples' = samples \union SealedSample(e, segments[e]) BY <2>3
    <3>2. e \in DOMAIN segments BY DEF Writable, SegmentsOf
    <3>3. Fine(Now, TRUE) BY FineNow
    <3>4. e \in Nat \ {0}
      <4>1. Now.nextEpoch = nextEpoch /\ Now.segments = segments BY DEF Now
      <4>2. DOMAIN segments \subseteq 1..(nextEpoch - 1) /\ nextEpoch \in Nat BY <3>3, <4>1, FineMore
      <4> QED BY <3>2, <4>2
    <3>5. segments[e].buffer.entries \in Seq(Entry)
      BY <3>2, <3>3, SegmentParts DEF Fine, Typed1, Now, Buffer
    <3>6. Sample(e, segments[e].buffer) \in SUBSET SampleType BY <3>4, <3>5, SampleTyped
    <3>7. SealedSample(e, segments[e]) \subseteq SampleType BY <3>6 DEF SealedSample
    <3> QED BY <3>1, <3>7
  <2> QED BY <2>1, <2>2, <2>3
<1>3. ASSUME RunOpen(d) \/ RunShow(d) \/ RunApply(d) \/ RunDiscard(d) \/ RunSeal(d) \/ RunLost(d)
             \/ RunErase(d) \/ RunInsert(d)
      PROVE  samples' = samples
  BY <1>3 DEF RunOpen, RunShow, RunApply, RunDiscard, RunSeal, RunLost, RunErase, RunInsert, others
<1> QED BY <1>1, <1>2, <1>3 DEF RunEdit

LEMMA NextScr ==
  ASSUME TInv, Scr, [Next]_vars
  PROVE  Scr'
<1>1. calls' \in Use BY CallsInv DEF Scr
<1>2. calls'.docs = calls.docs BY UseStays DEF Scr
<1>3. immediate' \in BOOLEAN /\ docs' \subseteq docs /\ samples' \subseteq SampleType
  <2>1. CASE UNCHANGED vars BY <2>1 DEF vars, others, Scr
  <2>2. ASSUME NEW d \in Docs, RunEdit(d)
        PROVE  immediate' \in BOOLEAN /\ docs' \subseteq docs /\ samples' \subseteq SampleType
    <3>1. samples' \subseteq SampleType BY <2>2, SamplesTyped DEF Scr
    <3>2. immediate' = immediate /\ docs' = docs
      BY <2>2 DEF RunEdit, RunOpen, RunShow, RunApply, RunCommit, RunDiscard, RunSeal, RunLost,
                  RunErase, RunInsert, RunWrite, others
    <3> QED BY <3>1, <3>2 DEF Scr
  <2>3. ASSUME NEW d \in Docs, Typing(d) \/ Choosing(d)
        PROVE  immediate' \in BOOLEAN /\ docs' \subseteq docs /\ samples' \subseteq SampleType
    BY <2>3, KeyCalls DEF KeyCalled, Scr
  <2>4. ASSUME NEW d \in Docs, Host(d)
        PROVE  immediate' \in BOOLEAN /\ docs' \subseteq docs /\ samples' \subseteq SampleType
    BY <2>4 DEF Host, LeaveOtherDocument, CloseDocument, UserEdits, Scr
  <2>5. CASE AfterKey \/ ChangeSetting \/ Terminate \/ EndTermination \/ Deactivate \/ Stop
    BY <2>5 DEF AfterKey, ChangeSetting, Terminate, EndTermination, Deactivate, Stop, others, Scr
  <2>6. ASSUME NEW sequence, Backend(sequence)
        PROVE  immediate' \in BOOLEAN /\ docs' \subseteq docs /\ samples' \subseteq SampleType
    BY <2>6 DEF Backend, Answer, Supersede, Lose, others, Scr
  <2> QED BY <2>1, <2>2, <2>3, <2>4, <2>5, <2>6 DEF Next
<1> QED BY <1>1, <1>2, <1>3 DEF Scr

LEMMA NextSettles ==
  ASSUME TInv, TInv', Scr, NEW D \in Docs, Alone(D), Settling(D), [Next]_vars
  PROVE  \E E \in Docs : Alone(E) /\ Settling(E)'
<1>1. CASE UNCHANGED vars
  BY <1>1, StillSettled DEF vars, screen, others, controller, Settling, BusyOK, Active
<1>2. ASSUME NEW d \in Docs, RunEdit(d) PROVE Settling(D)' BY <1>2, RunEditSettles
<1>3. ASSUME NEW d \in Docs, Typing(d) \/ Choosing(d) PROVE Alone(d) /\ Settling(d)'
  BY <1>3, KeyCalls, Rehomed, TypingSettles, ChoosingSettles DEF KeyCalled, Scr
<1>4. ASSUME NEW d \in Docs, Host(d) PROVE Settling(D)'
  BY LeaveSettles, CloseSettles, UserEditsSettles, <1>4 DEF CloseDocument, Call, Alone, Host
<1>5. CASE AfterKey BY <1>5, AfterKeySettles
<1>6. ~ChangeSetting BY DEF ChangeSetting, Call, Alone
<1>7. CASE Terminate \/ EndTermination \/ Deactivate \/ Stop
  BY <1>7, TerminateSettles, EndTerminationSettles, DeactivateSettles, StopSettles
<1>8. ASSUME NEW sequence \in DOMAIN tracker.pending, Backend(sequence) PROVE Settling(D)'
  BY <1>8, AnswerSettles, GivenUpSettles DEF Backend
<1> QED BY <1>1, <1>2, <1>3, <1>4, <1>5, <1>6, <1>7, <1>8 DEF Next

-----------------------------------------------------------------------------
(***************************************************************************)
(* The text the user has changed                                           *)
(***************************************************************************)
\* In a document, f being shown: a composition has one piece of text, and one that
\* was changed begins with the change and is not of the composition shown.
Marked(p, f) ==
  \A i \in 1..Len(p) :
    /\ p[i].epoch # 0 => \A j \in 1..Len(p) : p[j].epoch = p[i].epoch => j = i
    /\ IsTouched(p[i]) => p[i].chars[1] = Typed /\ p[i].epoch # f

Marks(sh, tx) == \A d \in Docs : Marked(tx[d], sh.epoch)

\* What was changed stays as it is, but for what is erased from its end.
Stays(p, r) ==
  \A i \in 1..Len(p) : IsTouched(p[i]) => IsPrefix(r[i].chars, p[i].chars)

\* What a step does to the text.
Respects(sh, tx, sh2, tx2) ==
  /\ Marks(sh2, tx2)
  /\ \A d \in Docs : Stays(tx[d], tx2[d])

LEMMA SamePrefix ==
  ASSUME NEW c \in Seq(Character)
  PROVE  /\ IsPrefix(c, c)
         /\ \A k \in 0..Len(c) : IsPrefix(SubSeq(c, 1, k), c) /\ Len(SubSeq(c, 1, k)) = k
         /\ \A k \in 0..Len(c) : \A j \in 1..k : SubSeq(c, 1, k)[j] = c[j]
<1>1. \A k \in 0..Len(c) : /\ SubSeq(c, 1, k) \in Seq(Character) /\ Len(SubSeq(c, 1, k)) = k
                           /\ \A j \in 1..k : SubSeq(c, 1, k)[j] = c[j]
  BY SubSeqProperties
<1>2. ASSUME NEW k \in 0..Len(c) PROVE IsPrefix(SubSeq(c, 1, k), c)
  <2> DEFINE s == SubSeq(c, 1, k)
  <2>1. s \in Seq(Character) /\ Len(s) = k /\ k <= Len(c) BY <1>1
  <2>2. SubSeq(s, 1, Len(s)) = s
    <3> HIDE DEF s
    <3> QED BY <2>1
  <2> HIDE DEF s
  <2> QED BY <2>1, <2>2 DEF IsPrefix, s
<1>3. IsPrefix(c, c) BY DEF IsPrefix
<1> QED BY <1>1, <1>2, <1>3

\* What a composition writes holds no text of the user's.
LEMMA LettersUntouched ==
  ASSUME NEW chars \in Seq(Letter), NEW e
  PROVE  ~IsTouched(Piece(e, chars))
<1>1. \A k \in DOMAIN chars : chars[k] \in Letter OBVIOUS
<1>2. Typed \notin Letter BY DEF Typed, Letter
<1> QED BY <1>1, <1>2 DEF IsTouched, Piece

LEMMA PieceParts ==
  ASSUME NEW p \in Seq(PieceType)
  PROVE  /\ Len(p) \in Nat /\ DOMAIN p = 1..Len(p)
         /\ \A i \in 1..Len(p) : p[i] \in PieceType /\ p[i].chars \in Seq(Character)
                                 /\ p[i].epoch \in Nat
<1>1. \A i \in 1..Len(p) : p[i] \in PieceType OBVIOUS
<1> QED BY <1>1 DEF PieceType

LEMMA StillStays ==
  ASSUME NEW p \in Seq(PieceType)
  PROVE  Stays(p, p)
BY PieceParts, SamePrefix DEF Stays

\* Text is written over text that was not changed.
LEMMA MarkedRewritten ==
  ASSUME NEW p \in Seq(PieceType), NEW f, Marked(p, f), NEW e \in Nat, NEW chars \in Seq(Letter),
         \A i \in 1..Len(p) : p[i].epoch = e => ~IsTouched(p[i])
  PROVE  /\ Marked(Rewritten(p, e, chars), f) /\ Stays(p, Rewritten(p, e, chars))
         /\ \A i \in 1..Len(p) : IsTouched(p[i]) => Rewritten(p, e, chars)[i] = p[i]
<1> DEFINE r == Rewritten(p, e, chars)
           new == Piece(e, chars)
<1>1. chars \in Seq(Character) BY LetterText
<1>2. /\ SameEpochs(p, r)
      /\ \A i \in 1..Len(p) : r[i] = IF p[i].epoch = e THEN new ELSE p[i]
  BY <1>1, RewrittenSame
<1>3. ~IsTouched(new) BY LettersUntouched
<1> HIDE DEF r, new
<1>4. Len(r) = Len(p) /\ \A i \in 1..Len(p) : r[i].epoch = p[i].epoch BY <1>2 DEF SameEpochs
<1>5. \A i \in 1..Len(p) : IsTouched(p[i]) => r[i] = p[i] BY <1>2
<1>6. \A i \in 1..Len(p) : IsTouched(r[i]) => r[i] = p[i] BY <1>2, <1>3
<1>7. Marked(r, f) BY <1>4, <1>6 DEF Marked
<1>8. Stays(p, r) BY <1>5, StillStays DEF Stays
<1> QED BY <1>5, <1>7, <1>8 DEF r

LEMMA MarkedErased ==
  ASSUME NEW p \in Seq(PieceType), NEW f, Marked(p, f), NEW n \in 0..Len(p), NEW count \in Nat
  PROVE  Marked(Erased(p, n, count), f) /\ Stays(p, Erased(p, n, count))
<1> DEFINE r == Erased(p, n, count)
<1>1. /\ SameEpochs(p, r)
      /\ \A i \in 1..Len(p) : \E k \in 0..Len(p[i].chars) : r[i].chars = SubSeq(p[i].chars, 1, k)
  BY ErasedSame
<1> HIDE DEF r
<1>2. Len(r) = Len(p) /\ \A i \in 1..Len(p) : r[i].epoch = p[i].epoch BY <1>1 DEF SameEpochs
<1>3. ASSUME NEW i \in 1..Len(p)
      PROVE  /\ IsPrefix(r[i].chars, p[i].chars)
             /\ IsTouched(r[i]) => IsTouched(p[i]) /\ r[i].chars[1] = p[i].chars[1]
  <2> DEFINE c == p[i].chars
             b == r[i].chars
  <2>1. c \in Seq(Character) BY PieceParts
  <2>2. PICK k \in 0..Len(c) : b = SubSeq(c, 1, k) BY <1>1
  <2> HIDE DEF c, b
  <2>3. /\ IsPrefix(b, c) /\ Len(b) = k /\ \A j \in 1..k : b[j] = c[j]
        /\ DOMAIN b = 1..k /\ k \in Nat /\ DOMAIN c = 1..Len(c) /\ k <= Len(c) /\ Len(c) \in Nat
    BY <2>1, <2>2, SamePrefix
  <2>4. ASSUME IsTouched(r[i]) PROVE IsTouched(p[i]) /\ b[1] = c[1]
    <3>1. PICK j \in 1..k : b[j] = Typed BY <2>3, <2>4 DEF IsTouched, b
    <3>2. 1 \in 1..k /\ j \in DOMAIN c /\ c[j] = Typed BY <2>3, <3>1
    <3> QED BY <1>2, <2>3, <2>4, <3>2 DEF IsTouched, c
  <2> QED BY <2>3, <2>4 DEF b, c
<1>4. Marked(r, f) BY <1>2, <1>3 DEF Marked
<1>5. Stays(p, r) BY <1>3 DEF Stays
<1> QED BY <1>4, <1>5 DEF r

\* A piece more: of a composition that has none, or of none.
LEMMA MarkedAppended ==
  ASSUME NEW p \in Seq(PieceType), NEW f, Marked(p, f), NEW new \in PieceType, NEW g,
         \/ new.epoch = 0 /\ g = f
         \/ ~IsTouched(new) /\ g = new.epoch /\ \A i \in 1..Len(p) : p[i].epoch # new.epoch
  PROVE  Marked(Append(p, new), g) /\ Stays(p, Append(p, new))
<1> DEFINE r == Append(p, new)
           n == Len(p)
<1>1. /\ n \in Nat /\ Len(r) = n + 1 /\ r[n + 1] = new
      /\ \A i \in 1..n : r[i] = p[i] /\ p[i].epoch \in Nat
  BY PieceParts
<1>2. new.epoch = 0 => ~IsTouched(new) BY DEF IsTouched
<1>3. \A i \in 1..(n + 1) : i \in 1..n \/ i = n + 1 BY <1>1
<1>4. \A i \in 1..n : i \in 1..(n + 1) /\ i # n + 1 BY <1>1
<1>5. \A i \in 1..n : p[i].epoch # 0 => p[i].epoch # new.epoch OBVIOUS
<1>6. \A i \in 1..n : IsTouched(p[i]) => p[i].epoch # 0 /\ p[i].epoch # g
  BY DEF Marked, IsTouched
<1>7. /\ \A i \in 1..n : p[i].epoch # 0 => \A j \in 1..n : p[j].epoch = p[i].epoch => j = i
      /\ \A i \in 1..n : IsTouched(p[i]) => p[i].chars[1] = Typed
  BY DEF Marked
<1> HIDE DEF r, n
<1>8. Marked(r, g) BY <1>1, <1>2, <1>3, <1>5, <1>6, <1>7 DEF Marked
<1>9. Stays(p, r) BY <1>1, StillStays DEF Stays, n
<1> QED BY <1>8, <1>9 DEF r

\* The user changes a text that is not the one shown.
LEMMA MarkedTouched ==
  ASSUME NEW p \in Seq(PieceType), NEW f, Marked(p, f), NEW e \in Nat \ {0}, e # f,
         CharsOf(p, e) # <<>>
  PROVE  LET r == Rewritten(p, e, <<Typed>> \o Tail(CharsOf(p, e)))
         IN  Marked(r, f) /\ Stays(p, r)
<1> DEFINE c == CharsOf(p, e)
           w == <<Typed>> \o Tail(c)
           r == Rewritten(p, e, w)
           new == Piece(e, w)
<1>1. PiecesOf(p, e) # {} BY PieceFound
<1>2. c \in Seq(Character) /\ c # <<>> BY <1>1, PieceFound
<1>3. \A i \in 1..Len(p) : p[i].epoch = e => p[i].chars = c BY PieceFound DEF Marked
<1> HIDE DEF c
<1>4. Tail(c) \in Seq(Character) /\ <<Typed>> \in Seq(Character) BY <1>2, TypedCharacter
<1>5. w \in Seq(Character) /\ w[1] = Typed BY <1>4
<1>6. c[1] = Typed => w = c
  <2>1. c = <<c[1]>> \o Tail(c) BY <1>2
  <2> QED BY <2>1
<1> HIDE DEF w
<1>7. /\ SameEpochs(p, r)
      /\ \A i \in 1..Len(p) : r[i] = IF p[i].epoch = e THEN new ELSE p[i]
  BY <1>5, RewrittenSame
<1>8. new.epoch = e /\ new.chars = w BY DEF Piece
<1> HIDE DEF r, new
<1>9. Len(r) = Len(p) /\ \A i \in 1..Len(p) : r[i].epoch = p[i].epoch BY <1>7 DEF SameEpochs
<1>10. \A i \in 1..Len(p) : IsTouched(p[i]) => r[i].chars = p[i].chars
  BY <1>3, <1>6, <1>7, <1>8 DEF Marked
<1>11. \A i \in 1..Len(p) : IsTouched(r[i]) => r[i].chars[1] = Typed /\ r[i].epoch # f
  BY <1>5, <1>7, <1>8 DEF Marked
<1>12. Marked(r, f) BY <1>9, <1>11 DEF Marked
<1>13. Stays(p, r) BY <1>10, StillStays DEF Stays
<1> QED BY <1>12, <1>13 DEF r, w, c

\* Another composition is shown, or none, and no text changes.
LEMMA RespectsSame ==
  ASSUME NEW tx \in [Docs -> Seq(PieceType)], NEW sh, Marks(sh, tx), NEW sh2,
         sh2.epoch \in {0, sh.epoch}
  PROVE  Respects(sh, tx, sh2, tx)
BY StillStays DEF Respects, Marks, Marked, IsTouched

\* The text of one document changes.
LEMMA RespectsOne ==
  ASSUME NEW tx \in [Docs -> Seq(PieceType)], NEW sh, Marks(sh, tx), NEW d \in Docs, NEW r,
         NEW sh2, Marked(r, sh2.epoch), Stays(tx[d], r),
         \A c \in Docs : c # d => Marked(tx[c], sh2.epoch)
  PROVE  Respects(sh, tx, sh2, [tx EXCEPT ![d] = r])
BY StillStays DEF Respects, Marks

\* An edit draws its composition.
LEMMA RenderRespects ==
  ASSUME TInv, NEW D \in Docs, Settling(D), Marks(shown, text), NEW e \in 1..(nextEpoch - 1),
         InQueue(queue[D], e), shown.epoch \in {0, e},
         NEW chars \in Seq(Letter), Render(D, e, chars)
  PROVE  Respects(shown, text, shown', text')
<1> DEFINE U == InUse(Now, composition.epoch, shown.epoch, D)
           p == text[D]
           piece == Piece(e, chars)
<1>0. /\ Standing(nextEpoch, segments, U, shown, ranges, text, D)
      /\ text \in [Docs -> Seq(PieceType)] /\ nextEpoch \in Nat
  BY EditStart
<1>1. /\ Standing(nextEpoch, segments, U, shown, ranges, text, D)
      /\ text \in [Docs -> Seq(PieceType)] /\ e \in Nat \ {0} /\ e \in U
  BY <1>0 DEF InUse, Now
<1>2. /\ p \in Seq(PieceType) /\ Marked(p, shown.epoch)
      /\ \A d \in Docs : Marked(text[d], shown.epoch)
  BY <1>1 DEF Marks
<1>3. CASE shown.epoch = e
  <2> DEFINE r == Rewritten(p, e, chars)
  <2>1. text' = [text EXCEPT ![D] = r] /\ shown' = shown BY <1>3 DEF Render
  <2>2. \A i \in 1..Len(p) : p[i].epoch = e => ~IsTouched(p[i]) BY <1>2, <1>3 DEF Marked
  <2> HIDE DEF p
  <2>3. Marked(r, shown.epoch) /\ Stays(p, r) BY <1>1, <1>2, <2>2, MarkedRewritten DEF p
  <2> HIDE DEF r
  <2>4. Respects(shown, text, shown, [text EXCEPT ![D] = r])
    BY <1>1, <1>2, <2>3, RespectsOne DEF p
  <2> QED BY <2>1, <2>4
<1>4. CASE shown.epoch = 0 /\ busy.call # "terminate"
  <2> DEFINE now == [epoch |-> e, doc |-> D]
             r == Append(p, piece)
  <2>1. text' = [text EXCEPT ![D] = r] /\ shown' = now BY <1>1, <1>4 DEF Render
  <2>2. \A d \in Docs : \A i \in 1..Len(text[d]) : text[d][i].epoch # e
    BY <1>1, <1>4 DEF Standing
  <2>3. ~IsTouched(piece) BY LettersUntouched
  <2>4. piece \in PieceType /\ piece.epoch = e BY <1>1, LetterText DEF Piece, PieceType
  <2> HIDE DEF piece
  <2>5. Marked(r, e) /\ Stays(p, r)
    <3>1. \A i \in 1..Len(p) : p[i].epoch # piece.epoch BY <2>2, <2>4
    <3> HIDE DEF p
    <3> QED BY <1>2, <2>3, <2>4, <3>1, MarkedAppended
  <2>6. \A d \in Docs : Marked(text[d], e) BY <1>2, <2>2 DEF Marked
  <2>7. now.epoch = e OBVIOUS
  <2> HIDE DEF r, now
  <2>8. Respects(shown, text, now, [text EXCEPT ![D] = r])
    BY <1>1, <2>5, <2>6, <2>7, RespectsOne
  <2> QED BY <2>1, <2>8
<1>5. CASE text' = text /\ shown' = shown BY <1>1, <1>5, RespectsSame
<1> QED BY <1>3, <1>4, <1>5 DEF Render

\* A result, and the loss of the backend, draw the composition they change.
LEMMA ResultDraws ==
  ASSUME TInv, NEW d \in Docs, RunApply(d) \/ RunLost(d)
  PROVE  \/ text' = text /\ shown' = shown
         \/ Render(d, Head(queue[d]).epoch, Shown(composition'.buffer, immediate))
<1> DEFINE x == Head(queue[d])
           c == composition
<1>0. CompositionTyped(Now.composition) BY FineNow, FineParts
<1>1. CompositionTyped(c) BY <1>0 DEF Now
<1>2. CASE RunApply(d)
  <2> DEFINE b == Merge(c.buffer, x.sequence, x.request.snapshot, x.outcome, c.lock)
             held == HeldBack(c.buffer, x.sequence, x.request.snapshot, x.outcome, c.lock)
             keep == IF held = {} \/ (\E h \in c.held : h.sequence > x.sequence) THEN c.held ELSE held
             done == IF x.request.revision = b.revision THEN b.revision ELSE c.converted
             after == [c EXCEPT !.buffer = b, !.held = keep, !.converted = done]
  <2>1. CASE Live(x.epoch) /\ b # c.buffer
    <3>1. composition' = after /\ Render(d, x.epoch, Shown(b, immediate))
      BY <1>2, <2>1 DEF RunApply, Proceed, Become, Popped, Now
    <3> HIDE DEF b, keep, done
    <3>2. after.buffer = b BY <1>1 DEF CompositionTyped, CompositionType
    <3> QED BY <3>1, <3>2
  <2> QED BY <1>2, <2>1 DEF RunApply
<1>3. CASE RunLost(d)
  <2> DEFINE b == AcceptLocalCandidates(c.buffer)
             after == [c EXCEPT !.converted = b.revision, !.buffer = b]
             live == [Popped(d) EXCEPT !.composition.converted = b.revision, !.composition.buffer = b]
  <2>1. CASE Live(x.epoch) /\ b # c.buffer
    <3>1. Proceed(d, live) /\ Render(d, x.epoch, Shown(b, immediate))
      BY <1>3, <2>1 DEF RunLost
    <3> HIDE DEF b
    <3>2. live.composition = after BY DEF Popped, Now
    <3>3. after.buffer = b BY <1>1 DEF CompositionTyped, CompositionType
    <3> HIDE DEF live, after
    <3> QED BY <3>1, <3>2, <3>3 DEF Proceed, Become
  <2> QED BY <1>3, <2>1 DEF RunLost
<1> QED BY <1>2, <1>3

LEMMA EditRespects ==
  ASSUME TInv, TInv', NEW D \in Docs, Settling(D), Marks(shown, text), NEW d \in Docs, RunEdit(d)
  PROVE  Respects(shown, text, shown', text')
<1> DEFINE x == Head(queue[d])
           U == InUse(Now, composition.epoch, shown.epoch, D)
           p == text[d]
<1>1. /\ Standing(nextEpoch, segments, U, shown, ranges, text, D)
      /\ text \in [Docs -> Seq(PieceType)] /\ shown.epoch \in Nat
      /\ Scene(Now, composition.epoch, shown.epoch, D, 0)
      /\ DOMAIN segments \subseteq 1..(nextEpoch - 1) /\ nextEpoch \in Nat
  BY EditStart
<1>2. CanRun(d) /\ queue[d] # <<>> BY DEF RunEdit, RunOpen, RunShow, RunApply, RunCommit,
        RunDiscard, RunSeal, RunLost, RunErase, RunInsert, RunWrite, Taken, CanRun
<1>3. /\ x \in QueuedEdits(nextEpoch)
      /\ x.epoch # 0 => d = D /\ shown.epoch \in {0, x.epoch} /\ x.epoch \in 1..(nextEpoch - 1)
                        /\ InQueue(queue[D], x.epoch)
  BY <1>1, <1>2, PopHead
<1> HIDE DEF x
<1>4. p \in Seq(PieceType) /\ \A c \in Docs : Marked(text[c], shown.epoch) BY <1>1 DEF Marks
<1>5. \A c \in Docs : Marked(text[c], 0) BY <1>4 DEF Marked, IsTouched
<1>6. Now.composition.buffer.entries \in Seq(Entry) BY FineNow, FineParts
<1>7. Now'.composition.buffer.entries \in Seq(Entry) BY FineAfter, FineParts
<1>8. CASE text' = text /\ shown' \in {shown, NotShown}
  BY <1>1, <1>8, RespectsSame DEF NotShown
<1>9. ASSUME RunShow(d) PROVE Respects(shown, text, shown', text')
  <2> DEFINE chars == IF Live(x.epoch) THEN Shown(composition.buffer, immediate) ELSE x.ended
  <2>1. x.do = "show" /\ Render(d, x.epoch, chars) BY <1>9 DEF RunShow, Taken, x
  <2>2. x.epoch # 0 /\ x.ended \in Seq(Letter) BY <1>1, <1>3, <2>1, EditParts
  <2>3. chars \in Seq(Letter) BY <1>6, <2>2, ShownType DEF Now
  <2> HIDE DEF chars
  <2> QED BY <1>3, <2>1, <2>2, <2>3, RenderRespects
<1>10. ASSUME RunApply(d) \/ RunLost(d) PROVE Respects(shown, text, shown', text')
  <2> DEFINE chars == Shown(composition'.buffer, immediate)
  <2>1. CASE text' = text /\ shown' = shown BY <1>8, <2>1
  <2>2. CASE Render(d, x.epoch, chars)
    <3>1. x.do \in {"apply", "lost"} BY <1>10 DEF RunApply, RunLost, Taken, x
    <3>2. x.epoch # 0 BY <1>1, <1>3, <3>1, EditParts
    <3>3. chars \in Seq(Letter) BY <1>7, ShownType DEF Now
    <3> HIDE DEF chars
    <3> QED BY <1>3, <2>2, <3>2, <3>3, RenderRespects
  <2> QED BY <1>10, <2>1, <2>2, ResultDraws DEF x
<1>13. ASSUME RunDiscard(d) PROVE Respects(shown, text, shown', text')
  <2> DEFINE r == Rewritten(p, x.epoch, <<>>)
  <2>1. CASE shown.epoch # x.epoch
    BY <1>8, <1>13, <2>1 DEF RunDiscard, Drop, x
  <2>2. CASE shown.epoch = x.epoch
    <3>1. text' = [text EXCEPT ![d] = r] /\ shown' = NotShown
      BY <1>13, <2>2 DEF RunDiscard, Drop, x
    <3>2. \A i \in 1..Len(p) : p[i].epoch = x.epoch => ~IsTouched(p[i]) BY <1>4, <2>2 DEF Marked
    <3>3. <<>> \in Seq(Letter) /\ NotShown.epoch = 0 /\ x.epoch \in Nat BY <1>1, <2>2 DEF NotShown
    <3> HIDE DEF p
    <3>4. Marked(r, 0) /\ Stays(p, r) BY <1>4, <1>5, <3>2, <3>3, MarkedRewritten DEF p
    <3> HIDE DEF r
    <3>5. Respects(shown, text, NotShown, [text EXCEPT ![d] = r])
      BY <1>1, <1>5, <3>3, <3>4, RespectsOne DEF p
    <3> QED BY <3>1, <3>5
  <2> QED BY <2>1, <2>2
<1>14. ASSUME RunErase(d) PROVE Respects(shown, text, shown', text')
  <2> DEFINE r == Erased(p, Len(p), 1)
  <2>1. CASE text' = text BY <1>8, <1>14, <2>1 DEF RunErase
  <2>2. CASE text' = [text EXCEPT ![d] = r]
    <3>1. Len(p) \in 0..Len(p) BY <1>4
    <3>2. shown' = shown BY <1>14 DEF RunErase
    <3> HIDE DEF p
    <3>3. Marked(r, shown.epoch) /\ Stays(p, r) BY <1>4, <3>1, MarkedErased DEF p
    <3> HIDE DEF r
    <3>4. Respects(shown, text, shown, [text EXCEPT ![d] = r])
      BY <1>1, <1>4, <3>3, RespectsOne DEF p
    <3> QED BY <2>2, <3>2, <3>4
  <2> QED BY <1>14, <2>1, <2>2 DEF RunErase
<1>15. ASSUME RunInsert(d) PROVE Respects(shown, text, shown', text')
  <2> DEFINE piece == Piece(0, <<Typed>>)
             r == Append(p, piece)
  <2>1. text' = [text EXCEPT ![d] = r] /\ shown' = shown BY <1>15 DEF RunInsert
  <2>2. piece \in PieceType /\ piece.epoch = 0 BY TypedCharacter DEF Piece, PieceType
  <2> HIDE DEF piece, p
  <2>3. Marked(r, shown.epoch) /\ Stays(p, r) BY <1>4, <2>2, MarkedAppended DEF p
  <2> HIDE DEF r
  <2>4. Respects(shown, text, shown, [text EXCEPT ![d] = r])
    BY <1>1, <1>4, <2>3, RespectsOne DEF p
  <2> QED BY <2>1, <2>4
<1>16. ASSUME RunWrite(d) PROVE Respects(shown, text, shown', text')
  <2>1. CASE text' = text BY <1>8, <1>16, <2>1 DEF RunWrite
  <2>2. CASE text' # text
    <3>1. PICK e \in Writable(d) : Untouched(d, e) /\ text' = [text EXCEPT ![d] = Written(@, e, segments[e])]
      BY <1>16, <2>2 DEF RunWrite
    <3> DEFINE s == segments[e]
               chars == SealedText(s)
               q == Rewritten(p, e, chars)
               n == PieceOf(p, e) - 1
               r == Written(p, e, s)
    <3>2. e \in DOMAIN segments /\ s.doc = d /\ e \in ranges /\ CharsOf(p, e) = s.shown /\ e \in Nat \ {0}
      BY <1>1, <3>1 DEF Writable, SegmentsOf, Untouched
    <3>3. s \in SegmentType BY <3>2 DEF TInv, Typed1, Now
    <3>4. PiecesOf(p, e) # {} BY <1>1, <3>2 DEF Standing
    <3>5. PieceOf(p, e) \in 1..Len(p) BY <1>4, <3>4, PieceFound
    <3>6. /\ s.shown \in Seq(Letter) /\ s.buffer.entries \in Seq(Entry) /\ s.erased \in Nat
      BY <3>3, SegmentParts DEF Buffer
    <3> HIDE DEF p, s
    <3>7. chars \in Seq(Letter) /\ ErasesBefore(s) \in Nat
      <4> DEFINE z == SubSeq(s.buffer.entries, 1, Kept(s))
      <4>1. Kept(s) \in 0..Len(s.buffer.entries) /\ ErasesBefore(s) \in Nat
        BY <3>6 DEF ErasesBefore, Kept, Length
      <4>2. z \in Seq(Entry) BY <3>6, <4>1
      <4> HIDE DEF z
      <4> QED BY <4>1, <4>2, TextType DEF SealedText, z
    <3>8. \A i \in 1..Len(p) : p[i].epoch = e => ~IsTouched(p[i])
      <4> SUFFICES ASSUME NEW i \in 1..Len(p), p[i].epoch = e PROVE ~IsTouched(p[i]) OBVIOUS
      <4>1. CharsOf(p, e) = p[i].chars BY <1>4, <3>2, PieceFound DEF Marked, p
      <4>2. ~IsTouched(Piece(e, p[i].chars)) BY <3>2, <3>6, <4>1, LettersUntouched
      <4> QED BY <4>2 DEF IsTouched, Piece
    <3> HIDE DEF chars
    <3>9. /\ Marked(q, shown.epoch) /\ \A i \in 1..Len(p) : IsTouched(p[i]) => q[i] = p[i]
      BY <1>4, <3>2, <3>7, <3>8, MarkedRewritten DEF p
    <3>10. SameEpochs(p, q) BY <1>4, <3>2, <3>7, LetterText, RewrittenSame
    <3>11. r = Erased(q, n, ErasesBefore(s)) BY DEF Written, chars
    <3> HIDE DEF q, r
    <3>12. q \in Seq(PieceType) /\ Len(q) = Len(p) /\ n \in 0..Len(q) BY <3>5, <3>10 DEF SameEpochs
    <3>13. Marked(r, shown.epoch) /\ Stays(q, r) BY <3>7, <3>9, <3>11, <3>12, MarkedErased
    <3>14. Stays(p, r) BY <3>9, <3>12, <3>13 DEF Stays
    <3>15. text' = [text EXCEPT ![d] = r] /\ shown' = shown BY <1>16, <3>1 DEF RunWrite, r, p, s
    <3>16. Respects(shown, text, shown, [text EXCEPT ![d] = r])
      BY <1>1, <1>4, <3>13, <3>14, RespectsOne DEF p
    <3> QED BY <3>15, <3>16
  <2> QED BY <2>1, <2>2
<1>17. ASSUME RunOpen(d) \/ RunCommit(d) \/ RunSeal(d) PROVE Respects(shown, text, shown', text')
  BY <1>8, <1>17 DEF RunOpen, RunCommit, RunSeal, Drop, screen
<1> QED BY <1>9, <1>10, <1>13, <1>14, <1>15, <1>16, <1>17 DEF RunEdit

\* What the user changed is left as it is by every step, but for what is erased.
LEMMA NextRespects ==
  ASSUME TInv, TInv', NEW D \in Docs, Settling(D), Marks(shown, text), [Next]_vars
  PROVE  /\ Marks(shown', text')
         /\ docs' = docs => \A d \in Docs : Stays(text[d], text'[d])
<1>1. /\ Standing(nextEpoch, segments, InUse(Now, composition.epoch, shown.epoch, D),
                  shown, ranges, text, D)
      /\ text \in [Docs -> Seq(PieceType)] /\ DOMAIN segments \subseteq 1..(nextEpoch - 1)
  BY EditStart
<1>2. CASE text' = text /\ shown' \in {shown, NotShown}
  BY <1>1, <1>2, RespectsSame DEF NotShown, Respects
<1>3. ASSUME NEW d \in Docs, RunEdit(d) PROVE Respects(shown, text, shown', text')
  BY <1>3, EditRespects
<1>4. ASSUME NEW d \in Docs, Typing(d) \/ Choosing(d) PROVE text' = text /\ shown' = shown
  BY <1>4, KeyCalls DEF KeyCalled
<1>5. ASSUME NEW d \in Docs, NEW e \in ranges, UserEdits(d, e)
      PROVE  Respects(shown, text, shown', text')
  <2> DEFINE p == text[d]
             r == Rewritten(p, e, <<Typed>> \o Tail(CharsOf(p, e)))
  <2>1. text' = [text EXCEPT ![d] = r] /\ shown' = shown /\ CharsOf(p, e) # <<>>
    BY <1>5 DEF UserEdits
  <2>2. e \in Nat \ {0} /\ e # shown.epoch BY <1>1 DEF Standing, NotShown
  <2>3. p \in Seq(PieceType) /\ \A c \in Docs : Marked(text[c], shown.epoch) BY <1>1 DEF Marks
  <2> HIDE DEF p
  <2>4. Marked(r, shown.epoch) /\ Stays(p, r) BY <2>1, <2>2, <2>3, MarkedTouched DEF p
  <2> HIDE DEF r
  <2>5. Respects(shown, text, shown, [text EXCEPT ![d] = r])
    BY <1>1, <2>3, <2>4, RespectsOne DEF p
  <2> QED BY <2>1, <2>5
<1>6. ASSUME NEW d \in Docs, CloseDocument(d) PROVE Marks(shown', text') /\ docs' # docs
  <2>1. docs' # docs BY <1>6 DEF CloseDocument
  <2>2. \A c \in Docs : text'[c] = IF c = d THEN <<>> ELSE text[c] BY <1>1, <1>6 DEF CloseDocument
  <2>3. shown'.epoch \in {0, shown.epoch} BY <1>6 DEF CloseDocument, NotShown
  <2> QED BY <2>1, <2>2, <2>3 DEF Marks, Marked, IsTouched
<1>7. ASSUME NEW d \in Docs, LeaveOtherDocument(d) PROVE text' = text /\ shown' = shown
  BY <1>7 DEF LeaveOtherDocument, screen
<1>8. CASE AfterKey \/ ChangeSetting \/ Terminate \/ EndTermination \/ Deactivate \/ Stop
  BY <1>2, <1>8 DEF AfterKey, ChangeSetting, Terminate, EndTermination, Deactivate, Stop, screen
<1>9. ASSUME NEW sequence \in DOMAIN tracker.pending, Backend(sequence)
      PROVE  text' = text /\ shown' = shown
  BY <1>9 DEF Backend, Answer, Supersede, Lose, screen
<1>10. CASE UNCHANGED vars BY <1>2, <1>10 DEF vars, screen
<1> QED BY <1>2, <1>3, <1>4, <1>5, <1>6, <1>7, <1>8, <1>9, <1>10 DEF Next, Host, Respects

-----------------------------------------------------------------------------
(***************************************************************************)
(* The two promises                                                        *)
(***************************************************************************)
LEMMA InitTyped == Init => TInv
<1> SUFFICES ASSUME Init PROVE TInv OBVIOUS
<1>1. SInv BY InitInv, InitSound DEF SInv
<1>2. /\ Now.composition = NoComposition /\ Now.tracker = NoRequests /\ Now.nextEpoch = 1
      /\ Now.segments = <<>> /\ Now.queue = [d \in Docs |-> <<>>] /\ Now.connected = TRUE
      /\ Now.owed = [d \in Docs |-> [k \in 1..PreviousText |-> 0]]
  BY DEF Now, Init, NoSegments
<1>3. CompositionTyped(NoComposition) BY EmptyTyped DEF NoComposition
<1>4. NoRequests.pending = <<>> /\ DOMAIN <<>> = {} BY DEF NoRequests
<1>5. Now.owed \in [Docs -> Seq(Nat)]
  BY BoundsAssumption, <1>2
<1>6. Now.queue \in [Docs -> Seq(QueuedEdits(Now.nextEpoch))]
  BY <1>2
<1>7. Typed1(Now) BY <1>2, <1>3, <1>4, <1>5, <1>6 DEF Typed1
<1> QED BY <1>1, <1>7 DEF TInv

LEMMA InitScr == Init => Scr
<1> SUFFICES ASSUME Init PROVE Scr OBVIOUS
<1>1. calls \in Use BY UsesAssumption DEF Init
<1>2. immediate \in BOOLEAN BY <1>1 DEF Init, Use
<1> QED BY <1>1, <1>2 DEF Init, Scr

LEMMA InitSettles == ASSUME Init, NEW D \in Docs PROVE Settling(D)
<1>1. /\ Now.composition.epoch = 0 /\ Now.tracker.pending = <<>> /\ Now.nextEpoch = 1
      /\ Now.segments = <<>> /\ \A d \in Docs : Now.queue[d] = <<>>
      /\ shown = NotShown /\ shown.epoch = 0 /\ ranges = {} /\ busy.call = "none"
  BY DEF Now, Init, NoSegments, NoRequests, NoComposition, NewComposition, NotShown, NotBusy, Busy
<1>2. Staged(Now, 0, D, 0)
  BY <1>1, FlowEmpty DEF Scene, Has, Opened, Staged
<1>3. text \in [Docs -> Seq(PieceType)] /\ \A d \in Docs : \A i \in 1..Len(text[d]) : text[d][i].epoch = 0
  <2> DEFINE chars == [k \in 1..PreviousText |-> <<"typed", 0, 0, k>>]
             p == Piece(0, chars)
  <2>1. \A k \in 1..PreviousText : <<"typed", 0, 0, k>> \in Character
    BY BoundsAssumption DEF Character
  <2>2. chars \in Seq(Character) BY <2>1, BoundsAssumption
  <2>3. text = [d \in Docs |-> <<p>>] BY DEF Init
  <2> HIDE DEF chars
  <2>4. p \in PieceType /\ p.epoch = 0 BY <2>2 DEF Piece, PieceType
  <2> HIDE DEF p
  <2>5. <<p>> \in Seq(PieceType) /\ Len(<<p>>) = 1 /\ <<p>>[1] = p BY <2>4
  <2> QED BY <2>3, <2>4, <2>5
<1>4. Standing(Now.nextEpoch, Now.segments, InUse(Now, Now.composition.epoch, 0, D),
               shown, ranges, text, D)
  <2> DEFINE U == InUse(Now, Now.composition.epoch, 0, D)
  <2>1. U = {} BY <1>1 DEF InUse
  <2> HIDE DEF U
  <2>2. Standing(1, <<>>, U, NotShown, {}, text, D) BY <1>3, <2>1 DEF Standing
  <2> QED BY <1>1, <2>2 DEF U
<1>5. SettledIn(Now, shown, ranges, text, immediate, D)
  BY <1>1, <1>2, <1>4 DEF SettledIn, Drawn, ToShow
<1>6. BusyOK(D) BY <1>1 DEF BusyOK
<1> QED BY <1>5, <1>6 DEF Settling

LEMMA InitMarks == Init => Marks(shown, text)
<1> SUFFICES ASSUME Init, NEW d \in Docs PROVE Marked(text[d], 0)
  BY DEF Marks, Init, NotShown
<1> DEFINE p == Piece(0, [k \in 1..PreviousText |-> <<"typed", 0, 0, k>>])
<1>1. text[d] = <<p>> BY DEF Init
<1>2. p.epoch = 0 BY DEF Piece
<1> HIDE DEF p
<1>3. Len(<<p>>) = 1 /\ <<p>>[1] = p OBVIOUS
<1> QED BY <1>1, <1>2, <1>3 DEF Marked, IsTouched

\* The invariant: the types, and in the uses where it holds, what the documents and
\* the controller have in common.
Together(D) == Settling(D) /\ Marks(shown, text)

WInv == TInv /\ Scr /\ (Undisturbed => \E D \in Docs : Alone(D) /\ Together(D))

LEMMA InitWhole == Init => WInv
BY InitTyped, InitScr, InitSettles, InitMarks DEF WInv, Undisturbed, Together

LEMMA UseKept ==
  ASSUME Scr, [Next]_vars
  PROVE  /\ \A D : Alone(D)' <=> Alone(D)
         /\ Undisturbed' <=> Undisturbed
<1>1. \A D : Alone(D)' <=> Alone(D) BY UseStays DEF Scr, Alone
<1> QED BY <1>1 DEF Undisturbed

LEMMA NextWhole == WInv /\ [Next]_vars => WInv'
<1> SUFFICES ASSUME WInv, [Next]_vars PROVE WInv' OBVIOUS
<1>1. TInv' /\ Scr' BY NextTyped, NextScr DEF WInv
<1>2. \A D : Alone(D)' <=> Alone(D) BY UseKept DEF WInv
<1>3. ASSUME Undisturbed' PROVE \E D \in Docs : Alone(D)' /\ Together(D)'
  <2>1. Undisturbed BY <1>3, UseKept DEF WInv
  <2>2. PICK D \in Docs : Alone(D) /\ Together(D) BY <2>1 DEF WInv
  <2>3. PICK E \in Docs : Alone(E) /\ Settling(E)' BY <1>1, <2>2, NextSettles DEF WInv, Together
  <2>4. Marks(shown', text') BY <1>1, <2>2, NextRespects DEF WInv, Together
  <2> QED BY <1>2, <2>3, <2>4 DEF Together
<1> QED BY <1>1, <1>3 DEF WInv

LEMMA SettledBooks ==
  ASSUME TInv, Scr, NEW D \in Docs, Settling(D)
  PROVE  Bookkeeping
<1>1. Fine(Now, TRUE) BY FineNow
<1>2. /\ Now.composition = composition /\ Now.nextEpoch = nextEpoch /\ Now.tracker = tracker
      /\ Now.segments = segments /\ Now.connected = connected /\ Now.queue = queue /\ Now.owed = owed
  BY DEF Now
<1>3. /\ CompositionTyped(composition) /\ BufferOK(composition.buffer) /\ nextEpoch \in Nat \ {0}
  BY <1>1, <1>2, FineParts
<1>4. Cardinality(composition.held) <= 1
  <2>1. CASE composition.held = {}
    BY <2>1, FS_EmptySet
  <2>2. CASE composition.held # {}
    <3>1. PICK h : h \in composition.held BY <2>2
    <3>2. composition.held = {h} BY <1>3, <3>1 DEF CompositionTyped
    <3>3. Cardinality(composition.held) = 1 BY <3>2, FS_Singleton
    <3> QED BY <3>3
  <2> QED BY <2>1, <2>2
<1>5. /\ DOMAIN tracker.pending \subseteq 1..tracker.sequence
      /\ \A s \in DOMAIN tracker.pending : tracker.pending[s] \in RequestType
      /\ DOMAIN segments \subseteq 1..(nextEpoch - 1)
      /\ \A e \in DOMAIN segments : segments[e] \in SegmentType
      /\ connected \in BOOLEAN /\ owed \in [Docs -> Seq(Nat)]
  BY <1>1, <1>2, FineMore DEF Fine, Good, Counted, Numbered, Typed1, RequestOK
<1>6. queue \in [Docs -> Seq(EditType)]
  <2>1. queue \in [Docs -> Seq(QueuedEdits(nextEpoch))] BY <1>1, <1>2 DEF Fine, Typed1
  <2>2. QueuedEdits(nextEpoch) \subseteq EditType BY DEF QueuedEdits
  <2> DEFINE S == QueuedEdits(nextEpoch)
             T == EditType
  <2> HIDE DEF S, T
  <2>3. Seq(S) \subseteq Seq(T) BY <2>2 DEF S, T
  <2> QED BY <2>1, <2>3 DEF S, T
<1>7. Standing(nextEpoch, segments, InUse(Now, composition.epoch, shown.epoch, D),
               shown, ranges, text, D) /\ Scene(Now, composition.epoch, shown.epoch, D, 0)
  BY EditStart
<1>8. shown \in [epoch : Nat, doc : Docs \union {NoDoc}]
  BY <1>1, ShownFacts DEF Settling, ShownIn
<1>9. ranges \subseteq 1..(nextEpoch - 1) BY <1>5, <1>7 DEF Standing
<1>10. text \in [Docs -> Seq([epoch : Nat, chars : Seq(Character)])]
  BY <1>7 DEF Standing, PieceType
<1>11. docs \subseteq Docs BY DEF Scr, Use
<1>12. TypeOK
  BY <1>3, <1>4, <1>5, <1>6, <1>8, <1>9, <1>10, <1>11 DEF TypeOK, CompositionTyped, BufferOK, Scr
<1>13. ContextStillQueued
  BY <1>3, <1>5, <1>2, <1>7 DEF ContextStillQueued, Scene, Has
<1> QED BY <1>12, <1>13 DEF Bookkeeping

LEMMA SettledScreen ==
  ASSUME TInv, NEW D \in Docs, Settling(D)
  PROVE  ScreenMatches
<1> SUFFICES ASSUME Idle, Active, queue[composition.doc] = <<>>
             PROVE  /\ shown = [epoch |-> composition.epoch, doc |-> composition.doc]
                    /\ CharsOf(text[composition.doc], composition.epoch)
                         = Shown(composition.buffer, immediate)
  BY DEF ScreenMatches
<1>1. Opened(Now, D, 0) /\ Drawn(Now, shown, text, immediate, D) BY EditStart
<1>2. Now.composition = composition /\ Now.queue = queue BY DEF Now
<1>3. composition.epoch # 0 /\ composition.doc = D BY <1>1, <1>2 DEF Active, Opened
<1>4. ~ToShow(Now, D) BY <1>2, <1>3 DEF ToShow, ShowQueued
<1> QED BY <1>1, <1>2, <1>3, <1>4 DEF Drawn

\* In an undisturbed use the controller, the tracker, the segments and the
\* documents' queues are always what their C++ counterparts can be and agree with
\* each other; and a segment sealed before the text in front of it was read
\* (CompositionController::seal, with the opening edit not granted yet) still has it
\* in the queue of its document, so it does not wait for ever.
THEOREM BooksAlwaysKept == Spec => [](Undisturbed => Bookkeeping)
<1>1. WInv => (Undisturbed => Bookkeeping) BY SettledBooks DEF WInv, Together
<1> QED BY <1>1, InitWhole, NextWhole, PTL DEF Spec

\* Between two calls, with no edit left to grant, the host shows the composition
\* that is open, and it reads what the buffer says: no edit is lost, overtaken or
\* granted to the wrong composition on the way from the controller to the document.
THEOREM ScreenAlwaysMatches == Spec => [](Undisturbed => ScreenMatches)
<1>1. WInv => (Undisturbed => ScreenMatches) BY SettledScreen DEF WInv, Together
<1> QED BY <1>1, InitWhole, NextWhole, PTL DEF Spec

\* In an undisturbed use, text of a composition that the user has changed is not
\* written over by the composition's own edits nor by the write of its conversion
\* (SealedText's edit compares what is shown before it writes); a Backspace can still
\* take characters from its end.
THEOREM ChangedTextAlwaysStays == Spec /\ Undisturbed => TouchedTextStays
<1>1. Init /\ Undisturbed => WInv /\ Undisturbed BY InitWhole
<1>2. WInv /\ Undisturbed /\ [Next]_vars => (WInv /\ Undisturbed)'
  BY NextWhole, UseKept DEF WInv
<1>3. WInv /\ Undisturbed /\ [Next]_vars =>
        [\A d \in Docs : \A i \in DOMAIN text[d] :
           (IsTouched(text[d][i]) /\ docs' = docs) =>
             IsPrefix(text'[d][i].chars, text[d][i].chars)]_vars
  <2> SUFFICES ASSUME WInv, Undisturbed, [Next]_vars, NEW d \in Docs, NEW i \in DOMAIN text[d],
                      IsTouched(text[d][i]), docs' = docs
               PROVE  IsPrefix(text'[d][i].chars, text[d][i].chars)
    OBVIOUS
  <2>1. PICK D \in Docs : Alone(D) /\ Together(D) BY DEF WInv
  <2>2. TInv' BY NextTyped DEF WInv
  <2>3. Stays(text[d], text'[d]) BY <2>1, <2>2, NextRespects DEF WInv, Together
  <2>4. text \in [Docs -> Seq(PieceType)] BY <2>1, EditStart DEF WInv, Together
  <2>5. DOMAIN text[d] = 1..Len(text[d]) BY <2>4
  <2> QED BY <2>3, <2>5 DEF Stays
<1> QED BY <1>1, <1>2, <1>3, PTL DEF Spec, TouchedTextStays
=============================================================================
