--------------------------- MODULE LoggingProofs ----------------------------
(***************************************************************************)
(* The queue of the logger hands each cell to one thread at a time         *)
(* (QueueAlwaysHolds), and what the debugger's window shows is true        *)
(* (WindowIsAlwaysTrue), for any number of threads, any capacity of two    *)
(* cells or more, any number of connections, and whatever the logger, the  *)
(* debugger and the pipe between them do.                                  *)
(*                                                                         *)
(* The queue.  A lap is the Capacity positions from the oldest one the     *)
(* worker has not freed: each has a cell to itself, and the cell's         *)
(* sequence tells whether its position holds a message (CellsInTurn).  The *)
(* pusher that sees its position's own number in the cell therefore knows  *)
(* that the position is in the lap, and if it is still the next one, that  *)
(* nobody has it.                                                          *)
(*                                                                         *)
(* The window.  A message is on its way from its thread's call through the *)
(* queue, the worker, its connection's pipe and the window's queue to the  *)
(* text.  On each of these a thread's messages stand in the order it       *)
(* logged them, and those further along before those behind (Before, Sent, *)
(* Ordered).  Every refused message is counted once, by the logger, by the *)
(* worker that owes a report or in a report on the way (NoMore), and the   *)
(* reports ahead of a message count all that its thread was refused before *)
(* it (ToldOK, OwesWhat).                                                  *)
(***************************************************************************)
EXTENDS LoggingProperties, WellFoundedInduction, FiniteSetTheorems, TLAPS

-----------------------------------------------------------------------------
(***************************************************************************)
(* Induction on numbers, in the form of the least element of a set.        *)
(***************************************************************************)
\* A set of numbers that is not empty has a least one.
LEMMA LeastNumber ==
  ASSUME NEW T, T \subseteq Nat, T # {}
  PROVE  \E x \in T : \A y \in T : x <= y
<1>1. IsWellFoundedOn(OpToRel(<, Nat), Nat) BY NatLessThanWellFounded
<1>2. PICK x \in T : \A y \in T : ~(<<y, x>> \in OpToRel(<, Nat)) BY <1>1, WFMin
<1>3. \A y \in T : ~(y < x) BY <1>2 DEF OpToRel
<1> QED BY <1>3

\* Induction over a set of numbers: it has all of them up to n if it has 0 and
\* with each number the next.
LEMMA UpTo ==
  ASSUME NEW n \in Nat, NEW Good, 0 \in Good,
         \A i \in 0..n : i \in Good /\ i # n => i + 1 \in Good
  PROVE  \A i \in 0..n : i \in Good
<1> DEFINE Bad == {i \in Nat : i <= n /\ i \notin Good}
<1> SUFFICES ASSUME Bad # {} PROVE FALSE
  OBVIOUS
<1>1. Bad \subseteq Nat OBVIOUS
<1>2. PICK x \in Bad : \A y \in Bad : x <= y
  <2> HIDE DEF Bad
  <2> QED BY <1>1, LeastNumber
<1>3. x \in 0..n /\ x \notin Good /\ x # 0 BY <1>2
<1>4. x - 1 \in 0..n /\ x - 1 # n /\ x - 1 + 1 = x BY <1>3
<1>5. x - 1 \in Good BY <1>2, <1>4
<1> QED BY <1>3, <1>4, <1>5

\* f begins with start and goes on with step.
Follows(f, V, start, n, step) ==
  f \in [0..n -> V] /\ f[0] = start /\ \A i \in 1..n : f[i] = step[i][f[i - 1]]

\* A value and a step from each value to the next define a function.
LEMMA Recursion ==
  ASSUME NEW V, NEW start \in V, NEW n \in Nat,
         NEW step, step \in [1..n -> [V -> V]]
  PROVE  \E f : Follows(f, V, start, n, step)
<1> DEFINE Good == {m \in 0..n : \E f : Follows(f, V, start, m, step)}
<1>1. 0 \in Good
  <2> DEFINE f == [i \in 0..0 |-> start]
  <2>1. Follows(f, V, start, 0, step) /\ 0 \in 0..n BY DEF Follows
  <2> HIDE DEF f
  <2> QED BY <2>1
<1>2. ASSUME NEW m \in 0..n, m \in Good, m # n PROVE m + 1 \in Good
  <2>1. PICK f : Follows(f, V, start, m, step)
    BY <1>2
  <2> DEFINE g == [i \in 0..(m + 1) |-> IF i = m + 1 THEN step[m + 1][f[m]] ELSE f[i]]
  <2>2. m + 1 \in 1..n /\ m + 1 \in 0..n BY <1>2
  <2>3. step[m + 1][f[m]] \in V BY <2>1, <2>2 DEF Follows
  <2>4. g \in [0..(m + 1) -> V] BY <2>1, <2>3 DEF Follows
  <2>5. g[0] = start BY <2>1 DEF Follows
  <2>6. ASSUME NEW i \in 1..(m + 1) PROVE g[i] = step[i][g[i - 1]]
    BY <2>1 DEF Follows
  <2>7. Follows(g, V, start, m + 1, step) BY <2>4, <2>5, <2>6 DEF Follows
  <2> HIDE DEF g
  <2> QED BY <2>2, <2>7
<1>3. \A i \in 0..n : i \in Good
  <2> HIDE DEF Good
  <2> QED BY <1>1, <1>2, UpTo
<1>4. n \in Good BY <1>3
<1> QED BY <1>4

-----------------------------------------------------------------------------
(***************************************************************************)
(* The queue                                                               *)
(***************************************************************************)
Message == [thread : Threads \union {Nothing.thread}, number : Nat]

Push == [at : {"idle", "read", "claim", "publish", "signal", "refused"},
         position : Nat, message : Message]

Typed ==
  /\ cells \in [0..Capacity - 1 -> [sequence : Int, value : Message]]
  /\ enqueued \in Nat
  /\ dequeued \in Nat
  /\ pushes \in [Threads -> Push]
  /\ logged \in [Threads -> Nat]
  /\ worker = [at |-> worker.at, message |-> worker.message, drops |-> worker.drops]

\* The worker has taken a message and not yet freed its cell.
Owning == worker.at \in {"freeing", "emptying"}

\* The oldest position whose cell is not free for the next lap.
Oldest == IF Owning THEN dequeued - 1 ELSE dequeued

Lap == Oldest..Oldest + Capacity - 1

Ends == 0 <= Oldest /\ dequeued <= enqueued /\ enqueued <= Oldest + Capacity

CellsInTurn ==
  \A p \in Lap : Turn(p) = IF p < enqueued /\ Claimed(p) = {} THEN p + 1 ELSE p

ClaimsApart ==
  /\ \A t \in Threads : pushes[t].at = "publish" => pushes[t].position \in Positions
  /\ \A s, t \in Threads : pushes[s].at = "publish" /\ pushes[t].at = "publish"
                             /\ pushes[s].position = pushes[t].position => s = t

\* Nobody looks past the next position, and who is about to claim it has seen
\* its cell free.
ClaimsFree ==
  \A t \in Threads :
    /\ pushes[t].at \in {"read", "claim"} => pushes[t].position <= enqueued
    /\ pushes[t].at = "claim" /\ pushes[t].position = enqueued => enqueued < Oldest + Capacity

Value(p) == cells[p % Capacity].value

Holds(p) == Turn(p) = p + 1

\* The calls that have a message on its way to a cell, or to being refused.
Carrying(t) == pushes[t].at \in {"read", "claim", "publish", "refused"}

Carried ==
  \A t \in Threads : Carrying(t) =>
    pushes[t].message.thread = t /\ pushes[t].message.number = logged[t]

\* The messages in the queue were logged, before those on their way.
Older ==
  \A p \in Positions, m \in Message : Holds(p) /\ m = Value(p) =>
    /\ m.thread \in Threads
    /\ m.number <= logged[m.thread]
    /\ Carrying(m.thread) => m.number < logged[m.thread]
    /\ pushes[m.thread].at = "publish" => p < pushes[m.thread].position

InOrder ==
  \A p, q \in Positions : p < q /\ Holds(p) /\ Holds(q) =>
    (Value(p).thread = Value(q).thread => Value(p).number < Value(q).number)

TakenIsMessage ==
  worker.at \in {"freeing", "counting", "reporting", "writing"} => worker.message.thread \in Threads

IInv ==
  /\ Typed /\ Ends /\ CellsInTurn /\ ClaimsApart /\ ClaimsFree
  /\ Carried /\ Older /\ InOrder /\ TakenIsMessage

-----------------------------------------------------------------------------
(***************************************************************************)
(* Positions and cells                                                     *)
(***************************************************************************)
\* Every position has a cell, and positions less than a lap apart have
\* different ones.
LEMMA CellOf ==
  ASSUME NEW p \in Int
  PROVE  p % Capacity \in 0..Capacity - 1
  BY CapacityAssumption

LEMMA DivisionOf ==
  ASSUME NEW p \in Int
  PROVE  p \div Capacity \in Int /\ p = Capacity * (p \div Capacity) + (p % Capacity)
  BY CapacityAssumption

LEMMA NoMultiple ==
  ASSUME NEW k \in Int, -Capacity < Capacity * k, Capacity * k < Capacity
  PROVE  k = 0
BY CapacityAssumption

LEMMA Apart ==
  ASSUME NEW p \in Int, NEW q \in Int, p < q, q < p + Capacity
  PROVE  p % Capacity # q % Capacity
<1> SUFFICES ASSUME p % Capacity = q % Capacity PROVE FALSE
  OBVIOUS
<1> DEFINE a == p \div Capacity  b == q \div Capacity  r == p % Capacity
<1>1. a \in Int /\ b \in Int /\ r \in Int /\ p = Capacity * a + r /\ q = Capacity * b + r
  BY DivisionOf, CellOf
<1> HIDE DEF a, b, r
<1>2. q - p = Capacity * (b - a)
  BY <1>1, CapacityAssumption
<1>3. b - a = 0
  BY <1>1, <1>2, NoMultiple, CapacityAssumption
<1> QED BY <1>1, <1>3

LEMMA NextLap ==
  ASSUME NEW p \in Int
  PROVE  (p + Capacity) % Capacity = p % Capacity
<1> DEFINE a == p \div Capacity  r == p % Capacity
           b == (p + Capacity) \div Capacity  s == (p + Capacity) % Capacity
<1>1. a \in Int /\ r \in 0..Capacity - 1 /\ p = Capacity * a + r
  BY DivisionOf, CellOf
<1>2. p + Capacity \in Int
  BY CapacityAssumption
<1>3. b \in Int /\ s \in 0..Capacity - 1 /\ p + Capacity = Capacity * b + s
  BY <1>2, DivisionOf, CellOf
<1> HIDE DEF a, b, r, s
<1>4. s - r = Capacity * (a + 1 - b)
  BY <1>1, <1>3, CapacityAssumption
<1>5. a + 1 - b = 0
  BY <1>1, <1>3, <1>4, NoMultiple, CapacityAssumption
<1>6. s = r
  BY <1>1, <1>3, <1>4, <1>5, CapacityAssumption
<1> QED BY <1>6 DEF r, s

LEMMA FirstLap ==
  ASSUME NEW p \in 0..Capacity - 1
  PROVE  p % Capacity = p
<1> DEFINE a == p \div Capacity  r == p % Capacity
<1>1. a \in Int /\ r \in 0..Capacity - 1 /\ p = Capacity * a + r
  BY DivisionOf, CellOf
<1> HIDE DEF a, r
<1>2. a = 0
  BY <1>1, NoMultiple, CapacityAssumption
<1>3. r = p
  BY <1>1, <1>2, CapacityAssumption
<1> QED BY <1>3 DEF r

\* What Store does to each position of a lap.
LEMMA StoreAt ==
  ASSUME Typed, NEW p \in Int, NEW n \in Int, NEW m \in Message, Store(p, n, m)
  PROVE  /\ cells' \in [0..Capacity - 1 -> [sequence : Int, value : Message]]
         /\ Turn(p)' = n
         /\ Value(p)' = m
         /\ \A q \in Int : (q < p /\ p < q + Capacity) \/ (p < q /\ q < p + Capacity) =>
              Turn(q)' = Turn(q) /\ Value(q)' = Value(q)
<1> DEFINE i == p % Capacity  c == [sequence |-> n, value |-> m]
<1>1. i \in 0..Capacity - 1 /\ c \in [sequence : Int, value : Message]
  BY CellOf
<1>2. cells' = [cells EXCEPT ![i] = c]
  BY DEF Store
<1>3. c.sequence = n /\ c.value = m
  OBVIOUS
<1> HIDE DEF i, c
<1>4. cells' \in [0..Capacity - 1 -> [sequence : Int, value : Message]]
  BY <1>1, <1>2 DEF Typed
<1>5. cells'[i] = c /\ \A j \in 0..Capacity - 1 : j # i => cells'[j] = cells[j]
  BY <1>1, <1>2 DEF Typed
<1>6. Turn(p)' = n /\ Value(p)' = m
  BY <1>3, <1>5 DEF Turn, Value, i
<1>7. ASSUME NEW q \in Int, (q < p /\ p < q + Capacity) \/ (p < q /\ q < p + Capacity)
      PROVE  Turn(q)' = Turn(q) /\ Value(q)' = Value(q)
  BY <1>7, CellOf, Apart, <1>5 DEF i, Turn, Value
<1> QED BY <1>4, <1>6, <1>7

LEMMA ValueTyped ==
  ASSUME Typed, NEW p \in Int PROVE Value(p) \in Message
  BY CellOf DEF Typed, Value

\* The claims of a position, counted.
LEMMA OneClaim ==
  ASSUME IInv, NEW p \in Positions
  PROVE  IF Holds(p) THEN Claimed(p) = {} ELSE Cardinality(Claimed(p)) = 1
<1>1. p \in Lap
  BY CapacityAssumption DEF IInv, Typed, Ends, Positions, Lap, Oldest
<1>2. Holds(p) <=> Claimed(p) = {}
  BY <1>1 DEF IInv, CellsInTurn, Holds, Positions, Typed
<1>3. ASSUME NEW t \in Claimed(p) PROVE Cardinality(Claimed(p)) = 1
  <2>1. Claimed(p) = {t}
    BY <1>3 DEF IInv, ClaimsApart, Claimed
  <2> QED BY <2>1, FS_Singleton
<1> QED BY <1>2, <1>3

LEMMA InvHolds ==
  ASSUME IInv PROVE QueueHolds
<1>1. enqueued - dequeued \in 0..Capacity
  BY CapacityAssumption DEF IInv, Typed, Ends, Oldest
<1>2. \A p \in Positions : IF Turn(p) = p + 1 THEN Claimed(p) = {} ELSE Cardinality(Claimed(p)) = 1
  BY OneClaim DEF Holds
<1>3. \A p, q \in Positions : p < q /\ Turn(p) = p + 1 /\ Turn(q) = q + 1 =>
        (Value(p).thread = Value(q).thread => Value(p).number < Value(q).number)
  BY DEF IInv, InOrder, Holds
<1> QED BY <1>1, <1>2, <1>3 DEF QueueHolds, IInv, ClaimsApart, TakenIsMessage, Value

LEMMA InitInv == Init => IInv
<1> SUFFICES ASSUME Init PROVE IInv
  OBVIOUS
<1> USE CapacityAssumption DEF Init, LoggerInit, QueueInit, Worker, NoPush, Nothing
<1>1. Nothing \in Message /\ NoPush \in Push
  BY DEF Message, Push
<1>2. Typed
  BY <1>1 DEF Typed
<1>3. Oldest = 0 /\ ~Owning /\ Positions = {} /\ \A t \in Threads : pushes[t].at = "idle"
  BY DEF Oldest, Owning, Positions
<1>4. CellsInTurn
  <2> SUFFICES ASSUME NEW p \in Lap PROVE Turn(p) = p
    BY <1>3 DEF CellsInTurn, Lap
  <2>1. p \in 0..Capacity - 1
    BY <1>3 DEF Lap
  <2>2. p % Capacity = p
    BY <2>1, FirstLap
  <2> QED BY <2>1, <2>2 DEF Turn
<1> QED BY <1>2, <1>3, <1>4 DEF IInv, Ends, ClaimsApart, ClaimsFree, Carrying, Carried, Older,
        InOrder, TakenIsMessage

-----------------------------------------------------------------------------
(***************************************************************************)
(* The steps                                                               *)
(***************************************************************************)
\* A step that leaves the queue and the calls alone.
LEMMA AsideInv ==
  ASSUME IInv, UNCHANGED <<queue, pushes, logged>>, Owning' = Owning, TakenIsMessage',
         worker' = [at |-> worker'.at, message |-> worker'.message, drops |-> worker'.drops]
  PROVE  IInv'
<1>1. Oldest' = Oldest /\ Positions' = Positions
  BY DEF Oldest, Positions, queue
<1> QED BY <1>1 DEF IInv, Typed, Ends, CellsInTurn, Lap, Turn, Claimed, ClaimsApart, ClaimsFree,
        Carrying, Carried, Older, InOrder, Holds, Value, queue

\* A call that moves between places where it owns no position.
LEMMA CallInv ==
  ASSUME IInv, UNCHANGED <<queue, worker>>, NEW t \in Threads, NEW p \in Push, Calls(t, p),
         logged' \in [Threads -> Nat],
         \A s \in Threads : s # t => logged'[s] = logged[s],
         logged'[t] >= logged[t],
         pushes[t].at # "publish", p.at # "publish",
         p.at \in {"read", "claim", "refused"} =>
           /\ p.position <= enqueued
           /\ p.message.thread = t /\ p.message.number = logged'[t]
           /\ Carrying(t) \/ logged'[t] > logged[t],
         p.at = "claim" /\ p.position = enqueued => enqueued < Oldest + Capacity
  PROVE  IInv'
<1>1. pushes' \in [Threads -> Push] /\ pushes'[t] = p
      /\ \A s \in Threads : s # t => pushes'[s] = pushes[s]
  BY DEF IInv, Typed, Calls
<1>2. Oldest' = Oldest /\ Positions' = Positions /\ Lap' = Lap
  BY DEF Oldest, Owning, Positions, Lap, queue
<1>3. \A q : Turn(q)' = Turn(q) /\ Value(q)' = Value(q) /\ Claimed(q)' = Claimed(q)
              /\ (Holds(q)' <=> Holds(q))
  BY <1>1 DEF Turn, Value, Claimed, Holds, queue
<1>4. Typed'
  BY <1>1 DEF IInv, Typed, queue
<1>5. CellsInTurn' /\ Ends'
  BY <1>2, <1>3 DEF IInv, CellsInTurn, Ends, queue
<1>6. ClaimsApart' /\ ClaimsFree'
  BY <1>1, <1>2 DEF IInv, ClaimsApart, ClaimsFree, queue
<1>7. Carried'
  BY <1>1 DEF IInv, Carried, Carrying, Push
<1>8. Older'
  <2> SUFFICES ASSUME NEW q \in Positions, NEW m \in Message, Holds(q), m = Value(q)
               PROVE  /\ m.thread \in Threads
                      /\ m.number <= logged'[m.thread]
                      /\ Carrying(m.thread)' => m.number < logged'[m.thread]
                      /\ pushes'[m.thread].at = "publish" => q < pushes'[m.thread].position
    BY <1>2, <1>3 DEF Older
  <2>1. /\ m.thread \in Threads
        /\ m.number <= logged[m.thread]
        /\ Carrying(m.thread) => m.number < logged[m.thread]
        /\ pushes[m.thread].at = "publish" => q < pushes[m.thread].position
    BY DEF IInv, Older
  <2>2. m.number \in Nat
    BY DEF Message
  <2>3. CASE m.thread = t
    BY <1>1, <2>1, <2>2, <2>3 DEF Carrying, Push, IInv, Typed
  <2>4. CASE m.thread # t
    BY <1>1, <2>1, <2>4 DEF Carrying
  <2> QED BY <2>3, <2>4
<1>9. InOrder'
  BY <1>2, <1>3 DEF IInv, InOrder
<1> QED BY <1>4, <1>5, <1>6, <1>7, <1>8, <1>9 DEF IInv, TakenIsMessage

LEMMA LogInv ==
  ASSUME IInv, NEW t \in Threads, Log(t) PROVE IInv'
<1> DEFINE p == IF logger.connected
                THEN [at |-> "read", position |-> enqueued,
                      message |-> [thread |-> t, number |-> logged'[t]]]
                ELSE pushes[t]
<1>1. logged' \in [Threads -> Nat] /\ logged'[t] = logged[t] + 1 /\ logged[t] \in Nat
      /\ \A s \in Threads : s # t => logged'[s] = logged[s]
  BY DEF Log, IInv, Typed
<1>2. p \in Push /\ p.at \in {"idle", "read"}
  BY <1>1 DEF IInv, Typed, Push, Message, Log
<1>3. Calls(t, p)
  BY DEF Log, Calls, StartPush, IInv, Typed
<1>4. p.at = "read" => p.position = enqueued /\ p.message.thread = t /\ p.message.number = logged'[t]
  BY DEF Log
<1> HIDE DEF p
<1> QED BY <1>1, <1>2, <1>3, <1>4, CallInv DEF Log, IInv, Typed

\* Who sees its position's own number in the cell sees a cell of this lap.
LEMMA LookInv ==
  ASSUME IInv, NEW t \in Threads, Look(t), UNCHANGED <<worker, logged>> PROVE IInv'
<1> DEFINE o == pushes[t]
           p == CASE Turn(o.position) = o.position -> [o EXCEPT !.at = "claim"]
                  [] Turn(o.position) < o.position -> [o EXCEPT !.at = "refused"]
                  [] OTHER                         -> [o EXCEPT !.position = enqueued]
<1>1. o \in Push /\ o.at = "read" /\ o.position <= enqueued /\ enqueued \in Nat
      /\ o.message.thread = t /\ o.message.number = logged[t]
  BY DEF IInv, Typed, Look, ClaimsFree, Carried, Carrying
<1>2. Calls(t, p)
  BY DEF Look
<1>3. /\ p \in Push
      /\ p.at \in {"read", "claim", "refused"}
      /\ p.position <= enqueued
      /\ p.message = o.message
      /\ p.at = "claim" => p.position = o.position /\ Turn(o.position) = o.position
  BY <1>1 DEF Push
<1>4. ASSUME Turn(enqueued) = enqueued PROVE enqueued < Oldest + Capacity
  <2>2. Oldest \in Int /\ enqueued \in Nat /\ enqueued <= Oldest + Capacity
    BY DEF IInv, Typed, Ends, Oldest
  <2>1. SUFFICES ASSUME enqueued = Oldest + Capacity PROVE FALSE
    BY <2>2, CapacityAssumption
  <2>3. Turn(enqueued) = Turn(Oldest)
    BY <2>1, <2>2, NextLap DEF Turn
  <2>4. Oldest \in Lap
    BY <2>2, CapacityAssumption DEF Lap
  <2>5. Turn(Oldest) \in {Oldest, Oldest + 1}
    BY <2>4 DEF IInv, CellsInTurn
  <2> QED BY <1>4, <2>1, <2>2, <2>3, <2>5, CapacityAssumption
<1> HIDE DEF o, p
<1>5. p.at = "claim" /\ p.position = enqueued => enqueued < Oldest + Capacity
  BY <1>3, <1>4
<1>6. Carrying(t) /\ pushes[t].at # "publish"
  BY <1>1 DEF Carrying, o
<1> QED BY <1>1, <1>2, <1>3, <1>5, <1>6, CallInv DEF Look, IInv, Typed

LEMMA LeaveInv ==
  ASSUME IInv, NEW t \in Threads, Signal(t) \/ Refuse(t) PROVE IInv'
<1>1. NoPush \in Push /\ NoPush.at = "idle"
  BY DEF Push, NoPush, Message, Nothing
<1>2. Calls(t, NoPush) /\ UNCHANGED <<queue, worker, logged>> /\ pushes[t].at # "publish"
  BY DEF Signal, Refuse
<1> HIDE DEF NoPush
<1> QED BY SMTT(20), <1>1, <1>2, CallInv DEF IInv, Typed

LEMMA ClaimInv ==
  ASSUME IInv, NEW t \in Threads, Claim(t), UNCHANGED <<worker, logged>> PROVE IInv'
<1>0. PICK e \in Nat : e = enqueued
  BY DEF IInv, Typed
<1> DEFINE lost == [pushes[t] EXCEPT !.at = "read", !.position = enqueued]
           won  == [pushes[t] EXCEPT !.at = "publish"]
<1>1. /\ pushes[t] \in Push /\ pushes[t].at = "claim" /\ Carrying(t) 
      /\ pushes[t].message.thread = t /\ pushes[t].message.number = logged[t]
  BY DEF IInv, Typed, Claim, Carried, Carrying
<1>2. CASE pushes[t].position # e
  <2>1. Calls(t, lost) /\ UNCHANGED queue
    BY <1>0, <1>2 DEF Claim, StillMine, queue
  <2>2. lost \in Push /\ lost.at = "read" /\ lost.position = e /\ lost.message = pushes[t].message
    BY <1>0, <1>1 DEF Push
  <2> HIDE DEF lost
  <2> QED BY <1>0, <1>1, <2>1, <2>2, CallInv DEF IInv, Typed
<1>3. CASE pushes[t].position = e
  <2>1. enqueued' = e + 1 /\ Calls(t, won) /\ UNCHANGED <<cells, dequeued>>
    BY <1>0, <1>3 DEF Claim, StillMine
  <2>2. won \in Push /\ won.at = "publish" /\ won.position = e /\ won.message = pushes[t].message
    BY <1>0, <1>1, <1>3 DEF Push
  <2>3. pushes' \in [Threads -> Push] /\ pushes'[t] = won
        /\ \A s \in Threads : s # t => pushes'[s] = pushes[s]
    BY <2>1, <2>2 DEF IInv, Typed, Calls
  <2> HIDE DEF won
  <2>4. e < Oldest + Capacity /\ Oldest \in Int /\ Oldest <= e /\ dequeued \in Nat
    BY <1>0, <1>1, <1>3 DEF IInv, ClaimsFree, Ends, Typed, Oldest
  <2>5. Oldest' = Oldest /\ Positions' = Positions \union {e} /\ e \notin Positions /\ Lap' = Lap
    BY <1>0, <2>1, <2>4 DEF Oldest, Owning, Positions, Lap, IInv, Ends, Typed
  <2>6. \A q : Turn(q)' = Turn(q) /\ Value(q)' = Value(q) /\ (Holds(q)' <=> Holds(q))
    BY <2>1 DEF Turn, Value, Holds
  <2>7. Claimed(e) = {} /\ Claimed(e)' = {t}
    BY <1>0, <1>1, <2>2, <2>3, <2>5 DEF Claimed, IInv, ClaimsApart
  <2>8. \A q : q # e => Claimed(q)' = Claimed(q)
    BY <1>0, <1>1, <2>2, <2>3 DEF Claimed
  <2>9. Typed'
    BY <1>0, <1>1, <2>1, <2>3 DEF IInv, Typed
  <2>10. Ends'
    BY <1>0, <1>1, <2>1, <2>4, <2>5, CapacityAssumption DEF IInv, Ends, Typed
  <2>11. CellsInTurn'
    <3> SUFFICES ASSUME NEW q \in Lap
                 PROVE  Turn(q) = IF q < e + 1 /\ Claimed(q)' = {} THEN q + 1 ELSE q
      BY <2>1, <2>5, <2>6 DEF CellsInTurn
    <3>1. Turn(q) = IF q < e /\ Claimed(q) = {} THEN q + 1 ELSE q
      BY <1>0 DEF IInv, CellsInTurn
    <3>2. q \in Int
      BY <2>4 DEF Lap
    <3>3. CASE q = e
      BY <1>0, <1>1, <2>7, <3>1, <3>3
    <3>4. CASE q # e
      BY <1>0, <1>1, <2>8, <3>1, <3>2, <3>4
    <3> QED BY <3>3, <3>4
  <2>12. ClaimsApart'
    BY <2>5, <2>2, <2>3 DEF IInv, ClaimsApart
  <2>13. ClaimsFree'
    <3> SUFFICES ASSUME NEW s \in Threads
                 PROVE  /\ pushes'[s].at \in {"read", "claim"} => pushes'[s].position <= e + 1
                        /\ pushes'[s].at = "claim" => pushes'[s].position # e + 1
      BY <2>1 DEF ClaimsFree
    <3>1. pushes[s].position \in Nat
      BY DEF IInv, Typed, Push
    <3>2. pushes[s].at \in {"read", "claim"} => pushes[s].position <= e
      BY <1>0 DEF IInv, ClaimsFree
    <3>3. CASE s = t
      BY <2>2, <2>3, <3>3
    <3>4. CASE s # t
      BY <1>0, <1>1, <2>3, <3>1, <3>2, <3>4
    <3> QED BY <3>3, <3>4
  <2>14. Carried'
    BY <1>0, <1>1, <2>2, <2>3 DEF IInv, Carried, Carrying
  <2>15. ~Holds(e)
    BY <1>0, <1>1, <2>4, CapacityAssumption DEF Lap, IInv, CellsInTurn, Holds
  <2>16. Older'
    <3> SUFFICES ASSUME NEW q \in Positions, NEW m \in Message, Holds(q), m = Value(q)
                 PROVE  /\ m.thread \in Threads
                        /\ m.number <= logged[m.thread]
                        /\ Carrying(m.thread)' => m.number < logged[m.thread]
                        /\ pushes'[m.thread].at = "publish" => q < pushes'[m.thread].position
      BY <2>5, <2>6, <2>15 DEF Older
    <3>1. /\ m.thread \in Threads
          /\ m.number <= logged[m.thread]
          /\ Carrying(m.thread) => m.number < logged[m.thread]
          /\ pushes[m.thread].at = "publish" => q < pushes[m.thread].position
      BY DEF IInv, Older
    <3>2. q < e
      BY <1>0, <1>1, <2>4 DEF Positions
    <3>3. CASE m.thread = t
      BY <1>0, <1>1, <2>2, <2>3, <3>1, <3>2, <3>3
    <3>4. CASE m.thread # t
      BY <2>3, <3>1, <3>4 DEF Carrying
    <3> QED BY <3>3, <3>4
  <2>17. InOrder'
    BY <2>5, <2>6, <2>15 DEF IInv, InOrder
  <2> QED BY <2>9, <2>10, <2>11, <2>12, <2>13, <2>14, <2>16, <2>17 DEF IInv, TakenIsMessage
<1> QED BY <1>2, <1>3

LEMMA PublishInv ==
  ASSUME IInv, NEW t \in Threads, Publish(t), UNCHANGED <<worker, logged>> PROVE IInv'
<1>0. PICK c \in Push : c = pushes[t]
  BY DEF IInv, Typed
<1> DEFINE e == c.position
           p == [c EXCEPT !.at = "signal"]
<1>1. /\ c.at = "publish" /\ Carrying(t) /\ e \in Positions /\ e \in Int
      /\ c.message \in Message /\ c.message.thread = t /\ c.message.number = logged[t]
  BY <1>0 DEF IInv, Publish, Carried, Carrying, ClaimsApart, Push, Positions
<1>2. Store(e, e + 1, c.message) /\ Calls(t, p) /\ UNCHANGED <<enqueued, dequeued>>
  BY <1>0 DEF Publish
<1>3. p \in Push /\ p.at = "signal"
  BY <1>1 DEF Push
<1> HIDE DEF p, e
<1>4. pushes' \in [Threads -> Push] /\ pushes'[t] = p
      /\ \A s \in Threads : s # t => pushes'[s] = pushes[s]
  BY <1>2, <1>3 DEF IInv, Typed, Calls
<1>5. Oldest' = Oldest /\ Positions' = Positions /\ Lap' = Lap /\ Oldest \in Int
  BY <1>2 DEF Oldest, Owning, Positions, Lap, IInv, Typed
<1>6. /\ cells' \in [0..Capacity - 1 -> [sequence : Int, value : Message]]
      /\ Turn(e)' = e + 1
      /\ Value(e)' = c.message
      /\ \A q \in Int : (q < e /\ e < q + Capacity) \/ (e < q /\ q < e + Capacity) =>
           Turn(q)' = Turn(q) /\ Value(q)' = Value(q)
  BY <1>1, <1>2, StoreAt DEF IInv
<1>7. e \in Lap /\ Positions \subseteq Lap /\ Lap \subseteq Int
  BY <1>1, <1>5, CapacityAssumption DEF IInv, Typed, Ends, Positions, Lap, Oldest
<1>8. \A q \in Lap : q # e =>
        Turn(q)' = Turn(q) /\ Value(q)' = Value(q) /\ Claimed(q)' = Claimed(q)
          /\ (Holds(q)' <=> Holds(q))
  <2> SUFFICES ASSUME NEW q \in Lap, q # e
               PROVE  Turn(q)' = Turn(q) /\ Value(q)' = Value(q) /\ Claimed(q)' = Claimed(q)
                        /\ (Holds(q)' <=> Holds(q))
    OBVIOUS
  <2>1. (q < e /\ e < q + Capacity) \/ (e < q /\ q < e + Capacity)
    BY <1>1, <1>5, <1>7, CapacityAssumption DEF Lap
  <2>2. Turn(q)' = Turn(q) /\ Value(q)' = Value(q)
    BY <1>6, <1>7, <2>1
  <2>3. Claimed(q)' = Claimed(q)
    BY <1>0, <1>1, <1>3, <1>4 DEF Claimed, e
  <2> QED BY <2>2, <2>3 DEF Holds
<1>9. Claimed(e)' = {} /\ Holds(e)'
  BY <1>6, <1>0, <1>3, <1>4, <1>1 DEF Holds, e, IInv, ClaimsApart, Claimed
<1>10. Typed'
  BY <1>2, <1>4, <1>6 DEF IInv, Typed
<1>11. Ends'
  BY <1>2, <1>5 DEF IInv, Ends
<1>12. CellsInTurn'
  <2> SUFFICES ASSUME NEW q \in Lap
               PROVE  Turn(q)' = IF q < enqueued /\ Claimed(q)' = {} THEN q + 1 ELSE q
    BY <1>2, <1>5 DEF CellsInTurn
  <2>1. CASE q = e
    BY <1>1, <1>6, <1>9, <2>1 DEF Positions, IInv, Typed, e
  <2>2. CASE q # e
    BY <1>8, <2>2 DEF IInv, CellsInTurn
  <2> QED BY <2>1, <2>2
<1>13. ClaimsApart'
  BY <1>3, <1>4, <1>5 DEF IInv, ClaimsApart
<1>14. ClaimsFree'
  BY <1>2, <1>3, <1>4, <1>5 DEF IInv, ClaimsFree
<1>15. Carried'
  BY <1>3, <1>4 DEF IInv, Carried, Carrying
<1>16. Older'
  <2> SUFFICES ASSUME NEW q \in Positions, NEW m \in Message, Holds(q)', m = Value(q)'
               PROVE  /\ m.thread \in Threads
                      /\ m.number <= logged[m.thread]
                      /\ Carrying(m.thread)' => m.number < logged[m.thread]
                      /\ pushes'[m.thread].at = "publish" => q < pushes'[m.thread].position
    BY <1>5 DEF Older
  <2>1. CASE q = e
    BY <1>1, <1>6, <2>1, <1>3, <1>4 DEF e, IInv, Typed, Carrying
  <2>2. CASE q # e
    BY <1>7, <1>8, <2>2, <1>3, <1>4 DEF IInv, Older, Carrying
  <2> QED BY <2>1, <2>2
<1>17. InOrder'
  <2> SUFFICES ASSUME NEW q \in Positions, NEW r \in Positions, q < r, Holds(q)', Holds(r)',
                      Value(q)'.thread = Value(r)'.thread
               PROVE  Value(q)'.number < Value(r)'.number
    BY <1>5 DEF InOrder
  <2>0. q \in Int /\ r \in Int
    BY <1>7
  <2>1. CASE q # e /\ r # e
    BY <1>7, <1>8, <2>1 DEF IInv, InOrder
  <2>2. CASE r = e
    BY <1>7, <1>8, <2>0, <2>2, <1>6, ValueTyped, <1>1 DEF e, IInv, Older
  <2>3. CASE q = e
    BY <1>7, <1>8, <2>0, <2>3, <1>6, ValueTyped, <1>0, <1>1 DEF e, IInv, Older
  <2> QED BY <2>1, <2>2, <2>3
<1> QED BY <1>10, <1>11, <1>12, <1>13, <1>14, <1>15, <1>16, <1>17 DEF IInv, TakenIsMessage

\* The worker takes the oldest message and owns its cell.
LEMMA PopInv ==
  ASSUME IInv, Pop PROVE IInv'
<1>1. /\ ~Owning /\ Owning' /\ Oldest = dequeued /\ Oldest' = dequeued
      /\ dequeued' = dequeued + 1 /\ dequeued \in Nat /\ enqueued \in Nat /\ dequeued <= enqueued
      /\ UNCHANGED <<cells, enqueued, pushes, logged>>
  BY DEF Pop, Take, Owning, Oldest, IInv, Typed, Ends, threads
<1>2. Lap' = Lap /\ dequeued \in Lap
  BY <1>1, CapacityAssumption DEF Lap
<1>3. dequeued \in Positions /\ Holds(dequeued) /\ Claimed(dequeued) = {}
  BY <1>1, <1>2 DEF Pop, Filled, Holds, Positions, IInv, CellsInTurn
<1>4. Positions' = Positions \ {dequeued}
  BY <1>1 DEF Positions
<1>5. Typed' /\ Ends'
  BY <1>1, <1>3 DEF Pop, IInv, Typed, Positions, Ends
<1>6. CellsInTurn'
  BY <1>1, <1>2 DEF IInv, CellsInTurn, Turn, Claimed
<1>7. ClaimsApart'
  BY <1>1, <1>3, <1>4 DEF IInv, ClaimsApart, Claimed
<1>8. ClaimsFree' /\ Carried'
  BY <1>1 DEF IInv, ClaimsFree, Carried, Carrying
<1>9. Older' /\ InOrder'
  BY <1>1, <1>4 DEF IInv, Older, InOrder, Holds, Turn, Value, Carrying
<1>10. TakenIsMessage'
  BY <1>1, ValueTyped, <1>3 DEF IInv, Older, First, Value, Pop, TakenIsMessage
<1> QED BY <1>5, <1>6, <1>7, <1>8, <1>9, <1>10 DEF IInv

\* The worker frees the cell for the position a lap later, the last of the next
\* lap.
LEMMA FreeInv ==
  ASSUME IInv, FreeCell PROVE IInv'
<1>0. PICK o \in Int : o = dequeued - 1
  BY DEF IInv, Typed
<1>1. /\ Owning /\ ~Owning' /\ Oldest = o /\ Oldest' = o + 1
      /\ dequeued = o + 1 /\ enqueued \in Nat
      /\ UNCHANGED <<enqueued, dequeued, pushes, logged>>
      /\ Store(o, o + Capacity, Nothing)
  <2>1. worker.at \in {"freeing", "emptying"} /\ worker'.at \in {"counting", "discarding"}
    BY DEF FreeCell, WorkerAt, Worker, IInv, Typed
  <2>2. Owning /\ ~Owning'
    BY <2>1 DEF Owning
  <2>3. UNCHANGED <<enqueued, dequeued, pushes, logged>> /\ Store(o, o + Capacity, Nothing)
    BY <1>0 DEF FreeCell, Free, threads
  <2>4. dequeued = o + 1 /\ enqueued \in Nat
    BY <1>0 DEF IInv, Typed
  <2> QED BY <2>2, <2>3, <2>4 DEF Oldest
<1>2. Nothing \in Message /\ o + Capacity \in Int
  BY <1>1, CapacityAssumption DEF Nothing, Message
<1>3. /\ cells' \in [0..Capacity - 1 -> [sequence : Int, value : Message]]
      /\ Turn(o)' = o + Capacity
      /\ \A q \in Int : o < q /\ q < o + Capacity => Turn(q)' = Turn(q) /\ Value(q)' = Value(q)
  BY <1>1, <1>2, StoreAt DEF IInv
<1>4. Turn(o + Capacity)' = o + Capacity
  BY <1>3, NextLap DEF Turn
<1>5. /\ Lap' = (Lap \ {o}) \union {o + Capacity} /\ Positions' = Positions
      /\ Positions \subseteq o + 1..o + Capacity - 1
      /\ enqueued <= o + Capacity
  BY <1>1, CapacityAssumption DEF Lap, Positions, IInv, Ends
<1>6. \A q \in o + 1..o + Capacity - 1 :
        Turn(q)' = Turn(q) /\ Value(q)' = Value(q) /\ (Holds(q)' <=> Holds(q))
  BY <1>3, CapacityAssumption DEF Holds
<1>7. Typed' /\ Ends'
  BY <1>1, <1>3, CapacityAssumption DEF IInv, Typed, Ends, FreeCell, WorkerAt, Worker
<1>8. CellsInTurn'
  <2> SUFFICES ASSUME NEW q \in Lap'
               PROVE  Turn(q)' = IF q < enqueued /\ Claimed(q) = {} THEN q + 1 ELSE q
    BY <1>1 DEF CellsInTurn, Claimed
  <2>1. CASE q = o + Capacity
    BY <1>1, <1>4, <1>5, <2>1, CapacityAssumption
  <2>2. CASE q # o + Capacity
    BY <1>1, <1>5, <2>2, CapacityAssumption, <1>6 DEF Lap, IInv, CellsInTurn
  <2> QED BY <2>1, <2>2
<1>9. ClaimsApart' /\ Carried'
  BY <1>1, <1>5 DEF IInv, ClaimsApart, Carried, Carrying
<1>10. ClaimsFree'
  BY <1>1, CapacityAssumption DEF IInv, ClaimsFree
<1>11. Older' /\ InOrder'
  BY <1>1, <1>5, <1>6 DEF IInv, Older, InOrder, Carrying
<1>12. TakenIsMessage'
  BY DEF FreeCell, WorkerAt, Worker, IInv, Typed, TakenIsMessage
<1> QED BY <1>7, <1>8, <1>9, <1>10, <1>11, <1>12 DEF IInv

-----------------------------------------------------------------------------
(***************************************************************************)
(* Every step                                                              *)
(***************************************************************************)
LEMMA PushingInv ==
  ASSUME IInv, NEW t \in Threads, Pushing(t) PROVE IInv'
  BY LookInv, ClaimInv, PublishInv, LeaveInv DEF Pushing, PushStep

\* The worker's steps outside the queue take no message but the one they have.
LEMMA WorkerInv ==
  ASSUME IInv, WorkerStep PROVE IInv'
<1> DEFINE Aside == /\ UNCHANGED <<queue, pushes, logged>> /\ Owning' = Owning /\ TakenIsMessage'
                    /\ worker' = [at |-> worker'.at, message |-> worker'.message,
                                  drops |-> worker'.drops]
<1>0. worker = [at |-> worker.at, message |-> worker.message, drops |-> worker.drops]
      /\ TakenIsMessage
  BY DEF IInv, Typed
<1> USE DEF threads, Owning, WorkerAt, Worker, TakenIsMessage
<1>1. CASE ConnectClient
  BY <1>0, <1>1, AsideInv DEF ConnectClient, Connect
<1>2. CASE Pump
  BY <1>0, <1>2, AsideInv DEF Pump
<1>3. CASE Wake
  BY <1>0, <1>3, AsideInv DEF Wake
<1>4. CASE PopNothing
  BY <1>0, <1>4, AsideInv DEF PopNothing
<1>5. CASE Count
  <2>1. PICK at \in {"reporting", "writing"}, drops \in {logger.dropped} :
          worker' = [worker EXCEPT !.drops = drops, !.at = at]
    BY <1>5 DEF Count
  <2>2. worker' = [at |-> at, message |-> worker.message, drops |-> drops]
    BY <1>0, <2>1
  <2>3. worker.at = "counting" /\ UNCHANGED <<queue, pushes, logged>>
    BY <1>5 DEF Count
  <2>4. worker'.at = at /\ worker'.message = worker.message /\ worker'.drops = drops
    BY <2>2
  <2>5. Aside
    BY <1>0, <2>2, <2>3, <2>4
  <2> QED BY <2>5, AsideInv
<1>6. CASE Write \/ LeaveOut
  BY <1>0, <1>6, AsideInv DEF Write, LeaveOut, Written, AfterWrite
<1>7. CASE WriteFails
  BY <1>0, <1>7, AsideInv DEF WriteFails
<1>8. CASE ClosePipe
  BY <1>0, <1>8, AsideInv DEF ClosePipe
<1>9. CASE EndWorker
  BY <1>0, <1>9, AsideInv DEF EndWorker
<1> QED BY <1>1, <1>2, <1>3, <1>4, <1>5, <1>6, <1>7, <1>8, <1>9, PopInv, FreeInv DEF WorkerStep

LEMMA NextInv == IInv /\ [Next]_vars => IInv'
<1> SUFFICES ASSUME IInv, [Next]_vars PROVE IInv'
  OBVIOUS
<1>1. CASE UNCHANGED <<queue, threads, worker>>
  BY <1>1, AsideInv DEF threads, Owning, IInv, Typed, TakenIsMessage
<1>2. ASSUME NEW t \in Threads, Log(t) \/ Pushing(t) PROVE IInv'
  BY <1>2, LogInv, PushingInv
<1>3. CASE WorkerStep
  BY <1>3, WorkerInv
<1>4. CASE Start \/ HandOver \/ EndAccept \/ Show \/ Close \/ EndDebugger \/ Hang \/ Kill
  BY <1>1, <1>4 DEF Start, HandOver, EndAccept, Show, Close, EndDebugger, Hang, Kill, producer
<1>5. ASSUME NEW c, Client(c) \/ Throw(c) PROVE IInv'
  BY <1>1, <1>5 DEF Client, Throw, CountIn, Read, Leave, CountOut, CloseClient, producer
<1>6. CASE Destroy
  BY <1>1, <1>6 DEF Destroy
<1>7. CASE UNCHANGED vars
  BY <1>1, <1>7 DEF vars
<1> QED BY <1>2, <1>3, <1>4, <1>5, <1>6, <1>7 DEF Next

\* The lock-free queue (BoundedMpmcQueue): with any number of threads and any
\* capacity, a position that is taken is filled by one thread or holds its
\* message, a thread's messages stand in the order it logged them, and the
\* worker takes none that is not there.
THEOREM QueueAlwaysHolds == Spec => []QueueHolds
<1>1. Init => IInv
  BY InitInv
<1>2. IInv /\ [Next]_vars => IInv'
  BY NextInv
<1>3. IInv => QueueHolds
  BY InvHolds
<1> QED BY <1>1, <1>2, <1>3, PTL DEF Spec

-----------------------------------------------------------------------------
(***************************************************************************)
(* The way of a message                                                    *)
(***************************************************************************)
Link == 1..MaxConnections

\* What is posted to the window.
Line == [via : Link, delta : {-1, 0, 1}, frame : Message]

PipeEnds == [written : Seq(Message), writer : {"open", "closed"}, reader : {"open", "closed"}]

\* The values the variables have.
Shapes ==
  /\ pipes \in Seq(PipeEnds)
  /\ Pipe <= MaxConnections
  /\ server \in [process : {"off", "up", "closing", "hung"}, starts : Nat,
                 accept : {"none", "listening", "connected"},
                 clients : [Link -> {"none", "starting", "reading", "leaving", "closing"}]]
  /\ window \in [posted : Seq(Line), count : Nat, text : Seq(Line)]
  /\ logger \in [connected : BOOLEAN, dropped : Nat, event : BOOLEAN, stop : BOOLEAN]
  /\ worker.message \in Message /\ worker.drops \in Nat
  /\ refused \subseteq [thread : Threads, number : Nat, via : 0..MaxConnections]
  /\ IsFiniteSet(refused)

\* Somebody reads every pipe that is open, and nobody one that is not yet there.
ServerOK ==
  /\ \A c \in DOMAIN pipes :
       IF pipes[c].reader = "open"
       THEN server.clients[c] # "none" \/ (server.accept = "connected" /\ c = Pipe)
       ELSE pipes[c].written = <<>>
  /\ server.accept = "connected" => Pipe > 0 /\ server.clients[Pipe] = "none"
  /\ \A c \in Link : c > Pipe => server.clients[c] = "none"
  /\ server.process = "off" =>
       /\ window = NoWindow /\ server.accept = "none"
       /\ \A c \in Link : server.clients[c] = "none"

\* The worker serves the last pipe.
Attached ==
  worker.at \in {"pumping", "waiting", "popping", "freeing", "counting", "reporting", "writing"}

\* The thread's call now is not the one that logged the number.
Past(t, number) == number <= logged[t] /\ (Carrying(t) => number < logged[t])

\* A message before everything of its thread that is still in the queue or on
\* its way there.
Before(f) ==
  f.thread \in Threads =>
    /\ Past(f.thread, f.number)
    /\ \A p \in Positions : Holds(p) /\ Value(p).thread = f.thread => f.number < Value(p).number

RefusedOK == \A r \in refused : Past(r.thread, r.number) /\ r.via <= Pipe

\* The frames in the pipes, as they will be posted.
LinesIn(ps) ==
  [c \in DOMAIN ps |-> [k \in DOMAIN ps[c].written |->
                          [via |-> c, delta |-> 0, frame |-> ps[c].written[k]]]]

Ways == LinesIn(pipes)

\* What the lines of a sequence hold, and those of the text, the window's queue
\* and the pipes.
FramesOf(q) == {q[i].frame : i \in DOMAIN q}

Frames(text, posted, ways) ==
  FramesOf(text) \union FramesOf(posted) \union UNION {FramesOf(ways[c]) : c \in DOMAIN ways}

\* Of the messages of one thread, the first was logged before the second.
Earlier(a, b) == a.thread = b.thread /\ a.thread \in Threads => a.number < b.number

LinesApart(a, b) == a.via = b.via => Earlier(a.frame, b.frame)

\* Each line before those behind it, in one sequence, and in one ahead of another.
Rising(q) == \A i, j \in DOMAIN q : i < j => LinesApart(q[i], q[j])

Under(q, r) == \A i \in DOMAIN q, j \in DOMAIN r : LinesApart(q[i], r[j])

\* The text is ahead of the window's queue, and both are of every pipe.
Ordered(text, posted, ways) ==
  /\ Rising(text) /\ Rising(posted) /\ Under(text, posted)
  /\ \A c \in DOMAIN ways : Rising(ways[c]) /\ Under(text, ways[c]) /\ Under(posted, ways[c])

\* What a reader of the message must have been told of.
Need(c, f) ==
  Cardinality({r \in RefusedVia(c) : r.thread = f.thread /\ r.number < f.number})

\* All the drops a sequence tells of.
Total(q) == Reported(q)[Len(q)]

\* With the drops told before the sequence, each of its messages has the reports
\* it needs ahead of it.
Enough(q, base) ==
  \A i \in DOMAIN q : ~IsReport(q[i].frame) => base + Reported(q)[i] >= Need(q[i].via, q[i].frame)

ToldOK(text, posted, ways) ==
  /\ Enough(text, 0)
  /\ Enough(posted, Total(text))
  /\ \A c \in DOMAIN ways : Enough(ways[c], Total(text) + Total(posted))

\* The drops of the report the worker is about to write.
Owed == IF worker.at = "reporting" THEN worker.drops ELSE 0

\* The drops the worker has not yet written of.
Untold == Owed + logger.dropped

\* What the worker has told on its pipe, with what it has not yet, is all that was
\* refused; its next message has the reports it needs ahead of it.
OwesWhat(text, posted, ways) ==
  LET c == Len(ways) IN
  Attached =>
    /\ c > 0
    /\ pipes[c].reader = "open" =>
         LET a == Total(text) + Total(posted) + Total(ways[c]) IN
         /\ a + Untold >= Cardinality(RefusedVia(c))
         /\ worker.at = "reporting" => a + worker.drops >= Need(c, worker.message)
         /\ worker.at = "writing" => a >= Need(c, worker.message)

\* The drops the pipes tell of.
InPipes(ways) == Sums([c \in DOMAIN ways |-> Total(ways[c])])[Len(ways)]

\* No more drops are reported, or to be reported, than there were.
NoMore(text, posted, ways) ==
  Total(text) + Total(posted) + InPipes(ways) + Untold <= Cardinality(refused)

\* The clients that are counted.
Serving == {c \in Link : server.clients[c] \in {"reading", "leaving"}}

\* What the first counts of a sequence add up to.
Deltas(q) == Sums([j \in DOMAIN q |-> IF q[j].frame = Nothing THEN q[j].delta ELSE 0])

\* The count never falls below zero, and ends at the clients that are served.
CountOK ==
  /\ \A k \in 0..Len(window.posted) : window.count + Deltas(window.posted)[k] >= 0
  /\ window.count + Deltas(window.posted)[Len(window.posted)] = Cardinality(Serving)

\* What was sent comes before all that is still to be sent.
Sent(frames) == \A f \in frames : Before(f) /\ Earlier(f, worker.message)

WInv ==
  /\ Shapes /\ ServerOK /\ RefusedOK /\ Before(worker.message)
  /\ Sent(Frames(Text, window.posted, Ways))
  /\ Ordered(Text, window.posted, Ways)
  /\ ToldOK(Text, window.posted, Ways)
  /\ OwesWhat(Text, window.posted, Ways)
  /\ NoMore(Text, window.posted, Ways)
  /\ CountOK

-----------------------------------------------------------------------------
(***************************************************************************)
(* Sums                                                                    *)
(***************************************************************************)
\* What the recursion of Sums computes.
LEMMA SumsAre ==
  ASSUME NEW s \in Seq(Int)
  PROVE  /\ Sums(s) \in [0..Len(s) -> Int]
         /\ Sums(s)[0] = 0
         /\ \A i \in 1..Len(s) : Sums(s)[i] = Sums(s)[i - 1] + s[i]
<1> DEFINE n == Len(s)
           step == [i \in 1..n |-> [v \in Int |-> v + s[i]]]
           Is(f) == f = [i \in 0..n |-> IF i = 0 THEN 0 ELSE f[i - 1] + s[i]]
<1>1. n \in Nat /\ \A i \in 1..n : s[i] \in Int OBVIOUS
<1>2. PICK f : Follows(f, Int, 0, n, step)
  <2>1. step \in [1..n -> [Int -> Int]] BY <1>1
  <2> HIDE DEF step, n
  <2>2. PICK start \in Int : start = 0 OBVIOUS
  <2>3. \E f : Follows(f, Int, start, n, step) BY <1>1, <2>1, Recursion
  <2> QED BY <2>2, <2>3
<1>3. f \in [0..n -> Int] /\ f[0] = 0 BY <1>2 DEF Follows
<1>4. \A i \in 1..n : f[i] = f[i - 1] + s[i]
  <2> TAKE i \in 1..n
  <2>1. i - 1 \in 0..n BY <1>1
  <2>2. f[i - 1] \in Int BY <1>3, <2>1
  <2>3. step[i][f[i - 1]] = f[i - 1] + s[i] BY <2>2
  <2>4. f[i] = step[i][f[i - 1]]
    <3> HIDE DEF step, n
    <3> QED BY <1>2 DEF Follows
  <2> QED BY <2>3, <2>4
<1>5. Is(f)
  <2>1. \A i \in 0..n : f[i] = IF i = 0 THEN 0 ELSE f[i - 1] + s[i]
    <3> HIDE DEF n
    <3> QED BY <1>1, <1>3, <1>4
  <2> QED BY <1>3, <2>1
<1>6. Is(Sums(s)) BY <1>5 DEF Sums
<1>7. \A i \in 0..n : Sums(s)[i] = f[i]
  <2> DEFINE Good == {m \in 0..n : Sums(s)[m] = f[m]}
  <2>1. 0 \in Good BY <1>1, <1>3, <1>6
  <2>2. \A i \in 0..n : i \in Good /\ i # n => i + 1 \in Good
    <3> TAKE i \in 0..n
    <3> HAVE i \in Good /\ i # n
    <3>1. i + 1 \in 1..n /\ i + 1 - 1 = i /\ i + 1 # 0 BY <1>1
    <3>2. Sums(s)[i + 1] = Sums(s)[i] + s[i + 1] BY <1>6, <3>1
    <3>3. f[i + 1] = f[i] + s[i + 1] BY <1>4, <3>1
    <3> QED BY <3>1, <3>2, <3>3
  <2> HIDE DEF Good, n
  <2>3. \A i \in 0..n : i \in Good BY <1>1, <2>1, <2>2, UpTo
  <2> QED BY <2>3 DEF Good
<1>8. Sums(s) = [i \in 0..n |-> Sums(s)[i]] BY <1>6
<1>9. Sums(s) = f
  BY <1>3, <1>7, <1>8
<1> QED BY <1>3, <1>4, <1>9

\* Sums is what is computed so.
LEMMA SumsOnly ==
  ASSUME NEW s \in Seq(Int), NEW g, g[0] = 0, \A i \in 1..Len(s) : g[i] = g[i - 1] + s[i]
  PROVE  \A i \in 0..Len(s) : Sums(s)[i] = g[i]
<1> DEFINE n == Len(s)
           Good == {m \in 0..n : Sums(s)[m] = g[m]}
<1>0. n \in Nat OBVIOUS
<1>1. 0 \in Good BY <1>0, SumsAre
<1>2. \A i \in 0..n : i \in Good /\ i # n => i + 1 \in Good
  <2> TAKE i \in 0..n
  <2> HAVE i \in Good /\ i # n
  <2>1. i + 1 \in 1..n /\ i + 1 - 1 = i BY <1>0
  <2>2. Sums(s)[i + 1] = Sums(s)[i] + s[i + 1] BY <2>1, SumsAre
  <2> QED BY <2>1, <2>2
<1> HIDE DEF Good, n
<1>3. \A i \in 0..n : i \in Good BY <1>0, <1>1, <1>2, UpTo
<1> QED BY <1>3 DEF Good, n

LEMMA SumsAppend ==
  ASSUME NEW s \in Seq(Int), NEW x \in Int
  PROVE  /\ Append(s, x) \in Seq(Int) /\ Len(Append(s, x)) = Len(s) + 1
         /\ \A k \in 0..Len(s) : Sums(Append(s, x))[k] = Sums(s)[k]
         /\ Sums(Append(s, x))[Len(s) + 1] = Sums(s)[Len(s)] + x
<1> DEFINE n == Len(s)
           t == Append(s, x)
<1>1. /\ n \in Nat /\ t \in Seq(Int) /\ Len(t) = n + 1 /\ t[n + 1] = x
      /\ \A i \in 1..n : t[i] = s[i]
  OBVIOUS
<1> HIDE DEF t
<1>2. /\ Sums(t)[0] = 0
      /\ \A i \in 1..(n + 1) : Sums(t)[i] = Sums(t)[i - 1] + t[i]
  BY <1>1, SumsAre
<1>3. \A i \in 1..n : Sums(t)[i] = Sums(t)[i - 1] + s[i] BY <1>1, <1>2
<1>4. \A k \in 0..n : Sums(s)[k] = Sums(t)[k] BY <1>2, <1>3, SumsOnly
<1>5. n + 1 \in 1..(n + 1) /\ n + 1 - 1 = n /\ n \in 0..n BY <1>1
<1>6. Sums(t)[n + 1] = Sums(s)[n] + x BY <1>1, <1>2, <1>4, <1>5
<1> QED BY <1>1, <1>4, <1>6 DEF t

LEMMA SumsTail ==
  ASSUME NEW s \in Seq(Int), s # <<>>
  PROVE  /\ Tail(s) \in Seq(Int) /\ Len(Tail(s)) = Len(s) - 1
         /\ \A k \in 0..(Len(s) - 1) : Sums(Tail(s))[k] = Sums(s)[k + 1] - s[1]
<1> DEFINE n == Len(s)
           t == Tail(s)
           g == [k \in 0..(n - 1) |-> Sums(s)[k + 1] - s[1]]
<1>1. /\ n \in Nat \ {0} /\ t \in Seq(Int) /\ Len(t) = n - 1
      /\ \A i \in 1..(n - 1) : t[i] = s[i + 1]
      /\ \A i \in 1..n : s[i] \in Int
  OBVIOUS
<1> HIDE DEF t
<1>2. /\ Sums(s) \in [0..n -> Int] /\ Sums(s)[0] = 0
      /\ \A i \in 1..n : Sums(s)[i] = Sums(s)[i - 1] + s[i]
  BY SumsAre
<1>3. g[0] = 0
  BY <1>1, <1>2
<1>4. \A i \in 1..Len(t) : g[i] = g[i - 1] + t[i]
  <2> TAKE i \in 1..Len(t)
  <2>1. /\ i \in 0..(n - 1) /\ i - 1 \in 0..(n - 1) /\ i + 1 \in 1..n /\ i + 1 - 1 = i
        /\ i - 1 + 1 = i /\ i \in 1..(n - 1) /\ i \in 0..n /\ 1 \in 1..n
    BY <1>1
  <2>2. g[i] = Sums(s)[i + 1] - s[1] /\ g[i - 1] = Sums(s)[i] - s[1] BY <2>1
  <2>3. Sums(s)[i + 1] = Sums(s)[i] + s[i + 1] BY <1>2, <2>1
  <2>4. t[i] = s[i + 1] /\ s[1] \in Int /\ s[i + 1] \in Int /\ Sums(s)[i] \in Int
    BY <1>1, <1>2, <2>1
  <2> HIDE DEF g, n
  <2> QED BY <2>2, <2>3, <2>4
<1> HIDE DEF g, n
<1>5. \A i \in 0..Len(t) : Sums(t)[i] = g[i] BY <1>1, <1>3, <1>4, SumsOnly
<1> QED BY <1>1, <1>5 DEF g, t, n

LEMMA SumsNat ==
  ASSUME NEW s \in Seq(Nat)
  PROVE  s \in Seq(Int) /\ \A k \in 0..Len(s) : Sums(s)[k] \in Nat
<1> DEFINE n == Len(s)
           Good == {m \in 0..n : Sums(s)[m] \in Nat}
<1>0. n \in Nat /\ s \in Seq(Int) /\ \A i \in 1..n : s[i] \in Nat OBVIOUS
<1>1. 0 \in Good BY <1>0, SumsAre
<1>2. \A i \in 0..n : i \in Good /\ i # n => i + 1 \in Good
  <2> TAKE i \in 0..n
  <2> HAVE i \in Good /\ i # n
  <2>1. i + 1 \in 1..n /\ i + 1 - 1 = i BY <1>0
  <2>2. Sums(s)[i + 1] = Sums(s)[i] + s[i + 1] BY <1>0, <2>1, SumsAre
  <2>3. s[i + 1] \in Nat /\ Sums(s)[i] \in Nat BY <1>0, <2>1
  <2> QED BY <2>1, <2>2, <2>3
<1> HIDE DEF Good, n
<1>3. \A i \in 0..n : i \in Good BY <1>0, <1>1, <1>2, UpTo
<1> QED BY <1>0, <1>3 DEF Good, n

\* One number changes by a difference, and so does the sum.
LEMMA SumsExcept ==
  ASSUME NEW s \in Seq(Int), NEW t \in Seq(Int), Len(t) = Len(s), NEW i \in 1..Len(s),
         \A j \in 1..Len(s) : j # i => t[j] = s[j]
  PROVE  Sums(t)[Len(s)] = Sums(s)[Len(s)] - s[i] + t[i]
<1> DEFINE n == Len(s)
           d == t[i] - s[i]
           g == [k \in 0..n |-> Sums(s)[k] + (IF k >= i THEN d ELSE 0)]
<1>1. n \in Nat /\ (\A j \in 1..n : s[j] \in Int /\ t[j] \in Int) /\ i \in 1..n OBVIOUS
<1>2. /\ Sums(s) \in [0..n -> Int] /\ Sums(s)[0] = 0
      /\ \A j \in 1..n : Sums(s)[j] = Sums(s)[j - 1] + s[j]
  BY SumsAre
<1>3. g[0] = 0 BY <1>1, <1>2
<1>4. \A j \in 1..Len(t) : g[j] = g[j - 1] + t[j]
  <2> TAKE j \in 1..Len(t)
  <2>1. j \in 0..n /\ j - 1 \in 0..n /\ j \in 1..n BY <1>1
  <2>2. g[j] = Sums(s)[j] + (IF j >= i THEN d ELSE 0)
        /\ g[j - 1] = Sums(s)[j - 1] + (IF j - 1 >= i THEN d ELSE 0)
    BY <2>1
  <2>3. Sums(s)[j] = Sums(s)[j - 1] + s[j] /\ Sums(s)[j - 1] \in Int /\ s[j] \in Int
        /\ t[j] \in Int /\ s[i] \in Int /\ t[i] \in Int
    BY <1>1, <1>2, <2>1
  <2>4. CASE j = i
    <3>1. d = t[i] - s[i] /\ ~(j - 1 >= i) /\ j >= i /\ i \in Int BY <1>1, <2>4
    <3>2. s[j] = s[i] /\ t[j] = t[i] BY <2>4
    <3> HIDE DEF g, d
    <3>3. g[j] = Sums(s)[j] + d /\ g[j - 1] = Sums(s)[j - 1] + 0 BY <2>2, <3>1
    <3> QED BY <2>3, <3>1, <3>2, <3>3
  <2>5. CASE j < i
    <3>1. t[j] = s[j] BY <2>1, <2>5
    <3> HIDE DEF g, d
    <3> QED BY <1>1, <2>1, <2>2, <2>3, <2>5, <3>1
  <2>6. CASE j > i
    <3>1. t[j] = s[j] /\ d \in Int BY SMTT(20), <2>1, <2>3, <2>6
    <3> HIDE DEF g, d
    <3> QED BY SMTT(20), <1>1, <2>1, <2>2, <2>3, <2>6, <3>1
  <2> QED BY <1>1, <2>1, <2>4, <2>5, <2>6
<1>5. \A j \in 0..n : Sums(t)[j] = g[j]
  <2> HIDE DEF g
  <2>1. PICK h : h = g OBVIOUS
  <2>2. h[0] = 0 /\ \A j \in 1..Len(t) : h[j] = h[j - 1] + t[j] BY <1>3, <1>4, <2>1
  <2>3. \A j \in 0..Len(t) : Sums(t)[j] = h[j] BY <2>2, SumsOnly
  <2> QED BY <2>1, <2>3
<1>6. g[n] = Sums(s)[n] + d /\ n \in 0..n /\ Sums(s)[n] \in Int /\ s[i] \in Int /\ t[i] \in Int
  BY <1>1, <1>2
<1>7. Sums(t)[n] = Sums(s)[n] + (t[i] - s[i]) BY <1>5, <1>6
<1> HIDE DEF g, d
<1> QED BY <1>6, <1>7

\* Zeros have no sum.
LEMMA SumsZero ==
  ASSUME NEW s \in Seq(Int), \A i \in 1..Len(s) : s[i] = 0
  PROVE  \A k \in 0..Len(s) : Sums(s)[k] = 0
<1> DEFINE g == [k \in 0..Len(s) |-> 0]
<1>1. g[0] = 0 /\ \A i \in 1..Len(s) : g[i] = g[i - 1] + s[i] OBVIOUS
<1>2. \A k \in 0..Len(s) : g[k] = 0 OBVIOUS
<1> HIDE DEF g
<1>3. \A k \in 0..Len(s) : Sums(s)[k] = g[k] BY <1>1, SumsOnly
<1> QED BY <1>2, <1>3

\* The drops a line tells of.
Weight(line) == IF IsReport(line.frame) THEN line.frame.number ELSE 0

LEMMA TailIs ==
  ASSUME NEW T, NEW a \in Seq(T), NEW b \in Seq(T), a # <<>>, Len(b) = Len(a) - 1,
         \A k \in 1..(Len(a) - 1) : b[k] = a[k + 1]
  PROVE  b = Tail(a)
<1>1. /\ Tail(a) \in Seq(T) /\ Len(Tail(a)) = Len(a) - 1 /\ Len(a) \in Nat \ {0}
      /\ \A k \in 1..(Len(a) - 1) : Tail(a)[k] = a[k + 1]
  OBVIOUS
<1>2. PICK c \in Seq(T) : c = Tail(a) BY <1>1
<1>3. Len(c) = Len(b) /\ \A k \in 1..Len(b) : c[k] = b[k] BY <1>1, <1>2
<1>4. c = b BY <1>3
<1> QED BY <1>2, <1>4

LEMMA WeightsAre ==
  ASSUME NEW q \in Seq(Line)
  PROVE  /\ [j \in DOMAIN q |-> Weight(q[j])] \in Seq(Nat)
         /\ Len([j \in DOMAIN q |-> Weight(q[j])]) = Len(q)
         /\ Reported(q) = Sums([j \in DOMAIN q |-> Weight(q[j])])
<1>1. \A j \in DOMAIN q : Weight(q[j]) \in Nat
  <2> TAKE j \in DOMAIN q
  <2>1. PICK line \in Line : line = q[j] OBVIOUS
  <2>2. line.frame \in Message BY DEF Line
  <2>3. line.frame.number \in Nat BY <2>2 DEF Message
  <2> QED BY <2>1, <2>3 DEF Weight
<1>2. DOMAIN q = 1..Len(q) /\ Len(q) \in Nat OBVIOUS
<1>3. Reported(q) = Sums([j \in DOMAIN q |-> Weight(q[j])]) BY DEF Reported, Weight
<1> QED BY <1>1, <1>2, <1>3

LEMMA ReportedNat ==
  ASSUME NEW q \in Seq(Line)
  PROVE  /\ \A k \in 0..Len(q) : Reported(q)[k] \in Nat
         /\ Total(q) \in Nat
         /\ Reported(q)[0] = 0
<1> DEFINE w == [j \in DOMAIN q |-> Weight(q[j])]
<1>1. w \in Seq(Nat) /\ Len(w) = Len(q) /\ Reported(q) = Sums(w) /\ Len(q) \in Nat BY WeightsAre
<1> HIDE DEF w
<1>2. \A k \in 0..Len(q) : Reported(q)[k] \in Nat BY <1>1, SumsNat
<1>3. Reported(q)[0] = 0 BY <1>1, SumsNat, SumsAre
<1> QED BY <1>1, <1>2, <1>3 DEF Total

LEMMA ReportedAppend ==
  ASSUME NEW q \in Seq(Line), NEW x \in Line
  PROVE  /\ \A k \in 0..Len(q) : Reported(Append(q, x))[k] = Reported(q)[k]
         /\ Reported(Append(q, x))[Len(q) + 1] = Total(q) + Weight(x)
         /\ Total(Append(q, x)) = Total(q) + Weight(x)
         /\ Append(q, x) \in Seq(Line) /\ Len(Append(q, x)) = Len(q) + 1
         /\ \A k \in 1..Len(q) : Append(q, x)[k] = q[k]
         /\ Append(q, x)[Len(q) + 1] = x
<1> DEFINE w == [j \in DOMAIN q |-> Weight(q[j])]
           t == Append(q, x)
           v == [j \in DOMAIN t |-> Weight(t[j])]
<1>1. w \in Seq(Nat) /\ Len(w) = Len(q) /\ Reported(q) = Sums(w) BY WeightsAre
<1>2. /\ t \in Seq(Line) /\ Len(t) = Len(q) + 1 /\ Len(q) \in Nat
      /\ \A k \in 1..Len(q) : t[k] = q[k]
      /\ t[Len(q) + 1] = x
  OBVIOUS
<1>3. v \in Seq(Nat) /\ Reported(t) = Sums(v) /\ Len(v) = Len(q) + 1
  <2> HIDE DEF t
  <2> QED BY <1>2, WeightsAre
<1>4. Weight(x) \in Nat BY DEF Weight, Line, Message
<1>5. v = Append(w, Weight(x))
  <2>1. \A k \in 1..Len(q) : v[k] = w[k]
    <3> TAKE k \in 1..Len(q)
    <3>1. k \in DOMAIN t /\ k \in DOMAIN q /\ t[k] = q[k] BY <1>2
    <3> HIDE DEF t
    <3> QED BY <3>1
  <2>2. v[Len(q) + 1] = Weight(x)
    <3>1. Len(q) + 1 \in DOMAIN t BY <1>2
    <3> HIDE DEF t
    <3> QED BY <1>2, <3>1
  <2> HIDE DEF v, w
  <2> QED BY <1>1, <1>2, <1>3, <1>4, <2>1, <2>2
<1> HIDE DEF v, w
<1>6. w \in Seq(Int) BY <1>1, SumsNat
<1>7. Weight(x) \in Int BY <1>4
<1>8. /\ \A k \in 0..Len(w) : Sums(v)[k] = Sums(w)[k]
      /\ Sums(v)[Len(w) + 1] = Sums(w)[Len(w)] + Weight(x)
  BY <1>5, <1>6, <1>7, SumsAppend
<1> QED BY <1>1, <1>2, <1>3, <1>8 DEF Total

LEMMA ReportedTail ==
  ASSUME NEW q \in Seq(Line), q # <<>>
  PROVE  /\ \A k \in 0..(Len(q) - 1) : Reported(Tail(q))[k] = Reported(q)[k + 1] - Weight(q[1])
         /\ Total(Tail(q)) = Total(q) - Weight(q[1])
         /\ Tail(q) \in Seq(Line) /\ Len(Tail(q)) = Len(q) - 1
         /\ q[1] \in Line /\ Len(q) \in Nat \ {0}
         /\ \A k \in 1..(Len(q) - 1) : Tail(q)[k] = q[k + 1]
<1> DEFINE w == [j \in DOMAIN q |-> Weight(q[j])]
           t == Tail(q)
           v == [j \in DOMAIN t |-> Weight(t[j])]
<1>1. w \in Seq(Nat) /\ Len(w) = Len(q) /\ Reported(q) = Sums(w) BY WeightsAre
<1>2. /\ t \in Seq(Line) /\ Len(t) = Len(q) - 1 /\ Len(q) \in Nat \ {0} /\ q[1] \in Line
      /\ \A k \in 1..(Len(q) - 1) : t[k] = q[k + 1]
  OBVIOUS
<1>3. v \in Seq(Nat) /\ Reported(t) = Sums(v) /\ Len(v) = Len(q) - 1
  <2> HIDE DEF t
  <2> QED BY <1>2, WeightsAre
<1>4. w # <<>> /\ w[1] = Weight(q[1])
  BY <1>2, <1>1
<1>5. v = Tail(w)
  <2>1. \A k \in 1..(Len(q) - 1) : v[k] = w[k + 1]
    <3> TAKE k \in 1..(Len(q) - 1)
    <3>1. k \in DOMAIN t /\ k + 1 \in DOMAIN q /\ t[k] = q[k + 1] BY <1>2
    <3> HIDE DEF t
    <3> QED BY <3>1
  <2> HIDE DEF v, w
  <2>2. PICK a \in Seq(Nat), b \in Seq(Nat) : a = w /\ b = v BY <1>1, <1>3
  <2>3. a # <<>> /\ Len(b) = Len(a) - 1 /\ \A k \in 1..(Len(a) - 1) : b[k] = a[k + 1]
    BY <1>1, <1>3, <1>4, <2>1, <2>2
  <2>4. b = Tail(a) BY <2>3, TailIs
  <2> QED BY <2>2, <2>4
<1> HIDE DEF v, w
<1>6. w \in Seq(Int) BY <1>1, SumsNat
<1>7. \A k \in 0..(Len(w) - 1) : Sums(v)[k] = Sums(w)[k + 1] - w[1]
  BY <1>4, <1>5, <1>6, SumsTail
<1>8. \A k \in 0..(Len(q) - 1) : Reported(t)[k] = Reported(q)[k + 1] - Weight(q[1])
  BY <1>1, <1>3, <1>4, <1>7
<1>9. Len(q) - 1 \in 0..(Len(q) - 1) /\ Len(q) - 1 + 1 = Len(q) BY <1>2
<1>10. Total(t) = Total(q) - Weight(q[1]) BY <1>2, <1>8, <1>9 DEF Total
<1> QED BY <1>2, <1>8, <1>10

\* The differences that are posted.
Delta(line) == IF line.frame = Nothing THEN line.delta ELSE 0

LEMMA DeltasAre ==
  ASSUME NEW q \in Seq(Line)
  PROVE  /\ [j \in DOMAIN q |-> Delta(q[j])] \in Seq(Int)
         /\ Len([j \in DOMAIN q |-> Delta(q[j])]) = Len(q)
         /\ Deltas(q) = Sums([j \in DOMAIN q |-> Delta(q[j])])
         /\ \A k \in 0..Len(q) : Deltas(q)[k] \in Int
         /\ Deltas(q)[0] = 0
<1> DEFINE w == [j \in DOMAIN q |-> Delta(q[j])]
<1>1. \A j \in DOMAIN q : Delta(q[j]) \in Int
  <2> TAKE j \in DOMAIN q
  <2>1. PICK line \in Line : line = q[j] OBVIOUS
  <2>2. line.delta \in Int BY DEF Line
  <2> QED BY <2>1, <2>2 DEF Delta
<1>2. DOMAIN q = 1..Len(q) /\ Len(q) \in Nat OBVIOUS
<1>3. Deltas(q) = Sums(w) BY DEF Deltas, Delta
<1>4. w \in Seq(Int) /\ Len(w) = Len(q) BY <1>1, <1>2
<1> HIDE DEF w
<1>5. Sums(w) \in [0..Len(w) -> Int] /\ Sums(w)[0] = 0 BY <1>4, SumsAre
<1> QED BY <1>3, <1>4, <1>5 DEF w

LEMMA DeltasAppend ==
  ASSUME NEW q \in Seq(Line), NEW x \in Line
  PROVE  /\ \A k \in 0..Len(q) : Deltas(Append(q, x))[k] = Deltas(q)[k]
         /\ Deltas(Append(q, x))[Len(q) + 1] = Deltas(q)[Len(q)] + Delta(x)
<1> DEFINE w == [j \in DOMAIN q |-> Delta(q[j])]
           t == Append(q, x)
           v == [j \in DOMAIN t |-> Delta(t[j])]
<1>1. w \in Seq(Int) /\ Len(w) = Len(q) /\ Deltas(q) = Sums(w) BY DeltasAre
<1>2. /\ t \in Seq(Line) /\ Len(t) = Len(q) + 1 /\ Len(q) \in Nat
      /\ \A k \in 1..Len(q) : t[k] = q[k]
      /\ t[Len(q) + 1] = x
  OBVIOUS
<1>3. v \in Seq(Int) /\ Deltas(t) = Sums(v) /\ Len(v) = Len(q) + 1
  <2> HIDE DEF t
  <2> QED BY <1>2, DeltasAre
<1>4. Delta(x) \in Int BY DEF Delta, Line
<1>5. v = Append(w, Delta(x))
  <2>1. \A k \in 1..Len(q) : v[k] = w[k]
    <3> TAKE k \in 1..Len(q)
    <3>1. k \in DOMAIN t /\ k \in DOMAIN q /\ t[k] = q[k] BY <1>2
    <3> HIDE DEF t
    <3> QED BY <3>1
  <2>2. v[Len(q) + 1] = Delta(x)
    <3>1. Len(q) + 1 \in DOMAIN t BY <1>2
    <3> HIDE DEF t
    <3> QED BY <1>2, <3>1
  <2> HIDE DEF v, w
  <2> QED BY <1>1, <1>2, <1>3, <1>4, <2>1, <2>2
<1> HIDE DEF v, w
<1>8. /\ \A k \in 0..Len(w) : Sums(v)[k] = Sums(w)[k]
      /\ Sums(v)[Len(w) + 1] = Sums(w)[Len(w)] + Delta(x)
  BY <1>1, <1>4, <1>5, SumsAppend
<1> QED BY <1>1, <1>2, <1>3, <1>8

LEMMA DeltasTail ==
  ASSUME NEW q \in Seq(Line), q # <<>>
  PROVE  \A k \in 0..(Len(q) - 1) : Deltas(Tail(q))[k] = Deltas(q)[k + 1] - Delta(q[1])
<1> DEFINE w == [j \in DOMAIN q |-> Delta(q[j])]
           t == Tail(q)
           v == [j \in DOMAIN t |-> Delta(t[j])]
<1>1. w \in Seq(Int) /\ Len(w) = Len(q) /\ Deltas(q) = Sums(w) BY DeltasAre
<1>2. /\ t \in Seq(Line) /\ Len(t) = Len(q) - 1 /\ Len(q) \in Nat \ {0} /\ q[1] \in Line
      /\ \A k \in 1..(Len(q) - 1) : t[k] = q[k + 1]
  OBVIOUS
<1>3. v \in Seq(Int) /\ Deltas(t) = Sums(v) /\ Len(v) = Len(q) - 1
  <2> HIDE DEF t
  <2> QED BY <1>2, DeltasAre
<1>4. w # <<>> /\ w[1] = Delta(q[1])
  BY <1>2, <1>1
<1>5. v = Tail(w)
  <2>1. \A k \in 1..(Len(q) - 1) : v[k] = w[k + 1]
    <3> TAKE k \in 1..(Len(q) - 1)
    <3>1. k \in DOMAIN t /\ k + 1 \in DOMAIN q /\ t[k] = q[k + 1] BY <1>2
    <3> HIDE DEF t
    <3> QED BY <3>1
  <2> HIDE DEF v, w
  <2>2. PICK a \in Seq(Int), b \in Seq(Int) : a = w /\ b = v BY <1>1, <1>3
  <2>3. a # <<>> /\ Len(b) = Len(a) - 1 /\ \A k \in 1..(Len(a) - 1) : b[k] = a[k + 1]
    BY <1>1, <1>3, <1>4, <2>1, <2>2
  <2>4. b = Tail(a) BY <2>3, TailIs
  <2> QED BY <2>2, <2>4
<1> HIDE DEF v, w
<1>7. \A k \in 0..(Len(w) - 1) : Sums(v)[k] = Sums(w)[k + 1] - w[1]
  BY <1>1, <1>4, <1>5, SumsTail
<1> QED BY <1>1, <1>3, <1>4, <1>7

LEMMA SumsEmpty == Total(<<>>) = 0
<1>1. <<>> \in Seq(Line) /\ Len(<<>>) = 0 OBVIOUS
<1> QED BY <1>1, ReportedNat DEF Total

-----------------------------------------------------------------------------
(***************************************************************************)
(* Sequences of lines                                                      *)
(***************************************************************************)
LEMMA AppendAt ==
  ASSUME NEW q \in Seq(Line), NEW x \in Line, NEW r, r = Append(q, x)
  PROVE  /\ r \in Seq(Line) /\ Len(r) = Len(q) + 1 /\ DOMAIN q = 1..Len(q)
         /\ DOMAIN r = 1..Len(q) + 1 /\ Len(q) \in Nat
         /\ \A k \in 1..Len(q) : r[k] = q[k]
         /\ r[Len(q) + 1] = x
  OBVIOUS

LEMMA TailAt ==
  ASSUME NEW q \in Seq(Line), q # <<>>, NEW r, r = Tail(q)
  PROVE  /\ r \in Seq(Line) /\ Len(r) = Len(q) - 1 /\ DOMAIN q = 1..Len(q)
         /\ DOMAIN r = 1..Len(q) - 1 /\ Len(q) \in Nat \ {0} /\ q[1] \in Line
         /\ \A k \in 1..Len(q) - 1 : r[k] = q[k + 1]
  OBVIOUS

LEMMA RisingAppend ==
  ASSUME NEW q \in Seq(Line), NEW x \in Line, Rising(q), \A i \in DOMAIN q : LinesApart(q[i], x)
  PROVE  Rising(Append(q, x))
<1>0. PICK r : r = Append(q, x) OBVIOUS
<1>1. PICK n \in Nat : n = Len(q) OBVIOUS
<1>2. /\ DOMAIN r = 1..n + 1 /\ DOMAIN q = 1..n
      /\ \A k \in 1..n : r[k] = q[k]
      /\ r[n + 1] = x
  BY <1>0, <1>1, AppendAt
<1>3. Rising(r) BY <1>2 DEF Rising
<1> QED BY <1>0, <1>3

LEMMA RisingTail ==
  ASSUME NEW q \in Seq(Line), q # <<>>, Rising(q)
  PROVE  /\ Rising(Tail(q))
         /\ \A j \in DOMAIN Tail(q) : LinesApart(q[1], Tail(q)[j])
<1>0. PICK r : r = Tail(q) OBVIOUS
<1>1. PICK n \in Nat \ {0} : n = Len(q) OBVIOUS
<1>2. /\ DOMAIN r = 1..n - 1 /\ DOMAIN q = 1..n
      /\ \A k \in 1..n - 1 : r[k] = q[k + 1]
  BY <1>0, <1>1, TailAt
<1>3. \A i, j \in 1..n : i < j => LinesApart(q[i], q[j]) BY <1>2 DEF Rising
<1>4. Rising(r) /\ \A j \in DOMAIN r : LinesApart(q[1], r[j])
  BY <1>3, <1>2 DEF Rising
<1> QED BY <1>0, <1>4

LEMMA UnderAppend ==
  ASSUME NEW q \in Seq(Line), NEW x \in Line, NEW r
  PROVE  /\ Under(q, r) /\ (\A j \in DOMAIN r : LinesApart(x, r[j])) => Under(Append(q, x), r)
         /\ Under(r, q) /\ (\A j \in DOMAIN r : LinesApart(r[j], x)) => Under(r, Append(q, x))
<1>0. PICK s : s = Append(q, x) OBVIOUS
<1>1. PICK n \in Nat : n = Len(q) OBVIOUS
<1>2. /\ DOMAIN s = 1..n + 1 /\ DOMAIN q = 1..n
      /\ \A k \in 1..n : s[k] = q[k]
      /\ s[n + 1] = x
  BY <1>0, <1>1, AppendAt
<1>3. /\ Under(q, r) /\ (\A j \in DOMAIN r : LinesApart(x, r[j])) => Under(s, r)
      /\ Under(r, q) /\ (\A j \in DOMAIN r : LinesApart(r[j], x)) => Under(r, s)
  BY <1>2 DEF Under
<1> QED BY <1>0, <1>3

LEMMA UnderTail ==
  ASSUME NEW q \in Seq(Line), q # <<>>, NEW r
  PROVE  /\ Under(q, r) => Under(Tail(q), r) /\ \A j \in DOMAIN r : LinesApart(q[1], r[j])
         /\ Under(r, q) => Under(r, Tail(q)) /\ \A j \in DOMAIN r : LinesApart(r[j], q[1])
<1>0. PICK s : s = Tail(q) OBVIOUS
<1>1. PICK n \in Nat \ {0} : n = Len(q) OBVIOUS
<1>2. /\ DOMAIN s = 1..n - 1 /\ DOMAIN q = 1..n
      /\ \A k \in 1..n - 1 : s[k] = q[k + 1]
  BY <1>0, <1>1, TailAt
<1>3. \A k \in 1..n - 1 : k + 1 \in 1..n OBVIOUS
<1>4. 1 \in 1..n OBVIOUS
<1>5. ASSUME Under(q, r) PROVE Under(s, r) /\ \A j \in DOMAIN r : LinesApart(q[1], r[j])
  BY <1>2, <1>5, <1>3, <1>4 DEF Under
<1>6. ASSUME Under(r, q) PROVE Under(r, s) /\ \A j \in DOMAIN r : LinesApart(r[j], q[1])
  BY <1>2, <1>6, <1>3, <1>4 DEF Under
<1> QED BY <1>0, <1>5, <1>6

LEMMA EnoughAppend ==
  ASSUME NEW q \in Seq(Line), NEW x \in Line, NEW b \in Nat, Enough(q, b),
         ~IsReport(x.frame) => b + Total(q) >= Need(x.via, x.frame)
  PROVE  Enough(Append(q, x), b)
<1>0. PICK s : s = Append(q, x) OBVIOUS
<1>1. PICK n \in Nat : n = Len(q) OBVIOUS
<1>2. /\ DOMAIN s = 1..n + 1 /\ DOMAIN q = 1..n
      /\ \A k \in 1..n : s[k] = q[k]
      /\ s[n + 1] = x
  BY <1>0, <1>1, AppendAt
<1>3. /\ \A k \in 0..n : Reported(s)[k] = Reported(q)[k]
      /\ Reported(s)[n + 1] = Total(q) + Weight(x)
  BY <1>0, <1>1, ReportedAppend
<1>4. ~IsReport(x.frame) => Weight(x) = 0 BY DEF Weight
<1>5. Total(q) \in Nat BY ReportedNat
<1>6. ASSUME NEW i \in DOMAIN s, ~IsReport(s[i].frame)
      PROVE  b + Reported(s)[i] >= Need(s[i].via, s[i].frame)
  BY <1>2, <1>3, <1>4, <1>5, <1>6 DEF Enough
<1>7. Enough(s, b) BY <1>6 DEF Enough
<1> QED BY <1>0, <1>7

LEMMA EnoughTail ==
  ASSUME NEW q \in Seq(Line), q # <<>>, NEW b \in Nat, Enough(q, b)
  PROVE  /\ Enough(Tail(q), b + Weight(q[1]))
         /\ ~IsReport(q[1].frame) => b >= Need(q[1].via, q[1].frame)
<1>0. PICK s : s = Tail(q) OBVIOUS
<1>1. PICK n \in Nat \ {0} : n = Len(q) OBVIOUS
<1>2. /\ DOMAIN s = 1..n - 1 /\ DOMAIN q = 1..n /\ q[1] \in Line
      /\ \A k \in 1..n - 1 : s[k] = q[k + 1]
  BY <1>0, <1>1, TailAt
<1>3. \A k \in 0..n - 1 : Reported(s)[k] = Reported(q)[k + 1] - Weight(q[1])
  BY <1>0, <1>1, ReportedTail
<1>4. PICK w \in Nat : w = Weight(q[1])
  BY <1>2 DEF Weight, Line, Message
<1>5. \A k \in 0..n : Reported(q)[k] \in Nat BY <1>1, ReportedNat
<1>6. ASSUME NEW i \in DOMAIN s, ~IsReport(s[i].frame)
      PROVE  b + w + Reported(s)[i] >= Need(s[i].via, s[i].frame)
  <2>1. i + 1 \in 1..n /\ i \in 0..n - 1 BY <1>2
  <2>2. b + Reported(q)[i + 1] >= Need(q[i + 1].via, q[i + 1].frame) BY <2>1, <1>2, <1>6 DEF Enough
  <2>3. Reported(q)[i + 1] \in Nat BY <2>1, <1>5
  <2>4. Reported(s)[i] = Reported(q)[i + 1] - w BY <2>1, <1>3, <1>4
  <2>5. b + w + Reported(s)[i] = b + Reported(q)[i + 1] BY <2>3, <2>4
  <2> QED BY <2>1, <2>2, <2>5, <1>2
<1>7. Enough(s, b + w) BY <1>6 DEF Enough
<1>8. ASSUME ~IsReport(q[1].frame) PROVE b >= Need(q[1].via, q[1].frame)
  <2>1. w = 0 BY <1>4, <1>8 DEF Weight
  <2>2. s \in Seq(Line) /\ 0 \in 0..n - 1 /\ 1 \in 1..n BY <1>0, <1>1
  <2>3. Reported(s)[0] = 0 BY <2>2, ReportedNat
  <2>4. Reported(q)[1] \in Nat BY <2>2, <1>5
  <2>5. Reported(s)[0] = Reported(q)[0 + 1] - w BY <2>2, <1>3, <1>4
  <2>6. Reported(q)[1] = 0 BY <2>1, <2>3, <2>4, <2>5
  <2>7. b + Reported(q)[1] >= Need(q[1].via, q[1].frame) BY <2>2, <1>2, <1>8 DEF Enough
  <2> QED BY <2>6, <2>7
<1> QED BY <1>0, <1>4, <1>7, <1>8

LEMMA EnoughMore ==
  ASSUME NEW q \in Seq(Line), NEW a \in Nat, NEW b \in Nat, a <= b, Enough(q, a),
         \A c, f : Need(c, f) \in Nat
  PROVE  Enough(q, b)
BY ReportedNat DEF Enough

LEMMA FramesAppend ==
  ASSUME NEW q \in Seq(Line), NEW x \in Line
  PROVE  FramesOf(Append(q, x)) = FramesOf(q) \union {x.frame}
<1>0. PICK s : s = Append(q, x) OBVIOUS
<1>1. PICK n \in Nat : n = Len(q) OBVIOUS
<1>2. /\ DOMAIN s = 1..n + 1 /\ DOMAIN q = 1..n
      /\ \A k \in 1..n : s[k] = q[k]
      /\ s[n + 1] = x
  BY <1>0, <1>1, AppendAt
<1>3. 1..n + 1 = 1..n \union {n + 1} OBVIOUS
<1>4. FramesOf(s) = FramesOf(q) \union {x.frame} BY <1>2, <1>3 DEF FramesOf
<1> QED BY <1>0, <1>4

LEMMA FramesTail ==
  ASSUME NEW q \in Seq(Line), q # <<>>
  PROVE  FramesOf(Tail(q)) \subseteq FramesOf(q) /\ q[1].frame \in FramesOf(q)
<1>0. PICK s : s = Tail(q) OBVIOUS
<1>1. PICK n \in Nat \ {0} : n = Len(q) OBVIOUS
<1>2. /\ DOMAIN s = 1..n - 1 /\ DOMAIN q = 1..n
      /\ \A k \in 1..n - 1 : s[k] = q[k + 1]
  BY <1>0, <1>1, TailAt
<1>3. 1 \in 1..n /\ \A k \in 1..n - 1 : k + 1 \in 1..n OBVIOUS
<1>4. FramesOf(s) \subseteq FramesOf(q) /\ q[1].frame \in FramesOf(q) BY <1>2, <1>3 DEF FramesOf
<1> QED BY <1>0, <1>4

LEMMA WayIn ==
  ASSUME NEW W \in Seq(Seq(Line)), NEW c \in DOMAIN W
  PROVE  W[c] \in Seq(Line) /\ Total(W[c]) \in Nat /\ Len(W) \in Nat /\ DOMAIN W = 1..Len(W)
BY ReportedNat

LEMMA PipesAre ==
  ASSUME NEW W \in Seq(Seq(Line))
  PROVE  /\ [c \in DOMAIN W |-> Total(W[c])] \in Seq(Nat)
         /\ [c \in DOMAIN W |-> Total(W[c])] \in Seq(Int)
         /\ Len([c \in DOMAIN W |-> Total(W[c])]) = Len(W)
         /\ InPipes(W) \in Nat
<1>1. \A c \in DOMAIN W : Total(W[c]) \in Nat BY WayIn
<1>2. DOMAIN W = 1..Len(W) /\ Len(W) \in Nat OBVIOUS
<1> DEFINE s == [c \in DOMAIN W |-> Total(W[c])]
<1>3. s \in Seq(Nat) /\ Len(s) = Len(W) BY <1>1, <1>2
<1> HIDE DEF s
<1>4. s \in Seq(Int) /\ \A k \in 0..Len(s) : Sums(s)[k] \in Nat BY <1>3, SumsNat
<1>5. Sums(s)[Len(W)] \in Nat BY <1>2, <1>3, <1>4
<1>6. InPipes(W) \in Nat BY <1>5 DEF InPipes, s
<1> QED BY <1>3, <1>4, <1>6 DEF s

LEMMA PipesExcept ==
  ASSUME NEW W \in Seq(Seq(Line)), NEW V \in Seq(Seq(Line)), Len(V) = Len(W), NEW c \in DOMAIN W,
         \A d \in DOMAIN W : d # c => V[d] = W[d]
  PROVE  InPipes(V) = InPipes(W) - Total(W[c]) + Total(V[c])
<1> DEFINE s == [d \in DOMAIN W |-> Total(W[d])]
           t == [d \in DOMAIN V |-> Total(V[d])]
<1>1. DOMAIN W = 1..Len(W) /\ DOMAIN V = 1..Len(W) /\ Len(W) \in Nat OBVIOUS
<1>2. s \in Seq(Int) /\ t \in Seq(Int) /\ Len(s) = Len(W) /\ Len(t) = Len(s) BY PipesAre
<1>3. c \in 1..Len(s) /\ \A j \in 1..Len(s) : j # c => t[j] = s[j] BY <1>1, <1>2
<1>4. s[c] = Total(W[c]) /\ t[c] = Total(V[c]) BY <1>1
<1>5. InPipes(W) = Sums(s)[Len(s)] /\ InPipes(V) = Sums(t)[Len(s)] BY <1>2 DEF InPipes
<1> HIDE DEF s, t
<1>6. Sums(t)[Len(s)] = Sums(s)[Len(s)] - s[c] + t[c] BY <1>2, <1>3, SumsExcept
<1> QED BY <1>4, <1>5, <1>6

LEMMA PipesEmpty ==
  ASSUME NEW W \in Seq(Seq(Line)), \A d \in DOMAIN W : W[d] = <<>>
  PROVE  InPipes(W) = 0
<1> DEFINE s == [d \in DOMAIN W |-> Total(W[d])]
<1>1. s \in Seq(Int) /\ Len(s) = Len(W) BY PipesAre
<1>2. DOMAIN W = 1..Len(W) /\ Len(W) \in Nat OBVIOUS
<1>3. \A j \in 1..Len(s) : s[j] = 0 BY <1>1, <1>2, SumsEmpty
<1>4. InPipes(W) = Sums(s)[Len(s)] BY <1>1 DEF InPipes
<1> HIDE DEF s
<1>5. Len(s) \in 0..Len(s) BY <1>1, <1>2
<1> QED BY <1>1, <1>3, <1>4, <1>5, SumsZero

LEMMA PipesAppend ==
  ASSUME NEW W \in Seq(Seq(Line))
  PROVE  InPipes(Append(W, <<>>)) = InPipes(W)
<1> DEFINE s == [d \in DOMAIN W |-> Total(W[d])]
<1>0. PICK V : V = Append(W, <<>>) OBVIOUS
<1> DEFINE t == [d \in DOMAIN V |-> Total(V[d])]
<1>1. PICK n \in Nat : n = Len(W) OBVIOUS
<1>2. /\ V \in Seq(Seq(Line)) /\ Len(V) = n + 1 /\ DOMAIN V = 1..n + 1 /\ DOMAIN W = 1..n
      /\ \A k \in 1..n : V[k] = W[k]
      /\ V[n + 1] = <<>>
  BY <1>1, <1>0
<1>3. s \in Seq(Int) /\ Len(s) = n BY <1>1, PipesAre
<1>4. t \in Seq(Int) /\ Len(t) = n + 1 BY <1>2, PipesAre
<1>5. \A k \in 1..n : t[k] = s[k] BY <1>2
<1>6. t[n + 1] = 0 BY <1>2, SumsEmpty
<1>7. InPipes(W) = Sums(s)[n] /\ InPipes(V) = Sums(t)[n + 1] BY <1>1, <1>2 DEF InPipes
<1> HIDE DEF s, t
<1>8. t = Append(s, 0)
  <2>1. PICK a \in Seq(Int) : a = Append(s, 0)
    <3>1. Append(s, 0) \in Seq(Int) BY <1>3
    <3> QED BY <3>1
  <2>2. Len(a) = n + 1 /\ (\A k \in 1..n : a[k] = s[k]) /\ a[n + 1] = 0 BY <1>3, <2>1
  <2>3. \A k \in 1..n + 1 : a[k] = t[k] BY <2>2, <1>5, <1>6
  <2>4. a = t BY <2>2, <2>3, <1>4
  <2> QED BY <2>1, <2>4
<1>9. Sums(t)[n + 1] = Sums(s)[n] + 0 BY <1>3, <1>8, SumsAppend
<1>10. Sums(s)[n] \in Int
  BY <1>3, SumsAre
<1> QED BY <1>0, <1>7, <1>9, <1>10

\* A frame of no thread stands apart from every other.
LEMMA NobodysApart ==
  ASSUME NEW x, NEW y, x.frame.thread = "none"
  PROVE  LinesApart(x, y) /\ LinesApart(y, x)
  BY ThreadsAssumption DEF LinesApart, Earlier

LEMMA NothingIs ==
  ASSUME NEW x, x.frame = Nothing
  PROVE  x.frame.thread = "none" /\ IsReport(x.frame) /\ Weight(x) = 0
  BY DEF Nothing, IsReport, Weight

-----------------------------------------------------------------------------
(***************************************************************************)
(* What a step does to the lines                                           *)
(***************************************************************************)
LEMMA NeedIs ==
  ASSUME Shapes
  PROVE  /\ \A c, f : Need(c, f) \in Nat
         /\ \A c : Cardinality(RefusedVia(c)) \in Nat
         /\ Cardinality(refused) \in Nat
         /\ \A c, f : Need(c, f) <= Cardinality(RefusedVia(c))
<1>1. IsFiniteSet(refused) BY DEF Shapes
<1>2. ASSUME NEW c PROVE IsFiniteSet(RefusedVia(c)) BY <1>1, FS_Subset DEF RefusedVia
<1>3. ASSUME NEW c, NEW f PROVE Need(c, f) \in Nat /\ Need(c, f) <= Cardinality(RefusedVia(c))
  <2> DEFINE S == {r \in RefusedVia(c) : r.thread = f.thread /\ r.number < f.number}
  <2>1. S \subseteq RefusedVia(c) /\ IsFiniteSet(RefusedVia(c)) BY <1>2
  <2> HIDE DEF S
  <2>2. IsFiniteSet(S) /\ Cardinality(S) <= Cardinality(RefusedVia(c)) BY <2>1, FS_Subset
  <2>3. Cardinality(S) \in Nat BY <2>2, FS_CardinalityType
  <2> QED BY <2>2, <2>3 DEF Need, S
<1> QED BY <1>1, <1>2, <1>3, FS_CardinalityType

\* Posting no line.
LEMMA PostNothingFlow ==
  ASSUME NEW T \in Seq(Line), NEW P \in Seq(Line), NEW W \in Seq(Seq(Line)),
         NEW x \in Line, x.frame = Nothing, NEW Q, Q = Append(P, x)
  PROVE  /\ Frames(T, Q, W) \subseteq Frames(T, P, W) \union {Nothing}
         /\ Ordered(T, P, W) => Ordered(T, Q, W)
         /\ ToldOK(T, P, W) => ToldOK(T, Q, W)
         /\ Total(Q) = Total(P)
BY NothingIs, NobodysApart, FramesAppend, ReportedAppend, ReportedNat, RisingAppend,
   UnderAppend, EnoughAppend DEF Ordered, ToldOK, Frames

\* Showing the first line that was posted.
ShowsOn(T, P, W, U, Q) ==
  /\ Frames(U, Q, W) \subseteq Frames(T, P, W)
  /\ Ordered(T, P, W) => Ordered(U, Q, W)
  /\ ToldOK(T, P, W) => ToldOK(U, Q, W)
  /\ Total(U) + Total(Q) = Total(T) + Total(P)

LEMMA ShowFlow ==
  ASSUME NEW T \in Seq(Line), NEW P \in Seq(Line), NEW W \in Seq(Seq(Line)), P # <<>>,
         NEW U, U = Append(T, P[1]), NEW Q, Q = Tail(P)
  PROVE  ShowsOn(T, P, W, U, Q)
<1>0. PICK x \in Line : x = P[1] BY TailAt
<1>1. U = Append(T, x) BY <1>0
<1>2. U \in Seq(Line) /\ Q \in Seq(Line) BY <1>1
<1>3. PICK w \in Nat : w = Weight(x) BY DEF Weight, Line, Message
<1>4. Total(U) = Total(T) + w /\ Total(Q) = Total(P) - w BY <1>0, <1>1, <1>3, ReportedAppend, ReportedTail
<1>5. Total(T) \in Nat /\ Total(P) \in Nat /\ Total(Q) \in Nat BY <1>2, ReportedNat
<1>6. FramesOf(U) = FramesOf(T) \union {x.frame} /\ FramesOf(Q) \subseteq FramesOf(P)
      /\ x.frame \in FramesOf(P)
  BY <1>0, <1>1, FramesAppend, FramesTail
<1>7. Frames(U, Q, W) \subseteq Frames(T, P, W) BY <1>6 DEF Frames
<1>8. ASSUME Ordered(T, P, W) PROVE Ordered(U, Q, W)
  <2>1. Under(T, Q) /\ \A j \in DOMAIN T : LinesApart(T[j], x) BY <1>0, <1>8, UnderTail DEF Ordered
  <2>2. Rising(U) BY <1>1, <1>8, <2>1, RisingAppend DEF Ordered
  <2>3. Rising(Q) /\ \A j \in DOMAIN Q : LinesApart(x, Q[j]) BY <1>0, <1>8, RisingTail DEF Ordered
  <2>4. Under(U, Q) BY <1>1, <2>1, <2>3, UnderAppend
  <2>5. ASSUME NEW c \in DOMAIN W PROVE Rising(W[c]) /\ Under(U, W[c]) /\ Under(Q, W[c])
    BY <1>8, <1>0, UnderTail, <1>1, UnderAppend DEF Ordered
  <2> QED BY <2>2, <2>3, <2>4, <2>5 DEF Ordered
<1>9. ASSUME ToldOK(T, P, W) PROVE ToldOK(U, Q, W)
  <2>1. Enough(T, 0) /\ Enough(P, Total(T)) BY <1>9 DEF ToldOK
  <2>2. Enough(Q, Total(T) + w) /\ (~IsReport(x.frame) => Total(T) >= Need(x.via, x.frame))
    BY <1>0, <1>3, <1>5, <2>1, EnoughTail
  <2>3. ~IsReport(x.frame) => 0 + Total(T) >= Need(x.via, x.frame) BY <1>5, <2>2
  <2>4. Enough(U, 0) BY <1>1, <2>1, <2>3, EnoughAppend
  <2>5. Total(U) + Total(Q) = Total(T) + Total(P) BY <1>3, <1>4, <1>5
  <2> QED BY <1>4, <1>9, <2>2, <2>4, <2>5 DEF ToldOK
<1> QED BY <1>3, <1>4, <1>5, <1>7, <1>8, <1>9 DEF ShowsOn

\* Showing a count: the line goes.
LEMMA ShowNothingFlow ==
  ASSUME NEW T \in Seq(Line), NEW P \in Seq(Line), NEW W \in Seq(Seq(Line)), P # <<>>,
         P[1].frame = Nothing, NEW Q, Q = Tail(P)
  PROVE  /\ Frames(T, Q, W) \subseteq Frames(T, P, W)
         /\ Ordered(T, P, W) => Ordered(T, Q, W)
         /\ ToldOK(T, P, W) => ToldOK(T, Q, W)
         /\ Total(Q) = Total(P)
BY NothingIs, ReportedTail, ReportedNat, FramesTail, UnderTail, RisingTail, EnoughTail DEF
   Frames, Ordered, ToldOK

\* The lines of a pipe are named for it.
Named(W) == \A c \in DOMAIN W : \A j \in DOMAIN W[c] : W[c][j].via = c

LEMMA FramesExcept ==
  ASSUME NEW T, NEW P, NEW W, NEW V, DOMAIN V = DOMAIN W, NEW c \in DOMAIN W, NEW S,
         \A d \in DOMAIN W : d # c => V[d] = W[d],
         FramesOf(V[c]) \subseteq FramesOf(W[c]) \union S
  PROVE  Frames(T, P, V) \subseteq Frames(T, P, W) \union S
BY DEF Frames

LEMMA SameSum ==
  ASSUME NEW p \in Nat, NEW q \in Nat, NEW m \in Nat, NEW n \in Nat, p + m = q + n
  PROVE  p + m <= q + n
  OBVIOUS

\* Reading the first frame of a pipe.
Reads(T, P, W, c, Q, V) ==
  /\ T \in Seq(Line) /\ P \in Seq(Line) /\ W \in Seq(Seq(Line)) /\ V \in Seq(Seq(Line))
  /\ c \in DOMAIN W /\ W[c] # <<>> /\ Named(W) /\ Q = Append(P, W[c][1])
  /\ Len(V) = Len(W) /\ V[c] = Tail(W[c])
  /\ \A d \in DOMAIN W : d # c => V[d] = W[d]

Shown(T, P, W, Q, V) ==
  /\ Frames(T, Q, V) \subseteq Frames(T, P, W)
  /\ Ordered(T, P, W) => Ordered(T, Q, V)
  /\ ToldOK(T, P, W) => ToldOK(T, Q, V)
  /\ Total(Q) + InPipes(V) <= Total(P) + InPipes(W)
  /\ \A d \in DOMAIN W : Total(P) + Total(W[d]) <= Total(Q) + Total(V[d])

LEMMA ReadsFlow ==
  ASSUME Shapes, NEW T, NEW P, NEW W, NEW c, NEW Q, NEW V, Reads(T, P, W, c, Q, V)
  PROVE  Shown(T, P, W, Q, V)
<1> SUFFICES
      ASSUME T \in Seq(Line), P \in Seq(Line), W \in Seq(Seq(Line)), V \in Seq(Seq(Line)),
             c \in DOMAIN W, W[c] # <<>>, Named(W), Q = Append(P, W[c][1]),
             Len(V) = Len(W), V[c] = Tail(W[c]),
             \A d \in DOMAIN W : d # c => V[d] = W[d]
      PROVE  Shown(T, P, W, Q, V)
  BY DEF Reads
<1>1. W[c] \in Seq(Line) /\ DOMAIN V = DOMAIN W BY WayIn
<1>0. PICK x \in Line : x = W[c][1] BY <1>1, TailAt
<1>2. Q \in Seq(Line) /\ Q = Append(P, x) BY <1>0
<1>3. PICK w \in Nat : w = Weight(x) BY DEF Weight, Line, Message
<1>4. Total(Q) = Total(P) + w /\ Total(V[c]) = Total(W[c]) - w
  <2>1. Total(Q) = Total(P) + w BY <1>2, <1>3, ReportedAppend
  <2>2. PICK q \in Seq(Line) : q = W[c] BY <1>1
  <2>3. q # <<>> /\ x = q[1] BY <1>0, <2>2
  <2>4. Total(Tail(q)) = Total(q) - w BY <1>3, <2>3, ReportedTail
  <2> QED BY <2>1, <2>2, <2>4
<1>5. Total(T) \in Nat /\ Total(P) \in Nat /\ Total(Q) \in Nat
  BY ReportedNat, <1>2
<1>6. \A d \in DOMAIN W : Total(W[d]) \in Nat /\ Total(V[d]) \in Nat /\ W[d] \in Seq(Line) /\ V[d] \in Seq(Line)
  BY <1>1, WayIn
<1>7. FramesOf(Q) = FramesOf(P) \union {x.frame} /\ FramesOf(V[c]) \subseteq FramesOf(W[c])
      /\ x.frame \in FramesOf(W[c])
  BY <1>0, <1>1, <1>2, FramesAppend, FramesTail
<1>8. Frames(T, Q, V) \subseteq Frames(T, P, W)
  <2>1. Frames(T, P, V) \subseteq Frames(T, P, W) \union {} BY <1>1, <1>7, FramesExcept
  <2>2. x.frame \in Frames(T, P, W) BY <1>7 DEF Frames
  <2>3. Frames(T, Q, V) = Frames(T, P, V) \union {x.frame} BY <1>7 DEF Frames
  <2> QED BY <2>1, <2>2, <2>3
<1>9. ASSUME Ordered(T, P, W) PROVE Ordered(T, Q, V)
  <2>0. Rising(W[c]) /\ Under(T, W[c]) /\ Under(P, W[c]) BY <1>9 DEF Ordered
  <2>1. \A j \in DOMAIN P : LinesApart(P[j], x) BY <1>0, <1>1, <2>0, UnderTail
  <2>2. \A j \in DOMAIN T : LinesApart(T[j], x) BY <1>0, <1>1, <2>0, UnderTail
  <2>3. Rising(Q) BY <1>2, <1>9, <2>1, RisingAppend DEF Ordered
  <2>4. Under(T, Q) BY <1>2, <1>9, <2>2, UnderAppend DEF Ordered
  <2>5. ASSUME NEW d \in DOMAIN W PROVE Rising(V[d]) /\ Under(T, V[d]) /\ Under(Q, V[d])
    <3>1. Rising(W[d]) /\ Under(T, W[d]) /\ Under(P, W[d]) BY <1>9 DEF Ordered
    <3>2. CASE d = c
      <4>1. Rising(V[c]) /\ \A j \in DOMAIN V[c] : LinesApart(x, V[c][j])
        BY <1>0, <1>1, <2>0, RisingTail
      <4>2. Under(T, V[c]) /\ Under(P, V[c]) BY <1>1, <2>0, UnderTail
      <4>3. Under(Q, V[c]) BY <1>2, <4>1, <4>2, UnderAppend
      <4> QED BY <3>2, <4>1, <4>2, <4>3
    <3>3. CASE d # c
      <4>1. x.via = c
        BY <1>1, TailAt, <1>0 DEF Named
      <4>2. \A j \in DOMAIN W[d] : LinesApart(x, W[d][j]) BY <3>3, <4>1 DEF Named, LinesApart
      <4>3. Under(Q, W[d]) BY <1>2, <3>1, <4>2, UnderAppend
      <4> QED BY <3>1, <3>3, <4>3
    <3> QED BY <3>2, <3>3
  <2> QED BY <1>1, <1>9, <2>3, <2>4, <2>5 DEF Ordered
<1>10. ASSUME ToldOK(T, P, W) PROVE ToldOK(T, Q, V)
  <2> DEFINE a == Total(T) + Total(P)
  <2>1. a \in Nat /\ Total(T) + Total(Q) = a + w /\ a + w \in Nat
    <3>1. Total(Q) = Total(P) + w BY <1>3, <1>4
    <3>2. w \in Nat BY <1>3
    <3>3. Total(T) \in Nat /\ Total(P) \in Nat BY <1>5
    <3>4. PICK t \in Nat : t = Total(T) BY <3>3
    <3>5. PICK p \in Nat : p = Total(P) BY <3>3
    <3>6. PICK q \in Nat : q = Total(Q) BY <1>5
    <3>7. q = p + w BY <3>1, <3>5, <3>6
    <3>8. t + p \in Nat BY <3>4, <3>5
    <3>9. t + q = (t + p) + w BY <3>4, <3>5, <3>6, <3>7, <3>2
    <3>10. (t + p) + w \in Nat BY SMTT(20), <3>4, <3>5, <3>2
    <3> QED BY <3>4, <3>5, <3>6, <3>8, <3>9, <3>10
  <2>2. \A d \in DOMAIN W : Enough(W[d], a) BY <1>10 DEF ToldOK
  <2> HIDE DEF a
  <2>3. Enough(V[c], a + w) /\ (~IsReport(x.frame) => a >= Need(x.via, x.frame))
    BY <1>0, <1>1, <1>3, <2>1, <2>2, EnoughTail
  <2>4. Enough(Q, Total(T))
    <3>1. ~IsReport(x.frame) => Total(T) + Total(P) >= Need(x.via, x.frame) BY <2>3 DEF a
    <3> QED BY <1>2, <1>5, <1>10, <3>1, EnoughAppend DEF ToldOK
  <2>5. ASSUME NEW d \in DOMAIN W, d # c PROVE Enough(V[d], a + w)
    <3>1. a <= a + w BY <1>3, <2>1
    <3>2. \A k, f : Need(k, f) \in Nat BY NeedIs
    <3>3. Enough(W[d], a + w) BY <1>6, <2>1, <2>2, <3>1, <3>2, EnoughMore
    <3> QED BY <2>5, <3>3
  <2> QED BY <1>1, <1>10, <2>1, <2>3, <2>4, <2>5 DEF ToldOK
<1>11. InPipes(V) = InPipes(W) - Total(W[c]) + Total(V[c]) BY PipesExcept
<1>12. InPipes(W) \in Nat /\ InPipes(V) \in Nat BY PipesAre
<1>13. /\ Total(Q) + InPipes(V) <= Total(P) + InPipes(W)
       /\ Total(P) + Total(W[c]) = Total(Q) + Total(V[c])
  <2>1. Total(Q) = Total(P) + w /\ Total(V[c]) = Total(W[c]) - w BY <1>3, <1>4
  <2>2. Total(W[c]) \in Nat /\ Total(V[c]) \in Nat BY <1>6
  <2>3. w \in Nat BY <1>3
  <2>4. PICK p \in Nat : p = Total(P) BY <1>5
  <2>5. PICK q \in Nat : q = Total(Q) BY <1>5
  <2>6. PICK a \in Nat : a = Total(W[c]) BY <2>2
  <2>7. PICK b \in Nat : b = Total(V[c]) BY <2>2
  <2>8. PICK i \in Nat : i = InPipes(W) BY <1>12
  <2>9. PICK j \in Nat : j = InPipes(V) BY <1>12
  <2>10. q = p + w BY <2>1, <2>4, <2>5
  <2>11. b = a - w BY <2>1, <2>6, <2>7
  <2>12. j = i - a + b BY <1>11, <2>6, <2>7, <2>8, <2>9
  <2>13. q + j <= p + i /\ p + a = q + b BY <2>3, <2>10, <2>11, <2>12
  <2> QED BY <2>4, <2>5, <2>6, <2>7, <2>8, <2>9, <2>13
<1>14. ASSUME NEW d \in DOMAIN W PROVE Total(P) + Total(W[d]) <= Total(Q) + Total(V[d])
  <2>1. PICK p \in Nat, q \in Nat, m \in Nat : p = Total(P) /\ q = Total(Q) /\ m = Total(W[d])
    BY <1>5, <1>6
  <2>2. p <= q BY <1>3, <1>4, <2>1
  <2>3. CASE d = c
    <3>1. Total(W[c]) \in Nat /\ Total(V[c]) \in Nat BY <1>6
    <3>2. Total(P) + Total(W[c]) <= Total(Q) + Total(V[c]) BY <1>5, <1>13, <3>1, SameSum, Zenon
    <3> QED BY <2>3, <3>2
  <2>4. CASE d # c
    <3>1. V[d] = W[d] BY <2>4
    <3> QED BY <2>1, <2>2, <3>1
  <2> QED BY <2>3, <2>4
<1> QED BY <1>8, <1>9, <1>10, <1>13, <1>14 DEF Shown

\* Reading a torn end.
LEMMA TornFlow ==
  ASSUME NEW T \in Seq(Line), NEW P \in Seq(Line), NEW W \in Seq(Seq(Line)),
         NEW c \in DOMAIN W, W[c] # <<>>, W[c][1].frame = Nothing,
         NEW V \in Seq(Seq(Line)), Len(V) = Len(W), V[c] = Tail(W[c]),
         \A d \in DOMAIN W : d # c => V[d] = W[d]
  PROVE  /\ Frames(T, P, V) \subseteq Frames(T, P, W)
         /\ Ordered(T, P, W) => Ordered(T, P, V)
         /\ ToldOK(T, P, W) => ToldOK(T, P, V)
         /\ InPipes(V) <= InPipes(W)
         /\ \A d \in DOMAIN W : Total(V[d]) = Total(W[d])
<1>1. W[c] \in Seq(Line) /\ DOMAIN V = DOMAIN W BY WayIn
<1>2. Weight(W[c][1]) = 0 BY NothingIs
<1>3. Total(V[c]) = Total(W[c]) - 0 BY <1>1, <1>2, ReportedTail
<1>4. Total(W[c]) \in Nat /\ InPipes(W) \in Nat BY WayIn, PipesAre
<1>5. InPipes(V) = InPipes(W) /\ Total(V[c]) = Total(W[c])
  <2>1. InPipes(V) = InPipes(W) - Total(W[c]) + Total(V[c]) BY PipesExcept
  <2> QED BY <1>3, <1>4, <2>1
<1>6. FramesOf(V[c]) \subseteq FramesOf(W[c]) BY <1>1, FramesTail
<1>7. Frames(T, P, V) \subseteq Frames(T, P, W) \union {} BY <1>1, <1>6, FramesExcept
<1>8. ASSUME Ordered(T, P, W) PROVE Ordered(T, P, V)
  BY <1>1, <1>8, RisingTail, UnderTail DEF Ordered
<1>9. ASSUME ToldOK(T, P, W) PROVE ToldOK(T, P, V)
  <2> DEFINE a == Total(T) + Total(P)
  <2>0. Total(T) \in Nat /\ Total(P) \in Nat BY ReportedNat
  <2>1. a \in Nat BY <2>0
  <2>2. \A d \in DOMAIN W : Enough(W[d], a) BY <1>9 DEF ToldOK
  <2> HIDE DEF a
  <2>3. Enough(V[c], a + 0) BY <1>1, <1>2, <2>1, <2>2, EnoughTail
  <2>4. a + 0 = a BY <2>1
  <2> QED BY <1>1, <1>9, <2>2, <2>3, <2>4 DEF ToldOK, a
<1>11. InPipes(V) <= InPipes(W) BY <1>4, <1>5
<1>10. \A d \in DOMAIN W : Total(V[d]) = Total(W[d]) BY <1>5
<1> QED BY <1>7, <1>8, <1>9, <1>10, <1>11

LEMMA EmptyIs ==
  /\ Rising(<<>>) /\ FramesOf(<<>>) = {}
  /\ \A q : Under(<<>>, q) /\ Under(q, <<>>)
  /\ \A b : Enough(<<>>, b)
BY DEF Rising, Under, Enough, FramesOf

\* The reader closes the pipe, and what is in it is lost.
LEMMA ClearFlow ==
  ASSUME NEW T \in Seq(Line), NEW P \in Seq(Line), NEW W \in Seq(Seq(Line)),
         NEW c \in DOMAIN W,
         NEW V \in Seq(Seq(Line)), Len(V) = Len(W), V[c] = <<>>,
         \A d \in DOMAIN W : d # c => V[d] = W[d]
  PROVE  /\ Frames(T, P, V) \subseteq Frames(T, P, W)
         /\ Ordered(T, P, W) => Ordered(T, P, V)
         /\ ToldOK(T, P, W) => ToldOK(T, P, V)
         /\ InPipes(V) <= InPipes(W)
<1>1. DOMAIN V = DOMAIN W BY WayIn
<1>3. Total(V[c]) = 0 BY SumsEmpty
<1>4. Total(W[c]) \in Nat /\ InPipes(W) \in Nat BY WayIn, PipesAre
<1>5. InPipes(V) = InPipes(W) - Total(W[c]) + Total(V[c]) BY PipesExcept
<1>6. FramesOf(V[c]) \subseteq FramesOf(W[c]) BY EmptyIs
<1>7. Frames(T, P, V) \subseteq Frames(T, P, W) \union {} BY <1>1, <1>6, FramesExcept
<1>8. ASSUME Ordered(T, P, W) PROVE Ordered(T, P, V)
  BY EmptyIs, <1>1, <1>8 DEF Ordered
<1>9. ASSUME ToldOK(T, P, W) PROVE ToldOK(T, P, V)
  BY EmptyIs, <1>1, <1>9 DEF ToldOK
<1> QED BY SMTT(20), <1>3, <1>4, <1>5, <1>7, <1>8, <1>9

\* The debugger ends.
LEMMA EndFlow ==
  ASSUME NEW V \in Seq(Seq(Line)), \A d \in DOMAIN V : V[d] = <<>>
  PROVE  /\ Frames(<<>>, <<>>, V) = {}
         /\ Ordered(<<>>, <<>>, V)
         /\ ToldOK(<<>>, <<>>, V)
         /\ InPipes(V) = 0
  BY EmptyIs, PipesEmpty DEF Frames, Ordered, ToldOK

\* The worker writes a frame.
SentOn(T, P, W, c, x, V) ==
  /\ Frames(T, P, V) \subseteq Frames(T, P, W) \union {x.frame}
  /\ Ordered(T, P, W) => Ordered(T, P, V)
  /\ ToldOK(T, P, W) => ToldOK(T, P, V)
  /\ InPipes(V) = InPipes(W) + Weight(x)
  /\ Total(V[c]) = Total(W[c]) + Weight(x)

LEMMA SendFlow ==
  ASSUME NEW T \in Seq(Line), NEW P \in Seq(Line), NEW W \in Seq(Seq(Line)),
         NEW c \in DOMAIN W, NEW x \in Line, x.via = c,
         \A f \in Frames(T, P, W) : Earlier(f, x.frame),
         ~IsReport(x.frame) => Total(T) + Total(P) + Total(W[c]) >= Need(c, x.frame),
         NEW V \in Seq(Seq(Line)), Len(V) = Len(W), V[c] = Append(W[c], x),
         \A d \in DOMAIN W : d # c => V[d] = W[d]
  PROVE  SentOn(T, P, W, c, x, V)
<1>1. W[c] \in Seq(Line) /\ DOMAIN V = DOMAIN W BY WayIn
<1>2. Weight(x) \in Nat BY DEF Weight, Line, Message
<1>3. Total(V[c]) = Total(W[c]) + Weight(x) BY <1>1, ReportedAppend
<1>4. Total(W[c]) \in Nat /\ InPipes(W) \in Nat BY WayIn, PipesAre
<1>5. InPipes(V) = InPipes(W) + Weight(x)
  <2>1. InPipes(V) = InPipes(W) - Total(W[c]) + Total(V[c]) BY PipesExcept
  <2> QED BY <1>2, <1>3, <1>4, <2>1
<1>6. FramesOf(V[c]) \subseteq FramesOf(W[c]) \union {x.frame} BY <1>1, FramesAppend
<1>7. Frames(T, P, V) \subseteq Frames(T, P, W) \union {x.frame} BY <1>1, <1>6, FramesExcept
<1>8. ASSUME Ordered(T, P, W) PROVE Ordered(T, P, V)
  <2>1. \A j \in DOMAIN T : LinesApart(T[j], x) BY DEF Frames, FramesOf, LinesApart
  <2>2. \A j \in DOMAIN P : LinesApart(P[j], x) BY DEF Frames, FramesOf, LinesApart
  <2>3. \A j \in DOMAIN W[c] : LinesApart(W[c][j], x) BY DEF Frames, FramesOf, LinesApart
  <2>4. Rising(W[c]) /\ Under(T, W[c]) /\ Under(P, W[c]) BY <1>8 DEF Ordered
  <2>5. Rising(V[c]) BY <1>1, <2>3, <2>4, RisingAppend
  <2>6. Under(T, V[c]) /\ Under(P, V[c]) BY <1>1, <2>1, <2>2, <2>4, UnderAppend
  <2> QED BY <1>1, <1>8, <2>5, <2>6 DEF Ordered
<1>9. ASSUME ToldOK(T, P, W) PROVE ToldOK(T, P, V)
  <2> DEFINE a == Total(T) + Total(P)
  <2>0. Total(T) \in Nat /\ Total(P) \in Nat BY ReportedNat
  <2>1. a \in Nat BY <2>0
  <2>2. Enough(W[c], a) BY <1>9 DEF ToldOK
  <2>3. ~IsReport(x.frame) => a + Total(W[c]) >= Need(x.via, x.frame) OBVIOUS
  <2> HIDE DEF a
  <2>4. Enough(V[c], a) BY <1>1, <2>1, <2>2, <2>3, EnoughAppend
  <2> QED BY <1>1, <1>9, <2>4 DEF ToldOK, a
<1> QED BY <1>3, <1>5, <1>7, <1>8, <1>9 DEF SentOn

\* A pipe is opened.
LEMMA OpenFlow ==
  ASSUME NEW T, NEW P, NEW W \in Seq(Seq(Line)), NEW V, V = Append(W, <<>>)
  PROVE  /\ Frames(T, P, V) = Frames(T, P, W)
         /\ Ordered(T, P, W) => Ordered(T, P, V)
         /\ ToldOK(T, P, W) => ToldOK(T, P, V)
         /\ InPipes(V) = InPipes(W)
         /\ Len(V) = Len(W) + 1 /\ V[Len(V)] = <<>>
<1>1. PICK n \in Nat : n = Len(W) OBVIOUS
<1>2. DOMAIN W = 1..n /\ DOMAIN V = 1..n + 1 /\ (\A c \in 1..n : V[c] = W[c]) /\ Len(V) = n + 1
  BY <1>1
<1>3. V[n + 1] = <<>> BY <1>1
<1>4. 1..n + 1 = 1..n \union {n + 1} OBVIOUS
<1>5. Frames(T, P, V) = Frames(T, P, W)
  BY <1>3, <1>4, EmptyIs, <1>2 DEF Frames
<1>6. ASSUME NEW d \in 1..n + 1 PROVE d \in 1..n \/ V[d] = <<>> BY <1>3, <1>4
<1>7. Ordered(T, P, W) => Ordered(T, P, V) BY <1>2, <1>6, EmptyIs DEF Ordered
<1>8. ToldOK(T, P, W) => ToldOK(T, P, V) BY <1>2, <1>6, EmptyIs DEF ToldOK
<1> QED BY <1>1, <1>2, <1>3, <1>5, <1>7, <1>8, PipesAppend

-----------------------------------------------------------------------------
(***************************************************************************)
(* The lines of the pipes                                                  *)
(***************************************************************************)
\* A frame in the pipe c, as it will be posted.
LineOf(c, f) == [via |-> c, delta |-> 0, frame |-> f]

LEMMA TailOf ==
  ASSUME NEW T, NEW u \in Seq(T), u # <<>>, NEW n, n = Len(u), NEW v, v = Tail(u)
  PROVE  n \in Nat \ {0} /\ v \in Seq(T) /\ Len(v) = n - 1 /\ \A k \in 1..n - 1 : v[k] = u[k + 1]
  OBVIOUS

LEMMA AppendOf ==
  ASSUME NEW T, NEW u \in Seq(T), NEW x \in T, NEW n, n = Len(u), NEW v, v = Append(u, x)
  PROVE  /\ n \in Nat /\ v \in Seq(T) /\ Len(v) = n + 1
         /\ (\A k \in 1..n : v[k] = u[k]) /\ v[n + 1] = x
  OBVIOUS

LEMMA LineIs ==
  ASSUME NEW c \in Link, NEW f \in Message
  PROVE  LineOf(c, f) \in Line /\ LineOf(c, f).frame = f /\ LineOf(c, f).via = c
  BY DEF LineOf, Line

LEMMA LinesAre ==
  ASSUME NEW ps \in Seq(PipeEnds), Len(ps) <= MaxConnections
  PROVE  /\ LinesIn(ps) \in Seq(Seq(Line)) /\ Len(LinesIn(ps)) = Len(ps) /\ Len(ps) \in Nat
         /\ DOMAIN LinesIn(ps) = 1..Len(ps) /\ DOMAIN ps = 1..Len(ps)
         /\ \A c \in 1..Len(ps) :
              /\ ps[c] \in PipeEnds /\ ps[c].written \in Seq(Message)
              /\ LinesIn(ps)[c] \in Seq(Line)
              /\ Len(LinesIn(ps)[c]) = Len(ps[c].written)
              /\ \A k \in 1..Len(ps[c].written) : LinesIn(ps)[c][k] = LineOf(c, ps[c].written[k])
         /\ Named(LinesIn(ps))
<1>1. PICK n \in Nat : n = Len(ps) OBVIOUS
<1>2. DOMAIN ps = 1..n BY <1>1
<1>3. ASSUME NEW c \in 1..n
      PROVE  /\ ps[c] \in PipeEnds /\ ps[c].written \in Seq(Message)
             /\ LinesIn(ps)[c] \in Seq(Line)
             /\ Len(LinesIn(ps)[c]) = Len(ps[c].written)
             /\ \A k \in 1..Len(ps[c].written) : LinesIn(ps)[c][k] = LineOf(c, ps[c].written[k])
  <2>1. c \in Link BY <1>1, <1>3, ConnectionsAssumption DEF Link
  <2>2. ps[c] \in PipeEnds BY <1>2
  <2>3. PICK u \in Seq(Message) : u = ps[c].written BY <2>2 DEF PipeEnds
  <2>4. PICK m \in Nat : m = Len(u) OBVIOUS
  <2>5. DOMAIN u = 1..m /\ \A k \in 1..m : u[k] \in Message BY <2>4
  <2> DEFINE q == [k \in 1..m |-> LineOf(c, u[k])]
  <2>6. \A k \in 1..m : LineOf(c, u[k]) \in Line BY <2>1, <2>5, LineIs
  <2>7. q \in Seq(Line) /\ Len(q) = m BY <2>6
  <2>8. LinesIn(ps)[c] = q BY <1>2, <2>3, <2>5 DEF LinesIn, LineOf
  <2>9. \A k \in 1..m : q[k] = LineOf(c, u[k]) OBVIOUS
  <2> HIDE DEF q
  <2> QED BY <2>2, <2>3, <2>4, <2>7, <2>8, <2>9
<1>4. LinesIn(ps) = [c \in 1..n |-> LinesIn(ps)[c]] BY <1>2 DEF LinesIn
<1>5. LinesIn(ps) \in Seq(Seq(Line)) /\ Len(LinesIn(ps)) = n /\ DOMAIN LinesIn(ps) = 1..n
  <2> DEFINE W == LinesIn(ps)
  <2>1. W = [c \in 1..n |-> W[c]] /\ \A c \in 1..n : W[c] \in Seq(Line) BY <1>3, <1>4
  <2> HIDE DEF W
  <2>2. W \in Seq(Seq(Line)) /\ Len(W) = n /\ DOMAIN W = 1..n BY <2>1
  <2> QED BY <2>2 DEF W
<1>6. Named(LinesIn(ps))
  <2> SUFFICES ASSUME NEW c \in 1..n, NEW j \in DOMAIN LinesIn(ps)[c]
               PROVE  LinesIn(ps)[c][j].via = c
    BY <1>5 DEF Named
  <2>1. PICK q \in Seq(Line) : q = LinesIn(ps)[c] BY <1>3
  <2>2. j \in 1..Len(q) BY <2>1
  <2>3. q[j] = LineOf(c, ps[c].written[j]) BY <1>3, <2>1, <2>2
  <2> QED BY <2>1, <2>3 DEF LineOf
<1> QED BY <1>1, <1>2, <1>3, <1>5, <1>6

LEMMA LinesSame ==
  ASSUME NEW ps, NEW qs, DOMAIN ps = DOMAIN qs, NEW c \in DOMAIN ps, ps[c].written = qs[c].written
  PROVE  LinesIn(qs)[c] = LinesIn(ps)[c]
  BY DEF LinesIn

LEMMA LinesTail ==
  ASSUME NEW ps \in Seq(PipeEnds), Len(ps) <= MaxConnections, NEW qs \in Seq(PipeEnds),
         Len(qs) = Len(ps), NEW c \in 1..Len(ps), ps[c].written # <<>>,
         qs[c].written = Tail(ps[c].written)
  PROVE  /\ LinesIn(qs)[c] = Tail(LinesIn(ps)[c]) /\ LinesIn(ps)[c] # <<>>
         /\ LinesIn(ps)[c][1] = LineOf(c, ps[c].written[1])
<1>1. PICK u \in Seq(Message) : u = ps[c].written BY LinesAre
<1>2. PICK a \in Seq(Line) : a = LinesIn(ps)[c] BY LinesAre
<1>3. PICK b \in Seq(Line) : b = LinesIn(qs)[c] BY LinesAre
<1>4. PICK n : n = Len(u) OBVIOUS
<1>5. PICK v : v = Tail(u) OBVIOUS
<1>20. u # <<>> BY <1>1
<1>21. n \in Nat \ {0} /\ v \in Seq(Message) /\ Len(v) = n - 1 /\ \A k \in 1..n - 1 : v[k] = u[k + 1]
  BY <1>4, <1>5, <1>20, TailOf
<1>22. qs[c].written = v BY <1>1, <1>5
<1>6. Len(a) = n /\ \A k \in 1..n : a[k] = LineOf(c, u[k]) BY <1>1, <1>2, <1>4, LinesAre
<1>7. Len(b) = n - 1 /\ \A k \in 1..n - 1 : b[k] = LineOf(c, v[k])
  BY <1>3, <1>22, LinesAre, <1>21
<1>8. \A k \in 1..n - 1 : b[k] = a[k + 1] BY <1>21, <1>6, <1>7
<1>9. a # <<>> BY <1>6, <1>21
<1>10. b = Tail(a) BY <1>6, <1>7, <1>8, <1>9, TailIs
<1>11. a[1] = LineOf(c, u[1]) BY <1>6, <1>21
<1> QED BY <1>1, <1>2, <1>3, <1>9, <1>10, <1>11

LEMMA LinesAppend ==
  ASSUME NEW ps \in Seq(PipeEnds), Len(ps) <= MaxConnections, NEW qs \in Seq(PipeEnds),
         Len(qs) = Len(ps), NEW c \in 1..Len(ps), NEW f \in Message,
         qs[c].written = Append(ps[c].written, f)
  PROVE  LinesIn(qs)[c] = Append(LinesIn(ps)[c], LineOf(c, f)) /\ LineOf(c, f) \in Line
<1>0. LineOf(c, f) \in Line BY LineIs, ConnectionsAssumption DEF Link
<1>1. PICK u \in Seq(Message) : u = ps[c].written BY LinesAre
<1>2. PICK a \in Seq(Line) : a = LinesIn(ps)[c] BY LinesAre
<1>3. PICK b \in Seq(Line) : b = LinesIn(qs)[c] BY LinesAre
<1>4. PICK n : n = Len(u) OBVIOUS
<1>5. PICK v : v = Append(u, f) OBVIOUS
<1>21. /\ n \in Nat /\ v \in Seq(Message) /\ Len(v) = n + 1
       /\ (\A k \in 1..n : v[k] = u[k]) /\ v[n + 1] = f
  BY <1>4, <1>5, AppendOf
<1>22. qs[c].written = v BY <1>1, <1>5
<1>6. Len(a) = n /\ \A k \in 1..n : a[k] = LineOf(c, u[k]) BY <1>1, <1>2, <1>4, LinesAre
<1>7. Len(b) = n + 1 /\ \A k \in 1..n + 1 : b[k] = LineOf(c, v[k])
  BY <1>3, <1>21, <1>22, LinesAre
<1>8. PICK d : d = Append(a, LineOf(c, f)) OBVIOUS
<1>23. PICK x \in Line : x = LineOf(c, f) BY <1>0
<1>9. d \in Seq(Line) /\ Len(d) = n + 1 /\ (\A k \in 1..n : d[k] = a[k]) /\ d[n + 1] = x
  BY <1>6, <1>8, <1>23, AppendOf
<1>24. n + 1 \in 1..n + 1 /\ \A k \in 1..n + 1 : k \in 1..n \/ k = n + 1 BY <1>21
<1>10. \A k \in 1..n + 1 : d[k] = b[k] BY <1>21, <1>6, <1>7, <1>9, <1>23, <1>24
<1>11. d = b BY <1>21, <1>7, <1>9, <1>10
<1> QED BY <1>0, <1>2, <1>3, <1>8, <1>11

LEMMA LinesOpen ==
  ASSUME NEW ps \in Seq(PipeEnds), Len(ps) < MaxConnections, NEW r \in PipeEnds, r.written = <<>>,
         NEW qs, qs = Append(ps, r)
  PROVE  LinesIn(qs) = Append(LinesIn(ps), <<>>) /\ qs \in Seq(PipeEnds)
<1>1. PICK n \in Nat : n = Len(ps) OBVIOUS
<1>2. /\ qs \in Seq(PipeEnds) /\ Len(qs) = n + 1 /\ DOMAIN ps = 1..n /\ DOMAIN qs = 1..n + 1
      /\ \A k \in 1..n : qs[k] = ps[k]
      /\ qs[n + 1] = r
  BY <1>1
<1>3. n + 1 <= MaxConnections BY <1>1, ConnectionsAssumption
<1>20. n <= MaxConnections BY <1>3, ConnectionsAssumption
<1>4. PICK W \in Seq(Seq(Line)) : W = LinesIn(ps) /\ Len(W) = n BY <1>1, <1>20, LinesAre
<1>5. PICK V \in Seq(Seq(Line)) : V = LinesIn(qs) /\ Len(V) = n + 1 BY <1>2, <1>3, LinesAre
<1>6. \A k \in 1..n : V[k] = W[k] BY <1>2, <1>4, <1>5 DEF LinesIn
<1>7. V[n + 1] = <<>>
  <2>1. n + 1 \in 1..n + 1 BY <1>1
  <2>2. V[n + 1] = [k \in DOMAIN r.written |-> [via |-> n + 1, delta |-> 0, frame |-> r.written[k]]]
    BY <1>2, <1>5, <2>1 DEF LinesIn
  <2>3. DOMAIN r.written = {} OBVIOUS
  <2>4. V[n + 1] \in Seq(Line) BY <1>5, <2>1
  <2>5. PICK q \in Seq(Line) : q = V[n + 1] BY <2>4
  <2>6. DOMAIN q = {} BY <2>2, <2>3, <2>5
  <2>7. Len(q) = 0 BY <2>6
  <2>8. q = <<>> BY <2>7
  <2> QED BY <2>5, <2>8
<1>8. <<>> \in Seq(Line) OBVIOUS
<1>9. PICK e \in Seq(Line) : e = <<>> BY <1>8
<1>10. PICK X : X = Append(W, e) OBVIOUS
<1>11. X \in Seq(Seq(Line)) /\ Len(X) = n + 1 /\ (\A k \in 1..n : X[k] = W[k]) /\ X[n + 1] = e
  BY <1>4, <1>10, AppendOf
<1>24. \A k \in 1..n + 1 : k \in 1..n \/ k = n + 1 BY <1>1
<1>12. \A k \in 1..n + 1 : X[k] = V[k] BY <1>6, <1>7, <1>9, <1>11, <1>24
<1>25. n + 1 \in Nat BY <1>1
<1>13. X = V BY <1>5, <1>11, <1>12, <1>25
<1> QED BY <1>2, <1>4, <1>5, <1>9, <1>10, <1>13

-----------------------------------------------------------------------------
(***************************************************************************)
(* What was sent stays before what is still to come                        *)
(***************************************************************************)
\* What was sent or refused stays in the past of its thread.
PastKept == \A s \in Threads, n \in Nat : Past(s, n) => Past(s, n)'

BeforeKept == \A f \in Message : Before(f) => Before(f)'

LEMMA AsideKept ==
  ASSUME UNCHANGED <<queue, pushes, logged>>
  PROVE  PastKept /\ BeforeKept
  BY DEF PastKept, BeforeKept, Past, Before, Carrying, Positions, Holds, Turn, Value, queue

LEMMA CallKept ==
  ASSUME IInv, NEW t \in Threads, UNCHANGED queue, NEW p \in Push, Calls(t, p),
         logged' \in [Threads -> Nat],
         \A s \in Threads : s # t => logged'[s] = logged[s],
         logged'[t] >= logged[t],
         p.at \in {"read", "claim", "refused", "publish"} => Carrying(t) \/ logged'[t] > logged[t]
  PROVE  PastKept /\ BeforeKept
<1>1. /\ pushes'[t] = p
      /\ \A s \in Threads : s # t => pushes'[s] = pushes[s]
  BY DEF IInv, Typed, Calls
<1>2. \A s \in Threads : logged[s] \in Nat /\ logged'[s] \in Nat BY DEF IInv, Typed
<1>3. PastKept
  <2> SUFFICES ASSUME NEW s \in Threads, NEW n \in Nat, Past(s, n) PROVE Past(s, n)'
    BY DEF PastKept
  <2>1. CASE s = t BY <1>1, <1>2, <2>1 DEF Past, Carrying
  <2>2. CASE s # t BY <1>1, <1>2, <2>2 DEF Past, Carrying
  <2> QED BY <2>1, <2>2
<1>4. Positions' = Positions /\ \A q : Value(q)' = Value(q) /\ (Holds(q)' <=> Holds(q))
  BY DEF Positions, Holds, Turn, Value, queue
<1>5. BeforeKept
  <2> SUFFICES ASSUME NEW f \in Message, Before(f), f.thread \in Threads PROVE Before(f)'
    BY DEF BeforeKept, Before
  <2>1. f.number \in Nat BY DEF Message
  <2>2. Past(f.thread, f.number)' BY <1>3, <2>1 DEF PastKept, Before
  <2> QED BY <1>4, <2>2 DEF Before
<1> QED BY <1>3, <1>5

LEMMA LogKept ==
  ASSUME IInv, NEW t \in Threads, Log(t) PROVE PastKept /\ BeforeKept
<1> DEFINE p == IF logger.connected
                THEN [at |-> "read", position |-> enqueued,
                      message |-> [thread |-> t, number |-> logged'[t]]]
                ELSE pushes[t]
<1>1. logged' \in [Threads -> Nat] /\ logged'[t] = logged[t] + 1 /\ logged[t] \in Nat
      /\ \A s \in Threads : s # t => logged'[s] = logged[s]
  BY DEF Log, IInv, Typed
<1>2. p \in Push BY <1>1 DEF IInv, Typed, Push, Message, Log
<1>3. Calls(t, p) BY DEF Log, Calls, StartPush, IInv, Typed
<1> HIDE DEF p
<1> QED BY <1>1, <1>2, <1>3, CallKept DEF Log

\* Looking, finding the position gone, leaving: the queue is as it was.
LEMMA LookKept ==
  ASSUME IInv, NEW t \in Threads, Look(t), UNCHANGED logged PROVE PastKept /\ BeforeKept
<1> DEFINE o == pushes[t]
           p == CASE Turn(o.position) = o.position -> [o EXCEPT !.at = "claim"]
                  [] Turn(o.position) < o.position -> [o EXCEPT !.at = "refused"]
                  [] OTHER                         -> [o EXCEPT !.position = enqueued]
<1>1. o \in Push /\ o.at = "read" /\ enqueued \in Nat BY DEF IInv, Typed, Look
<1>2. Calls(t, p) /\ UNCHANGED queue BY DEF Look
<1>3. p \in Push BY <1>1 DEF Push
<1>4. Carrying(t) BY <1>1 DEF Carrying
<1>5. logged' \in [Threads -> Nat] /\ logged[t] \in Nat BY DEF IInv, Typed
<1> HIDE DEF o, p
<1> QED BY <1>2, <1>3, <1>4, <1>5, CallKept

LEMMA LeaveKept ==
  ASSUME IInv, NEW t \in Threads, Signal(t) \/ Refuse(t) PROVE PastKept /\ BeforeKept
<1>1. NoPush \in Push /\ NoPush.at = "idle" BY DEF Push, NoPush, Message, Nothing
<1>2. Calls(t, NoPush) /\ UNCHANGED <<queue, logged>> BY DEF Signal, Refuse
<1>3. logged' \in [Threads -> Nat] /\ logged[t] \in Nat BY <1>2 DEF IInv, Typed
<1> HIDE DEF NoPush
<1> QED BY <1>1, <1>2, <1>3, CallKept

LEMMA ClaimKept ==
  ASSUME IInv, NEW t \in Threads, Claim(t), UNCHANGED <<worker, logged>>
  PROVE  PastKept /\ BeforeKept
<1>0. PICK e \in Nat : e = enqueued BY DEF IInv, Typed
<1> DEFINE lost == [pushes[t] EXCEPT !.at = "read", !.position = enqueued]
           won  == [pushes[t] EXCEPT !.at = "publish"]
<1>1. pushes[t] \in Push /\ pushes[t].at = "claim" /\ Carrying(t) BY DEF IInv, Typed, Claim, Carrying
<1>2. logged' \in [Threads -> Nat] /\ logged[t] \in Nat BY DEF IInv, Typed
<1>3. CASE pushes[t].position # e
  <2>1. Calls(t, lost) /\ UNCHANGED queue BY <1>0, <1>3 DEF Claim, StillMine, queue
  <2>2. lost \in Push BY <1>0, <1>1 DEF Push
  <2> HIDE DEF lost
  <2> QED BY <1>1, <1>2, <2>1, <2>2, CallKept
<1>4. CASE pushes[t].position = e
  <2>1. enqueued' = e + 1 /\ Calls(t, won) /\ UNCHANGED <<cells, dequeued>>
    BY <1>0, <1>4 DEF Claim, StillMine
  <2>2. won \in Push /\ won.at = "publish" BY <1>1 DEF Push
  <2>3. pushes'[t] = won /\ \A s \in Threads : s # t => pushes'[s] = pushes[s]
    BY <2>1 DEF IInv, Typed, Calls
  <2> HIDE DEF won
  <2>4. \A s \in Threads : Carrying(s)' <=> Carrying(s) BY <1>1, <2>2, <2>3 DEF Carrying
  <2>5. PastKept BY <2>4 DEF PastKept, Past
  <2>6. Positions' = Positions \union {e} /\ \A q : Value(q)' = Value(q) /\ (Holds(q)' <=> Holds(q))
    BY <1>0, <2>1 DEF IInv, Typed, Ends, Positions, Holds, Turn, Value
  <2>7. ~Holds(e)
    <3>1. e < Oldest + Capacity /\ Oldest \in Int /\ Oldest <= e
      BY <1>0, <1>1, <1>4 DEF IInv, ClaimsFree, Ends, Typed, Oldest
    <3>2. e \in Lap BY <3>1, CapacityAssumption DEF Lap
    <3>3. Turn(e) = e BY <1>0, <3>2 DEF IInv, CellsInTurn
    <3> QED BY <3>3 DEF Holds
  <2>8. BeforeKept
    <3> SUFFICES ASSUME NEW f \in Message, Before(f), f.thread \in Threads PROVE Before(f)'
      BY DEF BeforeKept, Before
    <3>1. f.number \in Nat BY DEF Message
    <3>2. Past(f.thread, f.number)' BY <2>5, <3>1 DEF PastKept, Before
    <3> QED BY <2>6, <2>7, <3>2 DEF Before
  <2> QED BY <2>5, <2>8
<1> QED BY <1>3, <1>4

LEMMA PublishKept ==
  ASSUME IInv, NEW t \in Threads, Publish(t), UNCHANGED <<worker, logged>>
  PROVE  PastKept /\ BeforeKept
<1>0. PICK c \in Push : c = pushes[t] BY DEF IInv, Typed
<1> DEFINE e == c.position
           p == [c EXCEPT !.at = "signal"]
<1>1. /\ c.at = "publish" /\ Carrying(t) /\ e \in Positions /\ e \in Int
      /\ c.message \in Message /\ c.message.thread = t /\ c.message.number = logged[t]
  BY <1>0 DEF IInv, Publish, Carried, Carrying, ClaimsApart, Push, Positions
<1>2. Store(e, e + 1, c.message) /\ Calls(t, p) /\ UNCHANGED <<enqueued, dequeued>>
  BY <1>0 DEF Publish
<1>3. p.at = "signal" BY <1>1 DEF Push
<1> HIDE DEF p, e
<1>4. pushes'[t] = p /\ \A s \in Threads : s # t => pushes'[s] = pushes[s]
  BY <1>2, <1>3 DEF IInv, Typed, Calls
<1>5. Positions' = Positions /\ Oldest \in Int BY <1>2 DEF Positions, IInv, Typed, Oldest
<1>6. /\ Value(e)' = c.message
      /\ \A q \in Int : (q < e /\ e < q + Capacity) \/ (e < q /\ q < e + Capacity) =>
           Turn(q)' = Turn(q) /\ Value(q)' = Value(q)
  BY <1>1, <1>2, StoreAt DEF IInv
<1>7. e \in Lap /\ Positions \subseteq Lap /\ Lap \subseteq Int
  BY <1>1, <1>5, CapacityAssumption DEF IInv, Typed, Ends, Positions, Lap, Oldest
<1>8. ASSUME NEW q \in Positions, q # e
      PROVE  Value(q)' = Value(q) /\ (Holds(q)' <=> Holds(q))
  BY <1>1, <1>5, <1>7, <1>8, CapacityAssumption, <1>6 DEF Lap, Holds
<1>9. PastKept
  <2> SUFFICES ASSUME NEW s \in Threads, NEW n \in Nat, Past(s, n) PROVE Past(s, n)'
    BY DEF PastKept
  <2>1. CASE s = t BY <1>3, <1>4, <2>1 DEF Past, Carrying
  <2>2. CASE s # t BY <1>4, <2>2 DEF Past, Carrying
  <2> QED BY <2>1, <2>2
<1>10. BeforeKept
  <2> SUFFICES ASSUME NEW f \in Message, Before(f), f.thread \in Threads PROVE Before(f)'
    BY DEF BeforeKept, Before
  <2>1. f.number \in Nat BY DEF Message
  <2>2. Past(f.thread, f.number)' BY <1>9, <2>1 DEF PastKept, Before
  <2>3. ASSUME NEW q \in Positions, Holds(q)', Value(q)'.thread = f.thread
        PROVE  f.number < Value(q)'.number
    BY <1>1, <1>6, <2>3, <1>8 DEF Before, Past
  <2> QED BY <1>5, <2>2, <2>3 DEF Before
<1> QED BY <1>9, <1>10

LEMMA PushingKept ==
  ASSUME IInv, NEW t \in Threads, Pushing(t) PROVE PastKept /\ BeforeKept
  BY LookKept, ClaimKept, PublishKept, LeaveKept DEF Pushing, PushStep

\* The message the worker takes stands after all that was sent.
LEMMA PopKept ==
  ASSUME IInv, Pop
  PROVE  /\ PastKept /\ BeforeKept
         /\ worker'.message \in Message
         /\ Before(worker.message)'
         /\ \A f \in Message : Before(f) => Earlier(f, worker'.message)
<1>0. PICK m \in Message : m = Value(dequeued) BY ValueTyped DEF IInv, Typed
<1>1. /\ dequeued' = dequeued + 1 /\ dequeued \in Nat /\ enqueued \in Nat
      /\ UNCHANGED <<cells, enqueued, pushes, logged>>
      /\ worker'.message = m /\ ~Owning
  BY <1>0 DEF Pop, Take, IInv, Typed, threads, First, Value, Owning
<1>2. Oldest = dequeued /\ dequeued <= enqueued /\ dequeued \in Lap
  BY <1>1, CapacityAssumption DEF Oldest, IInv, Ends, Lap
<1>3. dequeued \in Positions /\ Holds(dequeued)
  BY <1>1, <1>2 DEF Pop, Filled, Holds, Positions, IInv, CellsInTurn
<1>4. Positions' = Positions \ {dequeued} /\ Positions \subseteq Int BY <1>1 DEF Positions
<1>5. \A q : Value(q)' = Value(q) /\ (Holds(q)' <=> Holds(q)) BY <1>1 DEF Holds, Turn, Value
<1>6. \A s : Carrying(s)' <=> Carrying(s) BY <1>1 DEF Carrying
<1>7. PastKept BY <1>1, <1>6 DEF PastKept, Past
<1>8. BeforeKept BY <1>1, <1>4, <1>5, <1>6 DEF BeforeKept, Before, Past
<1>9. /\ m.thread \in Threads
      /\ m.number <= logged[m.thread]
      /\ Carrying(m.thread) => m.number < logged[m.thread]
  BY <1>0, <1>3 DEF IInv, Older
<1>10. ASSUME NEW q \in Positions, q # dequeued, Holds(q), Value(q).thread = m.thread
       PROVE  m.number < Value(q).number
  BY <1>1, <1>4, <1>10, <1>0, <1>3 DEF Positions, IInv, InOrder
<1>11. Before(m)' BY <1>1, <1>4, <1>5, <1>6, <1>9, <1>10 DEF Before, Past
<1>12. \A f \in Message : Before(f) => Earlier(f, m) BY <1>0, <1>3 DEF Before, Earlier
<1>13. Before(worker.message)' BY <1>1, <1>11 DEF Before
<1> QED BY <1>1, <1>7, <1>8, <1>12, <1>13

LEMMA FreeKept ==
  ASSUME IInv, FreeCell PROVE PastKept /\ BeforeKept
<1>0. PICK o \in Int : o = dequeued - 1 BY DEF IInv, Typed
<1>1. /\ Oldest = o /\ dequeued = o + 1 /\ enqueued \in Nat
      /\ UNCHANGED <<enqueued, dequeued, pushes, logged>>
      /\ Store(o, o + Capacity, Nothing)
  BY <1>0 DEF FreeCell, Free, threads, Oldest, Owning, IInv, Typed
<1>2. Nothing \in Message /\ o + Capacity \in Int BY CapacityAssumption DEF Nothing, Message
<1>3. \A q \in Int : o < q /\ q < o + Capacity => Turn(q)' = Turn(q) /\ Value(q)' = Value(q)
  BY <1>1, <1>2, StoreAt DEF IInv
<1>4. Positions' = Positions /\ Positions \subseteq o + 1..o + Capacity - 1
  BY <1>1, CapacityAssumption DEF Positions, IInv, Ends
<1>5. \A q \in Positions : Value(q)' = Value(q) /\ (Holds(q)' <=> Holds(q))
  BY <1>3, <1>4, CapacityAssumption DEF Holds
<1>6. \A s : Carrying(s)' <=> Carrying(s) BY <1>1 DEF Carrying
<1>7. PastKept BY <1>1, <1>6 DEF PastKept, Past
<1>8. BeforeKept BY <1>1, <1>4, <1>5, <1>6 DEF BeforeKept, Before, Past
<1> QED BY <1>7, <1>8

-----------------------------------------------------------------------------
(***************************************************************************)
(* Steps that send nothing, and steps of the debugger                      *)
(***************************************************************************)
LEMMA FramesTyped ==
  ASSUME NEW T \in Seq(Line), NEW P \in Seq(Line), NEW W \in Seq(Seq(Line))
  PROVE  Frames(T, P, W) \subseteq Message
<1>1. \A q \in Seq(Line) : FramesOf(q) \subseteq Message
  <2> TAKE q \in Seq(Line)
  <2>1. \A i \in DOMAIN q : q[i] \in Line OBVIOUS
  <2> QED BY <2>1 DEF FramesOf, Line
<1>2. \A c \in DOMAIN W : W[c] \in Seq(Line) BY WayIn
<1> QED BY <1>1, <1>2 DEF Frames

\* What is told is enough as long as nothing more is refused.
LEMMA ToldKept ==
  ASSUME UNCHANGED refused
  PROVE  /\ \A c, f : Need(c, f)' = Need(c, f)
         /\ \A c : RefusedVia(c)' = RefusedVia(c)
         /\ \A T, P, W : ToldOK(T, P, W)' <=> ToldOK(T, P, W)
BY DEF RefusedVia, Need, Enough, ToldOK

LEMMA RefusedKept ==
  ASSUME Shapes, RefusedOK, PastKept, UNCHANGED refused, Len(pipes') >= Len(pipes),
         Len(pipes') \in Nat
  PROVE  RefusedOK'
BY ConnectionsAssumption DEF Shapes, RefusedOK, PastKept, Pipe

LEMMA SentKept ==
  ASSUME BeforeKept, NEW F, F \subseteq Message, Sent(F), NEW G, G \subseteq F \union {Nothing},
         \A f \in Message : Before(f) /\ Earlier(f, worker.message) => Earlier(f, worker'.message)
  PROVE  Sent(G)'
BY ThreadsAssumption DEF Before, Earlier, Nothing, Sent, BeforeKept

\* The text, the lines posted and the pipes are sequences of lines.
LEMMA FlowTyped ==
  ASSUME Shapes
  PROVE  /\ Text \in Seq(Line) /\ window.posted \in Seq(Line) /\ window.count \in Nat
         /\ Ways \in Seq(Seq(Line)) /\ Len(Ways) = Pipe /\ Pipe \in Nat /\ Pipe <= MaxConnections
         /\ DOMAIN pipes = 1..Pipe /\ DOMAIN Ways = 1..Pipe
BY LinesAre DEF Shapes, Text, Pipe, Ways

\* A step of the logger that sends nothing.
LEMMA SideStep ==
  ASSUME IInv, WInv, UNCHANGED <<window, server, refused>>, PastKept, BeforeKept, Shapes',
         Ways' = Ways, Len(pipes') = Len(pipes),
         \A c \in DOMAIN pipes : pipes'[c].reader = pipes[c].reader /\ pipes'[c].written = pipes[c].written,
         Before(worker.message)',
         \A f \in Message : Before(f) /\ Earlier(f, worker.message) => Earlier(f, worker'.message),
         Untold' \in Nat, Untold' <= Untold,
         OwesWhat(Text, window.posted, Ways)'
  PROVE  WInv'
<1>1. Text' = Text /\ Pipe' = Pipe BY DEF Text, Pipe
<1>2. PICK T \in Seq(Line), P \in Seq(Line) : T = Text /\ P = window.posted BY FlowTyped DEF WInv
<1>3. PICK W \in Seq(Seq(Line)) : W = Ways /\ Pipe \in Nat BY FlowTyped DEF WInv
<1>4. T = Text' /\ P = window'.posted /\ W = Ways' BY <1>1, <1>2, <1>3
<1>5. DOMAIN pipes = 1..Pipe /\ DOMAIN pipes' = 1..Pipe
  BY DEF WInv, Shapes, Pipe
<1>6. ServerOK'
  BY <1>5, <1>1 DEF WInv, ServerOK
<1>7. RefusedOK'
  BY <1>3, RefusedKept DEF Pipe, WInv
<1>8. Sent(Frames(T, P, W))'
  <2>1. Sent(Frames(T, P, W)) BY <1>2, <1>3 DEF WInv
  <2>2. PICK F : F = Frames(T, P, W) OBVIOUS
  <2>3. F \subseteq Message /\ Sent(F) BY <2>1, <2>2, FramesTyped
  <2>4. Sent(F)' BY <2>3, SentKept
  <2> QED BY <2>2, <2>4
<1>9. Ordered(T, P, W) /\ ToldOK(T, P, W)' BY <1>2, <1>3, ToldKept DEF WInv
<1>10. NoMore(T, P, W)'
  <2>1. PICK a : a = Total(T) + Total(P) + InPipes(W) OBVIOUS
  <2>2. a \in Nat
    <3>1. \A i, j, k \in Nat : i + j + k \in Nat OBVIOUS
    <3>2. Total(T) \in Nat /\ Total(P) \in Nat /\ InPipes(W) \in Nat BY ReportedNat, PipesAre
    <3> QED BY <2>1, <3>1, <3>2
  <2>3. PICK d \in Nat : d = Untold BY DEF WInv, Shapes, Untold, Owed
  <2>4. PICK e \in Nat : e = Untold' OBVIOUS
  <2>5. PICK x \in Nat : x = Cardinality(refused) BY NeedIs DEF WInv
  <2>6. a + d <= x BY <1>2, <1>3, <2>1, <2>3, <2>5 DEF WInv, NoMore
  <2>7. e <= d BY <2>3, <2>4
  <2>8. a + e <= x BY <2>2, <2>6, <2>7
  <2> QED BY <2>1, <2>4, <2>5, <2>8 DEF NoMore
<1>11. CountOK' BY DEF WInv, CountOK, Serving
<1> QED BY <1>4, <1>6, <1>7, <1>8, <1>9, <1>10, <1>11 DEF WInv

LEMMA UntoldNat ==
  ASSUME Shapes PROVE Untold \in Nat /\ Owed \in Nat /\ logger.dropped \in Nat
  BY DEF Shapes, Untold, Owed

\* A step of the debugger, which may move lines, lose them and post counts.
LEMMA ServerStep ==
  ASSUME IInv, WInv, UNCHANGED producer, Shapes', ServerOK', CountOK', Len(pipes') = Len(pipes),
         NEW T \in Seq(Line), NEW P \in Seq(Line), NEW W \in Seq(Seq(Line)),
         T = Text, P = window.posted, W = Ways,
         NEW U \in Seq(Line), NEW Q \in Seq(Line), NEW V \in Seq(Seq(Line)),
         U = Text', Q = window'.posted, V = Ways',
         Frames(U, Q, V) \subseteq Frames(T, P, W) \union {Nothing},
         Ordered(T, P, W) => Ordered(U, Q, V),
         ToldOK(T, P, W) => ToldOK(U, Q, V),
         Total(U) + Total(Q) + InPipes(V) <= Total(T) + Total(P) + InPipes(W),
         Pipe > 0 /\ pipes'[Pipe].reader = "open" =>
           /\ pipes[Pipe].reader = "open"
           /\ Total(T) + Total(P) + Total(W[Pipe]) <= Total(U) + Total(Q) + Total(V[Pipe])
  PROVE  WInv'
<1>1. PastKept /\ BeforeKept /\ UNCHANGED refused /\ UNCHANGED worker /\ UNCHANGED logger
      /\ UNCHANGED <<queue, pushes, logged>>
  BY AsideKept DEF producer, threads
<1>2. Pipe' = Pipe /\ Pipe \in Nat /\ Len(W) = Pipe /\ Len(V) = Pipe
  BY FlowTyped, LinesAre DEF WInv, Pipe, Shapes, Ways
<1>3. RefusedOK'
  BY <1>2, <1>1, RefusedKept DEF Pipe, WInv
<1>4. Before(worker.message)'
  <2>1. worker.message \in Message /\ Before(worker.message) BY DEF WInv, Shapes
  <2>2. PICK m \in Message : m = worker.message /\ Before(m) BY <2>1
  <2>3. Before(m)' BY <1>1, <2>2 DEF BeforeKept
  <2>4. m = worker'.message BY <1>1, <2>2
  <2> QED BY <2>3, <2>4 DEF Before
<1>5. Sent(Frames(U, Q, V))'
  <2>1. Sent(Frames(T, P, W)) BY DEF WInv
  <2>2. PICK F : F = Frames(T, P, W) OBVIOUS
  <2>3. PICK G : G = Frames(U, Q, V) OBVIOUS
  <2>4. F \subseteq Message /\ Sent(F) /\ G \subseteq F \union {Nothing}
    BY <2>1, <2>2, <2>3, FramesTyped
  <2>5. Sent(G)' BY <1>1, <2>4, SentKept
  <2> QED BY <2>3, <2>5
<1>6. Ordered(U, Q, V) BY DEF WInv
<1>7. ToldOK(U, Q, V)' BY <1>1, ToldKept DEF WInv
<1>8. Untold' = Untold /\ Owed' = Owed /\ Untold \in Nat BY <1>1, UntoldNat DEF Untold, Owed, WInv
<1>9. NoMore(U, Q, V)'
  <2>1. PICK a : a = Total(T) + Total(P) + InPipes(W) OBVIOUS
  <2>2. PICK b : b = Total(U) + Total(Q) + InPipes(V) OBVIOUS
  <2>3. PICK n \in Nat : n = Cardinality(refused) BY NeedIs DEF WInv
  <2>4. PICK d \in Nat : d = Untold BY <1>8
  <2>5. a \in Nat /\ b \in Nat
    <3>1. \A i, j, k \in Nat : i + j + k \in Nat OBVIOUS
    <3>2. /\ Total(T) \in Nat /\ Total(P) \in Nat /\ InPipes(W) \in Nat
          /\ Total(U) \in Nat /\ Total(Q) \in Nat /\ InPipes(V) \in Nat
      BY ReportedNat, PipesAre
    <3> QED BY <2>1, <2>2, <3>1, <3>2
  <2>6. a + d <= n BY <2>1, <2>3, <2>4 DEF WInv, NoMore
  <2>7. b <= a BY <2>1, <2>2
  <2>8. b + d <= n BY <2>3, <2>4, <2>5, <2>6, <2>7
  <2> QED BY <1>1, <1>8, <2>2, <2>3, <2>4, <2>8 DEF NoMore
<1>10. OwesWhat(U, Q, V)'
  <2> SUFFICES ASSUME Attached
               PROVE  /\ Pipe > 0
                      /\ pipes'[Pipe].reader = "open" =>
                           LET a == Total(U) + Total(Q) + Total(V[Pipe]) IN
                           /\ a + Untold >= Cardinality(RefusedVia(Pipe))
                           /\ worker.at = "reporting" => a + worker.drops >= Need(Pipe, worker.message)
                           /\ worker.at = "writing" => a >= Need(Pipe, worker.message)
    BY <1>1, ToldKept, <1>2, <1>8 DEF OwesWhat, Attached
  <2>1. OwesWhat(T, P, W) BY DEF WInv
  <2>2. Pipe > 0 BY <1>2, <2>1 DEF OwesWhat
  <2> SUFFICES ASSUME pipes'[Pipe].reader = "open"
               PROVE  LET a == Total(U) + Total(Q) + Total(V[Pipe]) IN
                      /\ a + Untold >= Cardinality(RefusedVia(Pipe))
                      /\ worker.at = "reporting" => a + worker.drops >= Need(Pipe, worker.message)
                      /\ worker.at = "writing" => a >= Need(Pipe, worker.message)
    BY <2>2
  <2>3. PICK a : a = Total(T) + Total(P) + Total(W[Pipe]) OBVIOUS
  <2>4. PICK b : b = Total(U) + Total(Q) + Total(V[Pipe]) OBVIOUS
  <2>5. a \in Nat /\ b \in Nat
    <3>1. \A i, j, k \in Nat : i + j + k \in Nat OBVIOUS
    <3>2. Total(T) \in Nat /\ Total(P) \in Nat /\ Total(U) \in Nat /\ Total(Q) \in Nat BY ReportedNat
    <3>3. Pipe \in DOMAIN W /\ Pipe \in DOMAIN V
      BY <1>2, <2>2
    <3>4. Total(W[Pipe]) \in Nat /\ Total(V[Pipe]) \in Nat BY <3>3, WayIn
    <3> QED BY <2>3, <2>4, <3>1, <3>2, <3>4
  <2>6. a <= b /\ pipes[Pipe].reader = "open" BY <2>2, <2>3, <2>4
  <2>7. PICK n \in Nat : n = Cardinality(RefusedVia(Pipe)) BY NeedIs DEF WInv
  <2>8. PICK m \in Nat : m = Need(Pipe, worker.message) BY NeedIs DEF WInv
  <2>9. PICK d \in Nat : d = Untold BY <1>8
  <2>10. PICK e \in Nat : e = worker.drops BY DEF WInv, Shapes
  <2>11. /\ a + d >= n
         /\ worker.at = "reporting" => a + e >= m
         /\ worker.at = "writing" => a >= m
    BY <1>2, <2>1, <2>3, <2>6, <2>7, <2>8, <2>9, <2>10 DEF OwesWhat
  <2>12. /\ b + d >= n
         /\ worker.at = "reporting" => b + e >= m
         /\ worker.at = "writing" => b >= m
    BY <2>5, <2>6, <2>7, <2>8, <2>9, <2>10, <2>11
  <2> QED BY <2>4, <2>7, <2>8, <2>9, <2>10, <2>12
<1> QED BY <1>3, <1>4, <1>5, <1>6, <1>7, <1>9, <1>10 DEF WInv

-----------------------------------------------------------------------------
(***************************************************************************)
(* The debugger                                                            *)
(***************************************************************************)
Process == {"off", "up", "closing", "hung"}
Accepting == {"none", "listening", "connected"}
Clienting == {"none", "starting", "reading", "leaving", "closing"}

\* A step that changes the server's threads alone.
LEMMA ThreadsStep ==
  ASSUME IInv, WInv, UNCHANGED <<producer, pipes, window>>,
         server' \in [process : Process, starts : Nat, accept : Accepting, clients : [Link -> Clienting]],
         ServerOK', Serving' = Serving
  PROVE  WInv'
<1>1. Shapes' BY DEF WInv, Shapes, producer, threads, Pipe, Process, Accepting, Clienting
<1>2. CountOK' BY DEF WInv, CountOK
<1>3. PICK T \in Seq(Line), P \in Seq(Line) : T = Text /\ P = window.posted BY FlowTyped DEF WInv
<1>4. PICK W \in Seq(Seq(Line)) : W = Ways BY FlowTyped DEF WInv
<1>5. T = Text' /\ P = window'.posted /\ W = Ways' BY <1>3, <1>4 DEF Text, Ways
<1>6. Len(pipes') = Len(pipes) OBVIOUS
<1>7. PICK a : a = Total(T) + Total(P) + InPipes(W) OBVIOUS
<1>8. a <= a
  BY ReportedNat, PipesAre, <1>7
<1>9. ASSUME Pipe > 0
      PROVE  Total(T) + Total(P) + Total(W[Pipe]) <= Total(T) + Total(P) + Total(W[Pipe])
  <2>1. \A i, j, k \in Nat : i + j + k \in Nat OBVIOUS
  <2>2. Total(T) \in Nat /\ Total(P) \in Nat BY ReportedNat
  <2>3. Pipe \in DOMAIN W BY <1>4, <1>9, FlowTyped DEF WInv
  <2>4. Total(W[Pipe]) \in Nat BY <2>3, WayIn
  <2>5. PICK b : b = Total(T) + Total(P) + Total(W[Pipe]) OBVIOUS
  <2>6. b \in Nat BY <2>1, <2>2, <2>4, <2>5
  <2>7. b <= b BY <2>6
  <2> QED BY <2>5, <2>7
<1>10. Total(T) + Total(P) + InPipes(W) <= Total(T) + Total(P) + InPipes(W) BY <1>7, <1>8
<1>11. Frames(T, P, W) \subseteq Frames(T, P, W) \union {Nothing} OBVIOUS
<1>12. Pipe > 0 /\ pipes'[Pipe].reader = "open" =>
         /\ pipes[Pipe].reader = "open"
         /\ Total(T) + Total(P) + Total(W[Pipe]) <= Total(T) + Total(P) + Total(W[Pipe])
  BY <1>9
<1> QED BY <1>1, <1>2, <1>3, <1>4, <1>5, <1>6, <1>10, <1>11, <1>12, ServerStep

LEMMA ServerTyped ==
  ASSUME Shapes
  PROVE  /\ server = [process |-> server.process, starts |-> server.starts,
                      accept |-> server.accept, clients |-> server.clients]
         /\ server.process \in Process /\ server.starts \in Nat /\ server.accept \in Accepting
         /\ server.clients \in [Link -> Clienting]
         /\ Pipe \in Nat /\ Pipe <= MaxConnections /\ DOMAIN pipes = 1..Pipe
  BY FlowTyped DEF Shapes, Process, Accepting, Clienting

\* A client's thread moves.
LEMMA ClientMoves ==
  ASSUME Shapes, NEW c \in Link, NEW at \in Clienting, ClientAt(c, at)
  PROVE  /\ server' \in [process : Process, starts : Nat, accept : Accepting, clients : [Link -> Clienting]]
         /\ server'.process = server.process /\ server'.accept = server.accept
         /\ server'.clients[c] = at
         /\ \A d \in Link : d # c => server'.clients[d] = server.clients[d]
  BY ServerTyped DEF ClientAt

LEMMA StartInv == ASSUME IInv, WInv, Start PROVE WInv'
<1>1. /\ server' = [process |-> "up", starts |-> server.starts + 1, accept |-> "listening",
                   clients |-> server.clients]
      /\ server.process = "off" /\ UNCHANGED <<producer, pipes, window>>
  BY ServerTyped DEF WInv, Start
<1>2. server' \in [process : Process, starts : Nat, accept : Accepting, clients : [Link -> Clienting]]
  BY <1>1, ServerTyped DEF WInv, Process, Accepting
<1>3. ServerOK' BY <1>1 DEF WInv, ServerOK, Pipe
<1>4. Serving' = Serving BY <1>1 DEF Serving
<1> QED BY <1>1, <1>2, <1>3, <1>4, ThreadsStep

LEMMA HandOverInv == ASSUME IInv, WInv, HandOver PROVE WInv'
<1>0. Pipe \in Link /\ server.clients[Pipe] = "none"
  BY ServerTyped DEF WInv, ServerOK, HandOver, Link
<1>1. PICK clients \in [Link -> Clienting] : clients = [server.clients EXCEPT ![Pipe] = "starting"]
  BY <1>0, ServerTyped DEF WInv, Clienting
<1>2. clients[Pipe] = "starting" /\ \A d \in Link : d # Pipe => clients[d] = server.clients[d]
  BY <1>0, <1>1, ServerTyped DEF WInv
<1>3. /\ server' = [process |-> server.process, starts |-> server.starts, accept |-> "listening",
                   clients |-> clients]
      /\ server.process = "up" /\ server.accept = "connected" /\ UNCHANGED <<producer, pipes, window>>
  BY <1>1, ServerTyped DEF WInv, HandOver
<1>4. server' \in [process : Process, starts : Nat, accept : Accepting, clients : [Link -> Clienting]]
  BY <1>3, ServerTyped DEF WInv, Accepting
<1>5. ServerOK'
  <2>1. \A c \in DOMAIN pipes : c \in Link
    BY ServerTyped, ConnectionsAssumption DEF WInv, Link
  <2>2. \A c \in Link : c > Pipe => c # Pipe BY <1>0 DEF Link
  <2> QED BY <1>0, <1>2, <1>3, <2>1, <2>2 DEF WInv, ServerOK, Pipe
<1>6. Serving' = Serving BY <1>0, <1>2, <1>3 DEF Serving
<1> QED BY <1>3, <1>4, <1>5, <1>6, ThreadsStep

LEMMA EndsInv == ASSUME IInv, WInv, Close \/ Hang PROVE WInv'
<1>1. PICK p \in {"closing", "hung"} :
        /\ server' = [process |-> p, starts |-> server.starts, accept |-> server.accept,
                     clients |-> server.clients]
        /\ server.process = "up" /\ UNCHANGED <<producer, pipes, window>>
  BY ServerTyped DEF WInv, Close, Hang
<1>2. server' \in [process : Process, starts : Nat, accept : Accepting, clients : [Link -> Clienting]]
  BY <1>1, ServerTyped DEF WInv, Process
<1>3. ServerOK' BY <1>1 DEF WInv, ServerOK, Pipe
<1>4. Serving' = Serving BY <1>1 DEF Serving
<1> QED BY <1>1, <1>2, <1>3, <1>4, ThreadsStep

LEMMA LeaveClientInv == ASSUME IInv, WInv, NEW c \in Link, Leave(c) PROVE WInv'
<1>1. /\ server.clients[c] = "reading" /\ ClientAt(c, "leaving")
      /\ UNCHANGED <<producer, pipes, window>> /\ "leaving" \in Clienting
  BY DEF Leave, Clienting
<1>2. /\ server' \in [process : Process, starts : Nat, accept : Accepting, clients : [Link -> Clienting]]
      /\ server'.process = server.process /\ server'.accept = server.accept
      /\ server'.clients[c] = "leaving"
      /\ \A d \in Link : d # c => server'.clients[d] = server.clients[d]
  BY <1>1, ClientMoves DEF WInv
<1>3. ServerOK'
  <2>1. (\A d \in DOMAIN pipes : d \in Link) /\ (server.accept = "connected" => Pipe \in Link)
    BY ServerTyped, ConnectionsAssumption DEF WInv, Link, ServerOK
  <2> QED BY <1>1, <1>2, <2>1 DEF WInv, ServerOK, Pipe
<1>4. Serving' = Serving BY <1>1, <1>2 DEF Serving
<1> QED BY <1>1, <1>2, <1>3, <1>4, ThreadsStep

ServerType == [process : Process, starts : Nat, accept : Accepting, clients : [Link -> Clienting]]

\* A pipe's two ends and its content, changed.
LEMMA PipeChanged ==
  ASSUME NEW old \in Seq(PipeEnds), NEW c \in 1..Len(old), NEW r \in PipeEnds,
         NEW ps, ps = [old EXCEPT ![c] = r]
  PROVE  /\ ps \in Seq(PipeEnds) /\ Len(ps) = Len(old) /\ ps[c] = r
         /\ \A d \in 1..Len(old) : d # c => ps[d] = old[d]
  OBVIOUS

LEMMA CloseEndIs ==
  ASSUME Shapes, NEW c \in 1..Pipe, CloseEnd(c)
  PROVE  /\ pipes' \in Seq(PipeEnds) /\ Len(pipes') = Pipe
         /\ pipes'[c].reader = "closed" /\ pipes'[c].written = <<>>
         /\ \A d \in 1..Pipe : d # c => pipes'[d] = pipes[d]
<1>1. pipes \in Seq(PipeEnds) /\ Pipe = Len(pipes) BY DEF Shapes, Pipe
<1>2. PICK p \in PipeEnds : p = pipes[c] BY <1>1
<1>3. PICK r : r = [p EXCEPT !.reader = "closed", !.written = <<>>] OBVIOUS
<1>4. PICK e \in Seq(Message) : e = <<>>
  <2>1. <<>> \in Seq(Message) OBVIOUS
  <2> QED BY <2>1
<1>5. r = [written |-> e, writer |-> p.writer, reader |-> "closed"] BY <1>3, <1>4 DEF PipeEnds
<1>6. r \in PipeEnds /\ r.reader = "closed" /\ r.written = e BY <1>2, <1>5 DEF PipeEnds
<1>7. pipes' = [pipes EXCEPT ![c] = r] BY <1>1, <1>2, <1>3 DEF CloseEnd
<1>8. PICK ps : ps = pipes' OBVIOUS
<1>9. /\ ps \in Seq(PipeEnds) /\ Len(ps) = Pipe /\ ps[c] = r
      /\ \A d \in 1..Pipe : d # c => ps[d] = pipes[d]
  <2>1. ps = [pipes EXCEPT ![c] = r] BY <1>7, <1>8
  <2>2. r \in PipeEnds BY <1>6
  <2>3. PICK old \in Seq(PipeEnds) : old = pipes /\ Len(old) = Pipe BY <1>1
  <2>4. ps = [old EXCEPT ![c] = r] BY <2>1, <2>3
  <2>5. c \in 1..Len(old) BY <2>3
  <2>6. /\ ps \in Seq(PipeEnds) /\ Len(ps) = Len(old) /\ ps[c] = r
        /\ \A d \in 1..Len(old) : d # c => ps[d] = old[d]
    BY <2>2, <2>4, <2>5, PipeChanged
  <2> QED BY <2>3, <2>6
<1> QED BY <1>4, <1>6, <1>8, <1>9

\* The lines of the pipes after one of them changed.
LEMMA OtherWays ==
  ASSUME Shapes, NEW c \in 1..Pipe, pipes' \in Seq(PipeEnds), Len(pipes') = Pipe,
         \A d \in 1..Pipe : d # c => pipes'[d] = pipes[d]
  PROVE  /\ Ways' \in Seq(Seq(Line)) /\ Len(Ways') = Len(Ways) /\ Len(Ways) = Pipe
         /\ c \in DOMAIN Ways
         /\ \A d \in DOMAIN Ways : d # c => Ways'[d] = Ways[d]
<1>1. Pipe \in Nat /\ Pipe <= MaxConnections /\ Len(Ways) = Pipe /\ DOMAIN Ways = 1..Pipe
      /\ DOMAIN pipes = 1..Pipe
  BY FlowTyped
<1>2. Len(pipes') <= MaxConnections BY <1>1
<1>3. LinesIn(pipes') \in Seq(Seq(Line)) /\ Len(LinesIn(pipes')) = Pipe /\ DOMAIN pipes' = 1..Pipe
  BY <1>2, LinesAre
<1>4. \A d \in 1..Pipe : d # c => LinesIn(pipes')[d] = LinesIn(pipes)[d] BY <1>1, <1>3, LinesSame
<1> QED BY <1>1, <1>3, <1>4 DEF Ways

LEMMA ClosesStep ==
  ASSUME IInv, WInv, NEW c \in 1..Pipe, CloseEnd(c), UNCHANGED <<producer, window>>,
         server' \in ServerType, ServerOK', Serving' = Serving
  PROVE  WInv'
<1>1. /\ pipes' \in Seq(PipeEnds) /\ Len(pipes') = Pipe
      /\ pipes'[c].reader = "closed" /\ pipes'[c].written = <<>>
      /\ \A d \in 1..Pipe : d # c => pipes'[d] = pipes[d]
  BY CloseEndIs DEF WInv
<1>2. /\ Ways' \in Seq(Seq(Line)) /\ Len(Ways') = Len(Ways) /\ Len(Ways) = Pipe
      /\ c \in DOMAIN Ways
      /\ \A d \in DOMAIN Ways : d # c => Ways'[d] = Ways[d]
  BY <1>1, OtherWays DEF WInv
<1>3. PICK T \in Seq(Line), P \in Seq(Line) : T = Text /\ P = window.posted BY FlowTyped DEF WInv
<1>4. PICK W \in Seq(Seq(Line)) : W = Ways BY FlowTyped DEF WInv
<1>5. PICK V \in Seq(Seq(Line)) : V = Ways' BY <1>2
<1>6. V[c] = <<>>
  <2>1. Pipe \in Nat /\ Pipe <= MaxConnections BY FlowTyped DEF WInv
  <2>2. Len(pipes') <= MaxConnections BY <1>1, <2>1
  <2>3. V[c] \in Seq(Line) /\ Len(V[c]) = Len(pipes'[c].written) BY <1>1, <1>5, <2>2, LinesAre DEF Ways
  <2>4. PICK q \in Seq(Line) : q = V[c] BY <2>3
  <2>5. Len(q) = 0 BY <1>1, <2>3, <2>4
  <2>6. q = <<>> BY <2>5
  <2> QED BY <2>4, <2>6
<1>7. /\ Len(V) = Len(W) /\ c \in DOMAIN W /\ \A d \in DOMAIN W : d # c => V[d] = W[d]
  BY <1>2, <1>4, <1>5
<1>8. /\ Frames(T, P, V) \subseteq Frames(T, P, W)
      /\ Ordered(T, P, W) => Ordered(T, P, V)
      /\ ToldOK(T, P, W) => ToldOK(T, P, V)
      /\ InPipes(V) <= InPipes(W)
  BY <1>6, <1>7, ClearFlow
<1>9. T = Text' /\ P = window'.posted BY <1>3 DEF Text
<1>10. Total(T) \in Nat /\ Total(P) \in Nat /\ InPipes(V) \in Nat /\ InPipes(W) \in Nat
  BY ReportedNat, PipesAre
<1>11. Total(T) + Total(P) + InPipes(V) <= Total(T) + Total(P) + InPipes(W)
  <2>1. PICK t \in Nat, p \in Nat : t = Total(T) /\ p = Total(P) BY <1>10
  <2>2. PICK i \in Nat : i = InPipes(V) BY <1>10
  <2>3. PICK j \in Nat : j = InPipes(W) BY <1>10
  <2>4. i <= j BY <1>8, <2>2, <2>3
  <2>5. t + p + i <= t + p + j BY <2>4
  <2> QED BY <2>1, <2>2, <2>3, <2>5
<1>12. ASSUME Pipe > 0, pipes'[Pipe].reader = "open"
       PROVE  /\ pipes[Pipe].reader = "open"
              /\ Total(T) + Total(P) + Total(W[Pipe]) <= Total(T) + Total(P) + Total(V[Pipe])
  <2>0. Pipe \in Nat BY FlowTyped DEF WInv
  <2>1. Pipe # c /\ Pipe \in 1..Pipe BY <1>1, <1>12, <2>0
  <2>2. pipes'[Pipe] = pipes[Pipe] BY <1>1, <2>1
  <2>3. Pipe \in DOMAIN W BY <1>4, <2>1, FlowTyped DEF WInv
  <2>4. V[Pipe] = W[Pipe] BY <1>7, <2>1, <2>3
  <2>5. Total(W[Pipe]) \in Nat BY <2>3, WayIn
  <2>6. PICK t \in Nat, p \in Nat : t = Total(T) /\ p = Total(P) BY <1>10
  <2>7. PICK a \in Nat : a = Total(W[Pipe]) BY <2>5
  <2>8. t + p + a <= t + p + a OBVIOUS
  <2> QED BY <1>12, <2>2, <2>4, <2>6, <2>7, <2>8
<1>13. Shapes'
  BY <1>1, FlowTyped DEF WInv, Pipe, ServerType, Process, Accepting, Clienting, Shapes,
     producer, threads
<1>14. CountOK' BY DEF WInv, CountOK
<1>15. Len(pipes') = Len(pipes) BY <1>1 DEF Pipe
<1>16. Frames(T, P, V) \subseteq Frames(T, P, W) \union {Nothing} BY <1>8
<1> QED BY <1>3, <1>4, <1>5, <1>8, <1>9, <1>11, <1>12, <1>13, <1>14, <1>15, <1>16, ServerStep

LEMMA EndAcceptInv == ASSUME IInv, WInv, EndAccept PROVE WInv'
<1>1. /\ server' = [process |-> server.process, starts |-> server.starts, accept |-> "none",
                   clients |-> server.clients]
      /\ server.process = "closing" /\ UNCHANGED <<producer, window>>
  BY ServerTyped DEF WInv, EndAccept
<1>2. server' \in ServerType BY <1>1, ServerTyped DEF WInv, ServerType, Accepting
<1>3. Serving' = Serving BY <1>1 DEF Serving
<1>4. CASE server.accept = "connected"
  BY <1>4, ServerTyped, CloseEndIs, <1>1, <1>2, <1>3, ClosesStep DEF WInv, ServerOK,
     EndAccept, Pipe
<1>5. CASE server.accept # "connected"
  BY <1>5, <1>1, <1>2, <1>3, ThreadsStep DEF EndAccept, WInv, ServerOK, Pipe, ServerType
<1> QED BY <1>4, <1>5

LEMMA CloseClientInv == ASSUME IInv, WInv, NEW c \in Link, CloseClient(c) PROVE WInv'
<1>1. /\ server.clients[c] = "closing" /\ ClientAt(c, "none") /\ CloseEnd(c)
      /\ UNCHANGED <<producer, window>> /\ "none" \in Clienting
  BY DEF CloseClient, Clienting
<1>2. /\ server' \in [process : Process, starts : Nat, accept : Accepting, clients : [Link -> Clienting]]
      /\ server'.process = server.process /\ server'.accept = server.accept
      /\ server'.clients[c] = "none"
      /\ \A d \in Link : d # c => server'.clients[d] = server.clients[d]
  BY <1>1, ClientMoves DEF WInv
<1>3. c \in 1..Pipe
  BY <1>1, ServerTyped DEF WInv, ServerOK, Link
<1>4. /\ pipes' \in Seq(PipeEnds) /\ Len(pipes') = Pipe
      /\ pipes'[c].reader = "closed" /\ pipes'[c].written = <<>>
      /\ \A d \in 1..Pipe : d # c => pipes'[d] = pipes[d]
  BY <1>1, <1>3, CloseEndIs DEF WInv
<1>5. DOMAIN pipes' = 1..Pipe /\ DOMAIN pipes = 1..Pipe /\ Pipe' = Pipe /\ 1..Pipe \subseteq Link
  BY <1>4, ServerTyped, ConnectionsAssumption DEF WInv, Link, Pipe
<1>6. ServerOK'
  BY <1>1, ServerTyped, <1>4, <1>2, <1>5 DEF WInv, ServerOK, Link
<1>7. Serving' = Serving BY <1>1, <1>2 DEF Serving
<1> QED BY <1>1, <1>2, <1>3, <1>6, <1>7, ClosesStep DEF ServerType

LEMMA SumsNatural ==
  ASSUME NEW T \in Seq(Line), NEW P \in Seq(Line), NEW W \in Seq(Seq(Line))
  PROVE  /\ Total(T) + Total(P) + InPipes(W) \in Nat
         /\ \A c \in DOMAIN W : Total(T) + Total(P) + Total(W[c]) \in Nat
<1>1. \A i, j, k \in Nat : i + j + k \in Nat OBVIOUS
<1>2. Total(T) \in Nat /\ Total(P) \in Nat /\ InPipes(W) \in Nat BY ReportedNat, PipesAre
<1>3. \A c \in DOMAIN W : Total(W[c]) \in Nat BY WayIn
<1> QED BY <1>1, <1>2, <1>3

LEMMA NothingLine ==
  ASSUME NEW c \in Link, NEW d \in {-1, 0, 1}, NEW x, x = [via |-> c, delta |-> d, frame |-> Nothing]
  PROVE  x \in Line /\ x.frame = Nothing /\ Delta(x) = d
  BY DEF Line, Message, Nothing, Delta

LEMMA WindowIs ==
  ASSUME Shapes
  PROVE  /\ window = [posted |-> window.posted, count |-> window.count, text |-> window.text]
         /\ window.posted \in Seq(Line) /\ window.count \in Nat /\ window.text \in Seq(Line)
  BY DEF Shapes

\* A client's thread posts its count.
LEMMA PostCountInv ==
  ASSUME IInv, WInv, NEW c \in Link, NEW d \in {-1, 1}, NEW at \in Clienting,
         server.clients[c] # "none", at # "none", Post(c, d, Nothing), ClientAt(c, at),
         UNCHANGED <<producer, pipes>>,
         Cardinality(Serving') = Cardinality(Serving) + d, Cardinality(Serving') \in Nat,
         Cardinality(Serving) \in Nat
  PROVE  WInv'
<1>1. PICK x \in Line : /\ x = [via |-> c, delta |-> d, frame |-> Nothing] /\ x.frame = Nothing
                        /\ Delta(x) = d
  BY NothingLine
<1>2. PICK T \in Seq(Line), P \in Seq(Line) : T = Text /\ P = window.posted BY FlowTyped DEF WInv
<1>3. PICK W \in Seq(Seq(Line)) : W = Ways BY FlowTyped DEF WInv
<1>4. PICK Q : Q = Append(P, x) OBVIOUS
<1>5. Q \in Seq(Line) /\ Len(Q) = Len(P) + 1 /\ Len(P) \in Nat BY <1>4, AppendAt
<1>6. window' = [posted |-> Q, count |-> window.count, text |-> window.text]
  BY <1>1, <1>2, <1>4, WindowIs DEF Post, WInv
<1>7. window'.posted = Q /\ window'.count = window.count /\ Text' = T BY <1>2, <1>6 DEF Text
<1>8. /\ server' \in [process : Process, starts : Nat, accept : Accepting, clients : [Link -> Clienting]]
      /\ server'.process = server.process /\ server'.accept = server.accept
      /\ server'.clients[c] = at
      /\ \A e \in Link : e # c => server'.clients[e] = server.clients[e]
  BY ClientMoves DEF WInv
<1>9. Shapes'
  <2>1. window' \in [posted : Seq(Line), count : Nat, text : Seq(Line)]
    BY <1>5, <1>6, WindowIs DEF WInv
  <2> QED BY <1>8, <2>1 DEF WInv, Shapes, producer, threads, Pipe, Process, Accepting, Clienting
<1>10. ServerOK'
  <2>1. (\A e \in DOMAIN pipes : e \in Link) /\ (server.accept = "connected" => Pipe \in Link)
    BY ServerTyped, ConnectionsAssumption DEF WInv, Link, ServerOK
  <2>2. server.process # "off" BY DEF WInv, ServerOK
  <2> QED BY <1>8, <2>1, <2>2 DEF WInv, ServerOK, Pipe
<1>11. CountOK'
  <2>1. PICK n \in Nat : n = Len(P) BY <1>5
  <2>2. /\ \A k \in 0..n : Deltas(Q)[k] = Deltas(P)[k]
        /\ Deltas(Q)[n + 1] = Deltas(P)[n] + d
        /\ \A k \in 0..n : Deltas(P)[k] \in Int
    BY <1>1, <1>4, <2>1, DeltasAppend, DeltasAre
  <2>3. PICK u \in Nat : u = window.count BY WindowIs DEF WInv
  <2>4. /\ \A k \in 0..n : u + Deltas(P)[k] >= 0
        /\ u + Deltas(P)[n] = Cardinality(Serving)
    BY <1>2, <2>1, <2>3 DEF WInv, CountOK
  <2>5. u + Deltas(Q)[n + 1] = Cardinality(Serving')
    <3>1. PICK v \in Int : v = Deltas(P)[n] BY <2>1, <2>2
    <3>2. PICK e \in Int : e = d OBVIOUS
    <3>3. PICK s \in Nat : s = Cardinality(Serving) OBVIOUS
    <3>4. u + v = s /\ Deltas(Q)[n + 1] = v + e BY <2>2, <2>4, <3>1, <3>2, <3>3
    <3>5. u + (v + e) = s + e BY <3>4
    <3> QED BY <3>2, <3>3, <3>4, <3>5
  <2>6. \A k \in 0..n + 1 : u + Deltas(Q)[k] >= 0
    <3> TAKE k \in 0..n + 1
    <3>1. CASE k = n + 1 BY <2>5, <3>1
    <3>2. CASE k # n + 1
      <4>1. k \in 0..n BY <3>2
      <4> QED BY <2>2, <2>4, <4>1
    <3> QED BY <3>1, <3>2
  <2> QED BY <1>5, <1>7, <2>1, <2>3, <2>5, <2>6 DEF CountOK
<1>12. /\ Frames(T, Q, W) \subseteq Frames(T, P, W) \union {Nothing}
       /\ Ordered(T, P, W) => Ordered(T, Q, W)
       /\ ToldOK(T, P, W) => ToldOK(T, Q, W)
       /\ Total(Q) = Total(P)
  <2>1. x.frame = Nothing BY <1>1
  <2> QED BY <1>4, <2>1, PostNothingFlow
<1>13. Total(T) + Total(Q) + InPipes(W) <= Total(T) + Total(P) + InPipes(W)
  <2>1. PICK a \in Nat : a = Total(T) + Total(P) + InPipes(W) BY SumsNatural
  <2>2. a <= a OBVIOUS
  <2> QED BY <1>12, <2>1, <2>2
<1>14. ASSUME Pipe > 0
       PROVE  Total(T) + Total(P) + Total(W[Pipe]) <= Total(T) + Total(Q) + Total(W[Pipe])
  <2>1. Pipe \in DOMAIN W BY <1>3, <1>14, FlowTyped DEF WInv
  <2>2. PICK a \in Nat : a = Total(T) + Total(P) + Total(W[Pipe]) BY <2>1, SumsNatural
  <2>3. a <= a OBVIOUS
  <2> QED BY <1>12, <2>2, <2>3
<1>15. W = Ways' /\ Len(pipes') = Len(pipes) BY <1>3 DEF Ways
<1>16. Pipe > 0 /\ pipes'[Pipe].reader = "open" =>
         /\ pipes[Pipe].reader = "open"
         /\ Total(T) + Total(P) + Total(W[Pipe]) <= Total(T) + Total(Q) + Total(W[Pipe])
  BY <1>14
<1>17. T = Text' /\ Q = window'.posted BY <1>7
<1> QED BY <1>2, <1>3, <1>5, <1>9, <1>10, <1>11, <1>12, <1>13, <1>15, <1>16, <1>17, ServerStep

LEMMA ServingNat == Cardinality(Serving) \in Nat /\ IsFiniteSet(Serving)
<1>1. IsFiniteSet(Link) BY FS_Interval, ConnectionsAssumption DEF Link
<1>2. Serving \subseteq Link BY DEF Serving
<1>3. IsFiniteSet(Serving) BY <1>1, <1>2, FS_Subset
<1> QED BY <1>3, FS_CardinalityType

LEMMA CountInInv == ASSUME IInv, WInv, NEW c \in Link, CountIn(c) PROVE WInv'
<1>1. /\ server.clients[c] = "starting" /\ ClientAt(c, "reading") /\ Post(c, 1, Nothing)
      /\ UNCHANGED <<producer, pipes>> /\ "reading" \in Clienting
  BY DEF CountIn, Clienting
<1>2. /\ server'.clients[c] = "reading"
      /\ \A e \in Link : e # c => server'.clients[e] = server.clients[e]
  BY <1>1, ClientMoves DEF WInv
<1>3. Serving' = Serving \union {c} /\ c \notin Serving BY <1>1, <1>2 DEF Serving
<1>4. Cardinality(Serving') = Cardinality(Serving) + 1 BY <1>3, ServingNat, FS_AddElement
<1>5. Cardinality(Serving) \in Nat /\ Cardinality(Serving') \in Nat BY <1>4, ServingNat
<1> QED BY <1>1, <1>4, <1>5, PostCountInv

LEMMA CountOutInv == ASSUME IInv, WInv, NEW c \in Link, CountOut(c) PROVE WInv'
<1>1. /\ server.clients[c] = "leaving" /\ ClientAt(c, "closing") /\ Post(c, -1, Nothing)
      /\ UNCHANGED <<producer, pipes>> /\ "closing" \in Clienting
  BY DEF CountOut, Clienting
<1>2. /\ server'.clients[c] = "closing"
      /\ \A e \in Link : e # c => server'.clients[e] = server.clients[e]
  BY <1>1, ClientMoves DEF WInv
<1>3. Serving' = Serving \ {c} /\ c \in Serving BY <1>1, <1>2 DEF Serving
<1>4. Cardinality(Serving') = Cardinality(Serving) - 1 /\ IsFiniteSet(Serving')
  BY <1>3, ServingNat, FS_RemoveElement
<1>5. Cardinality(Serving) \in Nat /\ Cardinality(Serving') \in Nat
  BY <1>4, ServingNat, FS_CardinalityType
<1>6. PICK d \in {-1, 1} : d = -1 OBVIOUS
<1>7. Cardinality(Serving') = Cardinality(Serving) + d BY <1>4, <1>5, <1>6
<1>8. Post(c, d, Nothing) BY <1>1, <1>6
<1> QED BY <1>1, <1>5, <1>7, <1>8, PostCountInv

LEMMA ReadIs ==
  ASSUME IInv, WInv, NEW c \in Link, Read(c)
  PROVE  /\ c \in 1..Pipe
         /\ pipes' \in Seq(PipeEnds) /\ Len(pipes') = Pipe
         /\ pipes'[c].reader = pipes[c].reader /\ pipes'[c].written = Tail(pipes[c].written)
         /\ \A d \in 1..Pipe : d # c => pipes'[d] = pipes[d]
         /\ pipes[c].reader = "open" /\ pipes[c].written # <<>>
         /\ DOMAIN pipes = 1..Pipe /\ DOMAIN pipes' = 1..Pipe /\ Pipe' = Pipe
<1>1. c \in 1..Pipe
  BY ServerTyped DEF WInv, ServerOK, Read, Link
<1>2. PICK old \in Seq(PipeEnds) : old = pipes /\ Len(old) = Pipe BY DEF WInv, Shapes, Pipe
<1>3. c \in 1..Len(old) /\ old[c] \in PipeEnds BY <1>1, <1>2
<1>4. PICK u \in Seq(Message) : u = old[c].written /\ u # <<>> BY <1>2, <1>3 DEF PipeEnds, Read
<1>5. PICK v \in Seq(Message) : v = Tail(u)
  <2>1. Tail(u) \in Seq(Message) BY <1>4
  <2> QED BY <2>1
<1>6. PICK p \in PipeEnds : p = old[c] BY <1>3
<1>7. PICK r : r = [p EXCEPT !.written = v] OBVIOUS
<1>8. r = [written |-> v, writer |-> p.writer, reader |-> p.reader] BY <1>6, <1>7 DEF PipeEnds
<1>9. r \in PipeEnds /\ r.reader = p.reader /\ r.written = v BY <1>6, <1>8 DEF PipeEnds
<1>10. PICK ps : ps = pipes' OBVIOUS
<1>11. ps = [old EXCEPT ![c] = r] BY <1>2, <1>4, <1>5, <1>6, <1>7, <1>10 DEF Read
<1>12. r \in PipeEnds BY <1>9
<1>13. /\ ps \in Seq(PipeEnds) /\ Len(ps) = Len(old) /\ ps[c] = r
       /\ \A d \in 1..Len(old) : d # c => ps[d] = old[d]
  BY <1>3, <1>11, <1>12, PipeChanged
<1>14. DOMAIN old = 1..Len(old) /\ DOMAIN ps = 1..Len(old) BY <1>13
<1>15. pipes[c].reader = "open" BY <1>1, <1>2, <1>4, <1>14 DEF WInv, ServerOK
<1>16. Pipe' = Pipe BY <1>2, <1>10, <1>13 DEF Pipe
<1> QED BY <1>1, <1>2, <1>4, <1>5, <1>6, <1>9, <1>10, <1>13, <1>14, <1>15, <1>16

\* What a read leaves, whatever it has read.
LEMMA ReadServer ==
  ASSUME IInv, WInv, NEW c \in Link, Read(c), NEW at \in {"reading", "leaving"},
         server'.process = server.process, server'.accept = server.accept,
         server'.clients[c] = at,
         \A d \in Link : d # c => server'.clients[d] = server.clients[d],
         server'.process = "off" => window' = NoWindow
  PROVE  ServerOK' /\ Serving' = Serving
<1>1. /\ c \in 1..Pipe
      /\ pipes'[c].reader = "open"
      /\ \A d \in 1..Pipe : d # c => pipes'[d] = pipes[d]
      /\ DOMAIN pipes = 1..Pipe /\ DOMAIN pipes' = 1..Pipe /\ Pipe' = Pipe
  BY ReadIs
<1>2. server.clients[c] = "reading" BY DEF Read
<1>3. 1..Pipe \subseteq Link
  BY ServerTyped, ConnectionsAssumption DEF WInv, Link
<1>4. server.accept = "connected" => Pipe \in Link /\ c # Pipe
  BY <1>2, ServerTyped DEF WInv, ServerOK, Link
<1>5. server.process # "off" BY <1>2 DEF WInv, ServerOK
<1>6. ASSUME NEW d \in 1..Pipe
      PROVE  IF pipes'[d].reader = "open"
             THEN server'.clients[d] # "none" \/ (server'.accept = "connected" /\ d = Pipe)
             ELSE pipes'[d].written = <<>>
  BY <1>1, <1>3 DEF WInv, ServerOK
<1>7. server'.accept = "connected" => Pipe > 0 /\ server'.clients[Pipe] = "none"
  BY <1>4 DEF WInv, ServerOK
<1>8. \A d \in Link : d > Pipe => server'.clients[d] = "none"
  BY <1>2 DEF WInv, ServerOK
<1>9. ServerOK' BY <1>1, <1>5, <1>6, <1>7, <1>8 DEF ServerOK
<1>10. Serving' = Serving BY <1>2 DEF Serving
<1> QED BY <1>9, <1>10

LEMMA ReadInv == ASSUME IInv, WInv, NEW c \in Link, Read(c) PROVE WInv'
<1>1. /\ c \in 1..Pipe
      /\ pipes' \in Seq(PipeEnds) /\ Len(pipes') = Pipe
      /\ pipes'[c].reader = pipes[c].reader /\ pipes'[c].written = Tail(pipes[c].written)
      /\ \A d \in 1..Pipe : d # c => pipes'[d] = pipes[d]
      /\ pipes[c].reader = "open" /\ pipes[c].written # <<>>
      /\ DOMAIN pipes = 1..Pipe /\ DOMAIN pipes' = 1..Pipe /\ Pipe' = Pipe
  BY ReadIs
<1>2. server.clients[c] = "reading" /\ UNCHANGED producer BY DEF Read
<1>3. PICK T \in Seq(Line), P \in Seq(Line) : T = Text /\ P = window.posted BY FlowTyped DEF WInv
<1>4. PICK W \in Seq(Seq(Line)) : W = Ways BY FlowTyped DEF WInv
<1>5. /\ Ways' \in Seq(Seq(Line)) /\ Len(Ways') = Len(Ways)
      /\ c \in DOMAIN Ways
      /\ \A d \in DOMAIN Ways : d # c => Ways'[d] = Ways[d]
  BY <1>1, OtherWays DEF WInv
<1>6. PICK V \in Seq(Seq(Line)) : V = Ways' BY <1>5
<1>7. Len(V) = Len(W) /\ c \in DOMAIN W /\ \A d \in DOMAIN W : d # c => V[d] = W[d]
  BY <1>4, <1>5, <1>6
<1>8. PICK f \in Message : f = pipes[c].written[1]
  <2>1. pipes \in Seq(PipeEnds) BY DEF WInv, Shapes
  <2>2. pipes[c].written \in Seq(Message)
    <3>1. c \in DOMAIN pipes BY <1>1
    <3>2. pipes[c] \in PipeEnds BY <2>1, <3>1
    <3> QED BY <3>2 DEF PipeEnds
  <2>3. PICK u \in Seq(Message) : u = pipes[c].written /\ u # <<>> BY <1>1, <2>2
  <2>4. u[1] \in Message BY <2>3
  <2> QED BY <2>3, <2>4
<1>9. V[c] = Tail(W[c]) /\ W[c] # <<>> /\ W[c][1] = LineOf(c, f) /\ Named(W)
  <2>1. pipes \in Seq(PipeEnds) /\ Len(pipes) = Pipe /\ Len(pipes) <= MaxConnections
    BY DEF WInv, Shapes, Pipe
  <2>2. Len(pipes') = Len(pipes) /\ c \in 1..Len(pipes) BY <1>1, <2>1
  <2>3. /\ LinesIn(pipes')[c] = Tail(LinesIn(pipes)[c]) /\ LinesIn(pipes)[c] # <<>>
        /\ LinesIn(pipes)[c][1] = LineOf(c, pipes[c].written[1])
    BY <1>1, <2>1, <2>2, LinesTail
  <2>4. Named(LinesIn(pipes)) BY <2>1, LinesAre
  <2> QED BY <1>4, <1>6, <1>8, <2>3, <2>4 DEF Ways
<1>10. LineOf(c, f) \in Line /\ LineOf(c, f).frame = f BY LineIs
<1>11. Pipe \in Nat /\ (Pipe > 0 => Pipe \in DOMAIN W) BY <1>4, FlowTyped DEF WInv
<1>12. Len(pipes') = Len(pipes) BY <1>1 DEF Pipe
<1>13. Pipe > 0 /\ pipes'[Pipe].reader = "open" => pipes[Pipe].reader = "open"
  <2>1. CASE Pipe = c BY <1>1, <2>1
  <2>2. CASE Pipe # c
    BY <1>11, <1>1, <2>2
  <2> QED BY <2>1, <2>2
<1>14. CASE f = Nothing
  <2>1. ClientAt(c, "leaving") /\ UNCHANGED window /\ "leaving" \in Clienting
    BY <1>8, <1>14 DEF Read, Clienting
  <2>2. /\ server' \in [process : Process, starts : Nat, accept : Accepting, clients : [Link -> Clienting]]
        /\ server'.process = server.process /\ server'.accept = server.accept
        /\ server'.clients[c] = "leaving"
        /\ \A d \in Link : d # c => server'.clients[d] = server.clients[d]
    BY <2>1, ClientMoves DEF WInv
  <2>3. server'.process = "off" => window' = NoWindow BY <2>1, <2>2 DEF WInv, ServerOK
  <2>4. ServerOK' /\ Serving' = Serving BY <2>2, <2>3, ReadServer
  <2>5. Shapes'
    BY <1>1, <1>2, <2>1, <2>2 DEF WInv, Shapes, producer, threads, Process, Accepting, Clienting
  <2>6. CountOK' BY <2>1, <2>4 DEF WInv, CountOK
  <2>7. W[c][1].frame = Nothing BY <1>9, <1>10, <1>14
  <2>8. /\ Frames(T, P, V) \subseteq Frames(T, P, W)
        /\ Ordered(T, P, W) => Ordered(T, P, V)
        /\ ToldOK(T, P, W) => ToldOK(T, P, V)
        /\ InPipes(V) <= InPipes(W)
        /\ \A d \in DOMAIN W : Total(V[d]) = Total(W[d])
    <3>1. PICK k \in DOMAIN W : k = c BY <1>7
    <3>2. W[k] # <<>> /\ V[k] = Tail(W[k]) BY <1>9, <3>1
    <3>3. Len(V) = Len(W) /\ \A d \in DOMAIN W : d # k => V[d] = W[d] BY <1>7, <3>1
    <3>4. W[k][1].frame = Nothing BY <2>7, <3>1
    <3> QED BY <3>2, <3>3, <3>4, TornFlow
  <2>9. Total(T) + Total(P) + InPipes(V) <= Total(T) + Total(P) + InPipes(W)
    <3>1. PICK t \in Nat, p \in Nat : t = Total(T) /\ p = Total(P) BY ReportedNat
    <3>2. PICK i \in Nat : i = InPipes(W) BY PipesAre
    <3>3. PICK j \in Nat : j = InPipes(V) BY PipesAre
    <3>4. j <= i BY <2>8, <3>2, <3>3
    <3>5. t + p + j <= t + p + i BY <3>4
    <3> QED BY <3>1, <3>2, <3>3, <3>5
  <2>10. ASSUME Pipe > 0
         PROVE  Total(T) + Total(P) + Total(W[Pipe]) <= Total(T) + Total(P) + Total(V[Pipe])
    <3>1. PICK a \in Nat : a = Total(T) + Total(P) + Total(W[Pipe]) BY <1>11, <2>10, SumsNatural
    <3>2. a <= a OBVIOUS
    <3> QED BY <1>11, <2>8, <2>10, <3>1, <3>2
  <2>11. Pipe > 0 /\ pipes'[Pipe].reader = "open" =>
           /\ pipes[Pipe].reader = "open"
           /\ Total(T) + Total(P) + Total(W[Pipe]) <= Total(T) + Total(P) + Total(V[Pipe])
    BY <1>13, <2>10
  <2>12. T = Text' /\ P = window'.posted BY <1>3, <2>1 DEF Text
  <2>13. Frames(T, P, V) \subseteq Frames(T, P, W) \union {Nothing} BY <2>8
  <2> QED BY <1>2, <1>3, <1>4, <1>6, <1>12, <2>4, <2>5, <2>6, <2>8, <2>9, <2>11, <2>12, <2>13,
          ServerStep
<1>15. CASE f # Nothing
  <2>1. Post(c, 0, f) /\ UNCHANGED server BY <1>8, <1>15 DEF Read
  <2>2. PICK x \in Line : x = LineOf(c, f) /\ x.frame = f BY <1>10
  <2>3. PICK Q : Q = Append(P, x) OBVIOUS
  <2>4. Q \in Seq(Line) /\ Len(Q) = Len(P) + 1 /\ Len(P) \in Nat BY <2>3, AppendAt
  <2>5. window' = [posted |-> Q, count |-> window.count, text |-> window.text]
    BY <1>3, <2>1, <2>2, <2>3, WindowIs DEF Post, WInv, LineOf
  <2>6. window'.posted = Q /\ window'.count = window.count /\ Text' = T BY <1>3, <2>5 DEF Text
  <2>7. ServerOK' /\ Serving' = Serving
    <3>1. server.process # "off" BY <1>2 DEF WInv, ServerOK
    <3>2. PICK at \in {"reading", "leaving"} : server'.clients[c] = at BY <1>2, <2>1
    <3> QED BY <2>1, <3>1, <3>2, ReadServer
  <2>8. Shapes'
    BY <2>4, <2>5, WindowIs, <1>1, <1>2, <2>1 DEF WInv, Shapes, producer, threads
  <2>9. CountOK'
    <3>1. PICK n \in Nat : n = Len(P) BY <2>4
    <3>0. Delta(x) = 0 BY <1>15, <2>2 DEF Delta
    <3>2. /\ \A k \in 0..n : Deltas(Q)[k] = Deltas(P)[k]
          /\ Deltas(Q)[n + 1] = Deltas(P)[n] + 0
          /\ \A k \in 0..n : Deltas(P)[k] \in Int
      BY <2>3, <3>0, <3>1, DeltasAppend, DeltasAre
    <3>3. Deltas(Q)[n + 1] = Deltas(P)[n] BY SMTT(20), <3>1, <3>2
    <3>4. /\ \A k \in 0..n : window.count + Deltas(P)[k] >= 0
          /\ window.count + Deltas(P)[n] = Cardinality(Serving)
      BY <1>3, <3>1 DEF WInv, CountOK
    <3>5. \A k \in 0..n + 1 : window.count + Deltas(Q)[k] >= 0
      <4> TAKE k \in 0..n + 1
      <4>1. CASE k = n + 1
        <5>1. n \in 0..n BY <3>1
        <5> QED BY <3>3, <3>4, <4>1, <5>1
      <4>2. CASE k # n + 1
        BY <4>2, <3>2, <3>4
      <4> QED BY <4>1, <4>2
    <3> QED BY <2>4, <2>6, <2>7, <3>1, <3>3, <3>4, <3>5 DEF CountOK
  <2>10. W[c][1] = x BY <1>9, <2>2
  <2>11. /\ Frames(T, Q, V) \subseteq Frames(T, P, W)
         /\ Ordered(T, P, W) => Ordered(T, Q, V)
         /\ ToldOK(T, P, W) => ToldOK(T, Q, V)
         /\ Total(Q) + InPipes(V) <= Total(P) + InPipes(W)
         /\ \A d \in DOMAIN W : Total(P) + Total(W[d]) <= Total(Q) + Total(V[d])
         /\ Q \in Seq(Line)
    <3>1. Q = Append(P, W[c][1]) BY <2>3, <2>10
    <3>2. Shapes BY DEF WInv
    <3>3. W[c] # <<>> /\ V[c] = Tail(W[c]) /\ Named(W) BY <1>9
    <3>4. Len(V) = Len(W) /\ c \in DOMAIN W /\ \A d \in DOMAIN W : d # c => V[d] = W[d] BY <1>7
    <3>5. Reads(T, P, W, c, Q, V) BY <3>1, <3>3, <3>4 DEF Reads
    <3>6. Shown(T, P, W, Q, V) BY <3>2, <3>5, ReadsFlow
    <3> QED BY <2>4, <3>6 DEF Shown
  <2>12. Total(T) + Total(Q) + InPipes(V) <= Total(T) + Total(P) + InPipes(W)
    <3>1. PICK t \in Nat, p \in Nat : t = Total(T) /\ p = Total(P) BY ReportedNat
    <3>2. PICK q \in Nat : q = Total(Q) BY <2>4, ReportedNat
    <3>3. PICK i \in Nat : i = InPipes(W) BY PipesAre
    <3>4. PICK j \in Nat : j = InPipes(V) BY PipesAre
    <3>5. q + j <= p + i BY <2>11, <3>1, <3>2, <3>3, <3>4
    <3>6. t + q + j <= t + p + i BY <3>5
    <3> QED BY <3>1, <3>2, <3>3, <3>4, <3>6
  <2>13. ASSUME Pipe > 0
         PROVE  Total(T) + Total(P) + Total(W[Pipe]) <= Total(T) + Total(Q) + Total(V[Pipe])
    <3>0. Pipe \in DOMAIN W /\ Pipe \in DOMAIN V
      BY <1>11, <2>13, <1>7
    <3>1. PICK t \in Nat, p \in Nat : t = Total(T) /\ p = Total(P) BY ReportedNat
    <3>2. PICK q \in Nat : q = Total(Q) BY <2>4, ReportedNat
    <3>3. PICK i \in Nat : i = Total(W[Pipe]) BY <3>0, WayIn
    <3>4. PICK j \in Nat : j = Total(V[Pipe]) BY <3>0, WayIn
    <3>5. p + i <= q + j BY <2>11, <3>0, <3>1, <3>2, <3>3, <3>4
    <3>6. t + p + i <= t + q + j BY <3>5
    <3> QED BY <3>1, <3>2, <3>3, <3>4, <3>6
  <2>14. Pipe > 0 /\ pipes'[Pipe].reader = "open" =>
           /\ pipes[Pipe].reader = "open"
           /\ Total(T) + Total(P) + Total(W[Pipe]) <= Total(T) + Total(Q) + Total(V[Pipe])
    BY <1>13, <2>13
  <2>15. Frames(T, Q, V) \subseteq Frames(T, P, W) \union {Nothing} BY <2>11
  <2>16. T = Text' /\ Q = window'.posted BY <2>6
  <2> QED BY <1>2, <1>3, <1>4, <1>6, <1>12, <2>4, <2>7, <2>8, <2>9, <2>11, <2>12, <2>14, <2>15, <2>16,
          ServerStep
<1> QED BY <1>14, <1>15

CountsTo(P, u, s) ==
  /\ \A k \in 0..Len(P) : u + Deltas(P)[k] >= 0
  /\ u + Deltas(P)[Len(P)] = s

\* The count after the first line posted is what the rest adds up from.
LEMMA CountTail ==
  ASSUME NEW P \in Seq(Line), P # <<>>, NEW Q, Q = Tail(P), NEW u \in Nat, NEW s \in Nat,
         CountsTo(P, u, s), NEW d \in Int, d = Delta(P[1])
  PROVE  u + d \in Nat /\ CountsTo(Q, u + d, s)
<1>1. PICK n \in Nat : n = Len(Q) BY TailAt
<1>2. Q \in Seq(Line) /\ Len(P) = n + 1 BY <1>1, TailAt
<1>3. \A k \in 0..n : Deltas(Q)[k] = Deltas(P)[k + 1] - d BY <1>1, <1>2, DeltasTail
<1>4. \A k \in 0..n + 1 : Deltas(P)[k] \in Int BY <1>2, DeltasAre
<1>5. \A k \in 0..n : Deltas(Q)[k] \in Int /\ Deltas(Q)[0] = 0 BY <1>1, <1>2, DeltasAre
<1>6. \A k \in 0..n : k + 1 \in 0..n + 1 BY <1>1
<1>7. \A k \in 0..n : (u + d) + Deltas(Q)[k] = u + Deltas(P)[k + 1]
  <2> TAKE k \in 0..n
  <2>1. PICK a \in Int : a = Deltas(P)[k + 1] BY <1>4, <1>6
  <2>2. Deltas(Q)[k] = a - d BY <1>3, <2>1
  <2>3. (u + d) + (a - d) = u + a OBVIOUS
  <2> QED BY <2>1, <2>2, <2>3
<1>8. \A k \in 0..n : (u + d) + Deltas(Q)[k] >= 0
  <2> TAKE k \in 0..n
  <2>1. u + Deltas(P)[k + 1] >= 0 BY <1>2, <1>6 DEF CountsTo
  <2> QED BY <1>7, <2>1
<1>9. 0 \in 0..n /\ n \in 0..n BY <1>1
<1>10. u + d \in Nat
  BY <1>5, <1>9, <1>8
<1>11. (u + d) + Deltas(Q)[n] = s BY <1>2, <1>7, <1>9 DEF CountsTo
<1> QED BY <1>1, <1>8, <1>10, <1>11 DEF CountsTo

LEMMA ShowInv == ASSUME IInv, WInv, Show PROVE WInv'
<1>1. PICK T \in Seq(Line), P \in Seq(Line) : T = Text /\ P = window.posted BY FlowTyped DEF WInv
<1>2. PICK W \in Seq(Seq(Line)) : W = Ways BY FlowTyped DEF WInv
<1>3. P # <<>> /\ UNCHANGED <<producer, pipes, server>> BY <1>1 DEF Show
<1>4. PICK Q : Q = Tail(P) OBVIOUS
<1>5. Q \in Seq(Line) BY <1>3, <1>4, TailAt
<1>6. PICK x \in Line : x = P[1] BY <1>3, TailAt
<1>7. PICK u \in Nat : u = window.count BY WindowIs DEF WInv
<1>8. PICK s \in Nat : s = Cardinality(Serving) BY ServingNat
<1>9. PICK d \in Int : d = Delta(x) BY <1>6 DEF Delta, Line
<1>10. u + d \in Nat /\ CountsTo(Q, u + d, s)
  <2>1. CountsTo(P, u, s) BY <1>1, <1>7, <1>8 DEF WInv, CountOK, CountsTo
  <2>2. d = Delta(P[1]) BY <1>6, <1>9
  <2>3. P # <<>> BY <1>3
  <2> QED BY <1>4, <2>1, <2>2, <2>3, CountTail
<1>11. ServerOK' /\ Serving' = Serving
  BY <1>3 DEF Show, WInv, ServerOK, Serving, Pipe
<1>12. W = Ways' /\ Len(pipes') = Len(pipes) BY <1>2, <1>3 DEF Ways
<1>13. /\ Shapes => (window' \in [posted : Seq(Line), count : Nat, text : Seq(Line)] => Shapes')
  BY <1>3 DEF Shapes, producer, threads, Pipe
<1>14. ASSUME NEW U \in Seq(Line), window' = [posted |-> Q, count |-> u + d, text |-> U]
       PROVE  Shapes' /\ CountOK' /\ U = Text' /\ Q = window'.posted
  BY <1>5, <1>10, <1>14, <1>8, <1>11, <1>13 DEF Text, CountOK, CountsTo, WInv
<1>15. CASE x.frame = Nothing
  <2>1. window' = [posted |-> Q, count |-> IF u + x.delta > 0 THEN u + x.delta ELSE 0, text |-> T]
    BY <1>1, <1>4, <1>6, <1>7, <1>15, WindowIs DEF Show, WInv, Text
  <2>2. d = x.delta BY <1>9, <1>15 DEF Delta
  <2>3. (IF u + x.delta > 0 THEN u + x.delta ELSE 0) = u + d BY <1>10, <2>2
  <2>4. window' = [posted |-> Q, count |-> u + d, text |-> T] BY <2>1, <2>3
  <2>5. Shapes' /\ CountOK' /\ T = Text' /\ Q = window'.posted BY <1>14, <2>4
  <2>6. /\ Frames(T, Q, W) \subseteq Frames(T, P, W)
        /\ Ordered(T, P, W) => Ordered(T, Q, W)
        /\ ToldOK(T, P, W) => ToldOK(T, Q, W)
        /\ Total(Q) = Total(P)
    BY <1>6, <1>15, <1>3, <1>4, ShowNothingFlow
  <2>7. Frames(T, Q, W) \subseteq Frames(T, P, W) \union {Nothing} BY <2>6
  <2>8. Total(T) + Total(Q) + InPipes(W) <= Total(T) + Total(P) + InPipes(W)
    <3>1. PICK a \in Nat : a = Total(T) + Total(P) + InPipes(W) BY SumsNatural
    <3>2. a <= a OBVIOUS
    <3> QED BY <2>6, <3>1, <3>2
  <2>9. ASSUME Pipe > 0
        PROVE  Total(T) + Total(P) + Total(W[Pipe]) <= Total(T) + Total(Q) + Total(W[Pipe])
    <3>1. Pipe \in DOMAIN W BY <1>2, <2>9, FlowTyped DEF WInv
    <3>2. PICK a \in Nat : a = Total(T) + Total(P) + Total(W[Pipe]) BY <3>1, SumsNatural
    <3>3. a <= a OBVIOUS
    <3> QED BY <2>6, <3>2, <3>3
  <2>10. Pipe > 0 /\ pipes'[Pipe].reader = "open" =>
          /\ pipes[Pipe].reader = "open"
          /\ Total(T) + Total(P) + Total(W[Pipe]) <= Total(T) + Total(Q) + Total(W[Pipe])
    BY <1>3, <2>9
  <2> QED BY <1>1, <1>2, <1>3, <1>5, <1>11, <1>12, <2>5, <2>6, <2>7, <2>8, <2>10, ServerStep
<1>16. CASE x.frame # Nothing
  <2>0. PICK U : U = Append(T, x) OBVIOUS
  <2>1. U \in Seq(Line) BY <2>0
  <2>2. window' = [posted |-> Q, count |-> u, text |-> U]
    BY <1>1, <1>4, <1>6, <1>7, <1>16, <2>0, WindowIs DEF Show, WInv, Text
  <2>3. d = 0 BY <1>9, <1>16 DEF Delta
  <2>4. window' = [posted |-> Q, count |-> u + d, text |-> U] BY <2>2, <2>3
  <2>5. Shapes' /\ CountOK' /\ U = Text' /\ Q = window'.posted BY <1>14, <2>1, <2>4
  <2>6. /\ Frames(U, Q, W) \subseteq Frames(T, P, W)
        /\ Ordered(T, P, W) => Ordered(U, Q, W)
        /\ ToldOK(T, P, W) => ToldOK(U, Q, W)
        /\ Total(U) + Total(Q) = Total(T) + Total(P)
        /\ U \in Seq(Line) /\ Q \in Seq(Line)
    <3>1. U = Append(T, P[1]) BY <1>6, <2>0
    <3>2. P # <<>> BY <1>3
    <3>4. ShowsOn(T, P, W, U, Q) BY <1>4, <3>1, <3>2, ShowFlow
    <3> QED BY <1>5, <2>1, <3>4 DEF ShowsOn
  <2>7. Frames(U, Q, W) \subseteq Frames(T, P, W) \union {Nothing} BY <2>6
  <2>8. Total(U) + Total(Q) + InPipes(W) <= Total(T) + Total(P) + InPipes(W)
    <3>1. PICK a \in Nat : a = Total(T) + Total(P) + InPipes(W) BY SumsNatural
    <3>2. a <= a OBVIOUS
    <3> QED BY <2>6, <3>1, <3>2
  <2>9. ASSUME Pipe > 0
        PROVE  Total(T) + Total(P) + Total(W[Pipe]) <= Total(U) + Total(Q) + Total(W[Pipe])
    <3>1. Pipe \in DOMAIN W BY <1>2, <2>9, FlowTyped DEF WInv
    <3>2. PICK a \in Nat : a = Total(T) + Total(P) + Total(W[Pipe]) BY <3>1, SumsNatural
    <3>3. a <= a OBVIOUS
    <3> QED BY <2>6, <3>2, <3>3
  <2>10. Pipe > 0 /\ pipes'[Pipe].reader = "open" =>
          /\ pipes[Pipe].reader = "open"
          /\ Total(T) + Total(P) + Total(W[Pipe]) <= Total(U) + Total(Q) + Total(W[Pipe])
    BY <1>3, <2>9
  <2> QED BY <1>1, <1>2, <1>3, <1>5, <1>11, <1>12, <2>1, <2>5, <2>6, <2>7, <2>8, <2>10, ServerStep
<1> QED BY <1>15, <1>16

\* The debugger is gone: its ends of the pipes are closed.
LEMMA GoneStep ==
  ASSUME IInv, WInv, UNCHANGED producer, pipes' \in Seq(PipeEnds), Len(pipes') = Pipe,
         \A c \in 1..Pipe : pipes'[c].reader = "closed" /\ pipes'[c].written = <<>>,
         window' = NoWindow, server' \in ServerType,
         server'.process = "off", server'.accept = "none",
         \A c \in Link : server'.clients[c] = "none"
  PROVE  WInv'
<1>1. Pipe \in Nat /\ Pipe <= MaxConnections /\ Pipe' = Pipe /\ DOMAIN pipes' = 1..Pipe
  BY FlowTyped DEF WInv, Pipe
<1>2. <<>> \in Seq(Line) OBVIOUS
<1>3. window'.posted = <<>> /\ window'.text = <<>> /\ window'.count = 0 BY DEF NoWindow
<1>4. PICK T \in Seq(Line), P \in Seq(Line) : T = Text /\ P = window.posted BY FlowTyped DEF WInv
<1>5. PICK W \in Seq(Seq(Line)) : W = Ways BY FlowTyped DEF WInv
<1>6. PICK V \in Seq(Seq(Line)) : /\ V = Ways' /\ Len(V) = Pipe
                                  /\ \A c \in 1..Pipe : V[c] \in Seq(Line) /\ Len(V[c]) = Len(pipes'[c].written)
  BY <1>1, LinesAre DEF Ways
<1>7. \A d \in DOMAIN V : V[d] = <<>>
  <2> TAKE d \in DOMAIN V
  <2>1. d \in 1..Pipe BY <1>6
  <2>2. PICK q \in Seq(Line) : q = V[d] BY <1>6, <2>1
  <2>3. Len(q) = 0 BY <1>6, <2>1, <2>2
  <2>4. q = <<>> BY <2>3
  <2> QED BY <2>2, <2>4
<1>8. PICK e \in Seq(Line) : e = <<>> BY <1>2
<1>9. e = Text' /\ e = window'.posted BY <1>3, <1>8 DEF Text
<1>10. /\ Frames(e, e, V) = {} /\ Ordered(e, e, V) /\ ToldOK(e, e, V) /\ InPipes(V) = 0
  BY <1>7, <1>8, EndFlow
<1>11. Frames(e, e, V) \subseteq Frames(T, P, W) \union {Nothing} BY <1>10
<1>12. Total(e) + Total(e) + InPipes(V) <= Total(T) + Total(P) + InPipes(W)
  <2>1. Total(e) = 0 BY <1>8, SumsEmpty
  <2>2. PICK a \in Nat : a = Total(T) + Total(P) + InPipes(W) BY SumsNatural
  <2>3. 0 + 0 + 0 <= a OBVIOUS
  <2> QED BY <1>10, <2>1, <2>2, <2>3
<1>13. ~(Pipe > 0 /\ pipes'[Pipe].reader = "open")
  BY <1>1
<1>14. Shapes'
  BY <1>2, <1>1 DEF ServerType, Process, Accepting, Clienting, NoWindow, WInv, Shapes,
     producer, threads
<1>15. ServerOK' BY <1>1 DEF ServerOK
<1>16. CountOK'
  <2>1. Serving' = {} BY DEF Serving
  <2>2. Cardinality(Serving') = 0 BY <2>1, FS_EmptySet
  <2>3. Len(e) = 0 /\ Deltas(e)[0] = 0
    BY <1>8, DeltasAre
  <2>4. \A k \in 0..0 : k = 0 OBVIOUS
  <2> QED BY <1>3, <1>9, <2>2, <2>3, <2>4 DEF CountOK
<1>17. Len(pipes') = Len(pipes) BY DEF Pipe
<1>18. Ordered(T, P, W) => Ordered(e, e, V) BY <1>10
<1>19. ToldOK(T, P, W) => ToldOK(e, e, V) BY <1>10
<1>20. Pipe > 0 /\ pipes'[Pipe].reader = "open" =>
         /\ pipes[Pipe].reader = "open"
         /\ Total(T) + Total(P) + Total(W[Pipe]) <= Total(e) + Total(e) + Total(V[Pipe])
  BY <1>13
<1> QED BY <1>4, <1>5, <1>6, <1>9, <1>11, <1>12, <1>14, <1>15, <1>16, <1>17, <1>18, <1>19, <1>20,
        ServerStep

LEMMA EndDebuggerInv == ASSUME IInv, WInv, EndDebugger PROVE WInv'
<1>1. /\ server' = [process |-> "off", starts |-> server.starts, accept |-> "none",
                   clients |-> server.clients]
      /\ \A c \in Link : server.clients[c] = "none"
      /\ server.accept = "none" /\ window' = NoWindow /\ UNCHANGED <<producer, pipes>>
  BY ServerTyped DEF WInv, EndDebugger, Link
<1>2. server' \in ServerType BY <1>1, ServerTyped DEF WInv, ServerType, Process, Accepting
<1>3. ASSUME NEW c \in 1..Pipe PROVE pipes[c].reader = "closed" /\ pipes[c].written = <<>>
  <2>1. c \in DOMAIN pipes /\ c \in Link
    BY ServerTyped, ConnectionsAssumption DEF WInv, Link
  <2>2. pipes[c].reader # "open" BY <1>1, <2>1 DEF WInv, ServerOK
  <2>3. pipes[c] \in PipeEnds BY <2>1 DEF WInv, Shapes
  <2> QED BY <2>1, <2>2, <2>3 DEF WInv, ServerOK, PipeEnds
<1>4. pipes' \in Seq(PipeEnds) /\ Len(pipes') = Pipe BY <1>1 DEF WInv, Shapes, Pipe
<1> QED BY <1>1, <1>2, <1>3, <1>4, GoneStep

LEMMA KillInv == ASSUME IInv, WInv, Kill PROVE WInv'
<1>1. /\ server' = [process |-> "off", starts |-> server.starts, accept |-> "none",
                   clients |-> [c \in Link |-> "none"]]
      /\ window' = NoWindow /\ UNCHANGED producer
  BY ServerTyped DEF WInv, Kill, Link
<1>2. server' \in ServerType BY <1>1, ServerTyped DEF WInv, ServerType, Process, Accepting, Clienting
<1>3. PICK old \in Seq(PipeEnds) : old = pipes /\ Len(old) = Pipe BY DEF WInv, Shapes, Pipe
<1>4. PICK n \in Nat : n = Len(old) /\ n = Pipe BY <1>3
<1>5. DOMAIN old = 1..n /\ \A c \in 1..n : old[c] \in PipeEnds
  <2>1. DOMAIN old = 1..Len(old) OBVIOUS
  <2>2. \A c \in DOMAIN old : old[c] \in PipeEnds OBVIOUS
  <2> QED BY <1>4, <2>1, <2>2
<1>6. \A c \in 1..n : [old[c] EXCEPT !.reader = "closed", !.written = <<>>] =
                      [written |-> <<>>, writer |-> old[c].writer, reader |-> "closed"]
  <2> TAKE c \in 1..n
  <2>1. PICK r \in PipeEnds : r = old[c] BY <1>5
  <2>2. r = [written |-> r.written, writer |-> r.writer, reader |-> r.reader] BY DEF PipeEnds
  <2>3. PICK q : q = [r EXCEPT !.reader = "closed"] OBVIOUS
  <2>4. q = [written |-> r.written, writer |-> r.writer, reader |-> "closed"] BY <2>2, <2>3
  <2>5. [q EXCEPT !.written = <<>>] = [written |-> <<>>, writer |-> q.writer, reader |-> q.reader]
    BY <2>4
  <2>6. q.writer = r.writer /\ q.reader = "closed" BY <2>4
  <2>7. [r EXCEPT !.reader = "closed", !.written = <<>>] = [q EXCEPT !.written = <<>>] BY <2>3
  <2> QED BY <2>1, <2>5, <2>6, <2>7
<1>7. PICK ps : ps = pipes' OBVIOUS
<1>8. ps = [c \in 1..n |-> [written |-> <<>>, writer |-> old[c].writer, reader |-> "closed"]]
  BY <1>3, <1>5, <1>6, <1>7 DEF Kill
<1>9. \A c \in 1..n : [written |-> <<>>, writer |-> old[c].writer, reader |-> "closed"] \in PipeEnds
  BY <1>5 DEF PipeEnds
<1>10. ps \in Seq(PipeEnds) /\ Len(ps) = n BY <1>8, <1>9
<1>11. \A c \in 1..n : ps[c].reader = "closed" /\ ps[c].written = <<>> BY <1>8
<1>12. server'.process = "off" /\ server'.accept = "none" /\ \A c \in Link : server'.clients[c] = "none"
  BY <1>1
<1> QED BY <1>1, <1>2, <1>4, <1>7, <1>10, <1>11, <1>12, GoneStep

-----------------------------------------------------------------------------
(***************************************************************************)
(* The logger                                                              *)
(***************************************************************************)
\* What is owed and told, with numbers in place of the sums.
LEMMA OwesIs ==
  ASSUME Shapes, OwesWhat(Text, window.posted, Ways), Attached
  PROVE  /\ Pipe > 0 /\ Pipe \in DOMAIN Ways
         /\ pipes[Pipe].reader = "open" =>
              LET a == Total(Text) + Total(window.posted) + Total(Ways[Pipe]) IN
              /\ a + Untold >= Cardinality(RefusedVia(Pipe))
              /\ worker.at = "reporting" => a + worker.drops >= Need(Pipe, worker.message)
              /\ worker.at = "writing" => a >= Need(Pipe, worker.message)
BY FlowTyped DEF OwesWhat

LEMMA SameWays ==
  ASSUME Shapes, Len(pipes') = Len(pipes), pipes' \in Seq(PipeEnds),
         \A c \in 1..Len(pipes) : pipes'[c].written = pipes[c].written
  PROVE  Ways' = Ways
BY DEF Shapes, Ways, LinesIn

\* A step of a thread, or of the logger's owner.
LEMMA QuietStep ==
  ASSUME IInv, WInv, PastKept, BeforeKept, UNCHANGED <<window, server, refused, pipes, worker>>,
         logger' \in [connected : BOOLEAN, dropped : Nat, event : BOOLEAN, stop : BOOLEAN],
         logger'.dropped = logger.dropped
  PROVE  WInv'
<1>1. Shapes' BY DEF WInv, Shapes, Pipe
<1>2. Ways' = Ways /\ Text' = Text /\ window'.posted = window.posted BY DEF Ways, Text
<1>3. Before(worker.message)'
  <2>1. PICK m \in Message : m = worker.message /\ Before(m) BY DEF WInv, Shapes
  <2>2. Before(m)' BY <2>1 DEF BeforeKept
  <2> QED BY <2>1, <2>2 DEF Before
<1>4. Untold' = Untold /\ (Attached' <=> Attached) BY DEF Untold, Owed, Attached
<1>5. \A f \in Message : Before(f) /\ Earlier(f, worker.message) => Earlier(f, worker'.message)
  OBVIOUS
<1>6. OwesWhat(Text, window.posted, Ways)'
  <2>1. PICK T, P, W : T = Text /\ P = window.posted /\ W = Ways OBVIOUS
  <2>2. OwesWhat(T, P, W) BY <2>1 DEF WInv
  <2>3. \A c, f : Need(c, f)' = Need(c, f) /\ RefusedVia(c)' = RefusedVia(c) BY ToldKept
  <2>4. OwesWhat(T, P, W)' BY <1>4, <2>2, <2>3 DEF OwesWhat
  <2>5. T = Text' /\ P = window'.posted /\ W = Ways' BY <1>2, <2>1
  <2> QED BY <2>4, <2>5
<1>7. \A c \in DOMAIN pipes : pipes'[c].reader = pipes[c].reader /\ pipes'[c].written = pipes[c].written
  OBVIOUS
<1>8. Len(pipes') = Len(pipes) OBVIOUS
<1>9. Untold' \in Nat /\ Untold' <= Untold BY <1>4, UntoldNat DEF WInv
<1> QED BY <1>1, <1>2, <1>3, <1>5, <1>6, <1>7, <1>8, <1>9, SideStep

\* A step of the worker that writes nothing.
LEMMA MoveStep ==
  ASSUME IInv, WInv, PastKept, BeforeKept, UNCHANGED <<window, server, refused>>, Shapes',
         Len(pipes') = Len(pipes),
         \A c \in 1..Len(pipes) : pipes'[c].reader = pipes[c].reader /\ pipes'[c].written = pipes[c].written,
         Before(worker.message)',
         \A f \in Message : Before(f) /\ Earlier(f, worker.message) => Earlier(f, worker'.message),
         Untold' = Untold,
         Attached' => Attached,
         worker'.at = "reporting" => worker'.drops = Untold,
         worker'.at = "writing" => Untold = 0
  PROVE  WInv'
<1>1. Ways' = Ways /\ Text' = Text /\ window'.posted = window.posted
  BY SameWays DEF Shapes, Text, WInv
<1>2. OwesWhat(Text, window.posted, Ways)'
  <2>1. PICK T \in Seq(Line), P \in Seq(Line) : T = Text /\ P = window.posted BY FlowTyped DEF WInv
  <2>2. PICK W \in Seq(Seq(Line)) : W = Ways /\ Len(W) = Pipe BY FlowTyped DEF WInv
  <2>3. SUFFICES ASSUME Attached' PROVE OwesWhat(T, P, W)'
    BY <1>1, <2>1, <2>2 DEF OwesWhat
  <2>4. Attached BY <2>3
  <2>5. Pipe > 0 /\ Pipe \in DOMAIN W BY <2>2, <2>4, OwesIs DEF WInv
  <2>6. PICK a \in Nat : a = Total(T) + Total(P) + Total(W[Pipe]) BY <2>5, SumsNatural
  <2>7. PICK n \in Nat : n = Cardinality(RefusedVia(Pipe)) BY NeedIs DEF WInv
  <2>8. PICK d \in Nat : d = Untold BY UntoldNat DEF WInv
  <2>9. worker'.message \in Message BY DEF Shapes
  <2>10. PICK m \in Nat : m = Need(Pipe, worker'.message) /\ m <= n BY <2>7, NeedIs DEF WInv
  <2>11. pipes[Pipe].reader = "open" => a + d >= n
    BY <2>1, <2>2, <2>4, <2>6, <2>7, <2>8, OwesIs DEF WInv
  <2>12. \A c, f : Need(c, f)' = Need(c, f) /\ RefusedVia(c)' = RefusedVia(c) BY ToldKept
  <2>13. pipes'[Pipe].reader = pipes[Pipe].reader
    BY <2>5, FlowTyped DEF WInv, Pipe
  <2>14. PICK e \in Nat : e = worker'.drops BY DEF Shapes
  <2>15. worker'.at = "reporting" => e = d BY <2>8, <2>14
  <2>16. worker'.at = "writing" => d = 0 BY <2>8
  <2>17. pipes'[Pipe].reader = "open" =>
           /\ a + d >= n
           /\ worker'.at = "reporting" => a + e >= m
           /\ worker'.at = "writing" => a >= m
    BY <2>10, <2>11, <2>13, <2>15, <2>16
  <2>18. Need(Pipe, worker'.message) = m BY <2>10
  <2> QED BY <2>2, <2>5, <2>6, <2>7, <2>8, <2>12, <2>14, <2>17, <2>18 DEF OwesWhat, Need, RefusedVia
<1>3. \A c \in DOMAIN pipes : pipes'[c].reader = pipes[c].reader /\ pipes'[c].written = pipes[c].written
  BY DEF WInv, Shapes
<1>4. Untold' \in Nat /\ Untold' <= Untold BY UntoldNat DEF WInv
<1> QED BY <1>1, <1>2, <1>3, <1>4, SideStep

LEMMA LoggerTyped ==
  ASSUME Shapes
  PROVE  /\ logger = [connected |-> logger.connected, dropped |-> logger.dropped,
                      event |-> logger.event, stop |-> logger.stop]
         /\ logger.connected \in BOOLEAN /\ logger.dropped \in Nat
         /\ logger.event \in BOOLEAN /\ logger.stop \in BOOLEAN
  BY DEF Shapes

LEMMA WorkerTyped ==
  ASSUME IInv, WInv
  PROVE  /\ worker = [at |-> worker.at, message |-> worker.message, drops |-> worker.drops]
         /\ worker.message \in Message /\ worker.drops \in Nat
  BY DEF IInv, Typed, WInv, Shapes

LEMMA CallInvs ==
  ASSUME IInv, WInv, NEW t \in Threads,
         Log(t) \/ PushStep(t) \/ Signal(t), UNCHANGED <<server, window>>
  PROVE  WInv'
BY LogKept, PushingKept, QuietStep, LoggerTyped DEF Pushing, Log, PushStep, WInv, Shapes,
   Signal

LEMMA DestroyInv == ASSUME IInv, WInv, Destroy, UNCHANGED <<server, window>> PROVE WInv'
BY AsideKept, LoggerTyped, QuietStep DEF Destroy, threads, WInv

\* The worker moves, and its message stays or is gone.
LEMMA WorkerMoves ==
  ASSUME IInv, WInv, PastKept, BeforeKept, UNCHANGED <<window, server, refused, pipes>>,
         logger' \in [connected : BOOLEAN, dropped : Nat, event : BOOLEAN, stop : BOOLEAN],
         worker'.message \in {worker.message, Nothing}, worker'.drops \in Nat,
         Untold' = Untold,
         Attached' => Attached,
         worker'.at = "reporting" => worker'.drops = Untold,
         worker'.at = "writing" => Untold = 0
  PROVE  WInv'
<1>1. Nothing \in Message /\ worker.message \in Message BY WorkerTyped DEF Message, Nothing
<1>2. Shapes' BY <1>1 DEF WInv, Shapes, Pipe
<1>3. Before(worker.message)'
  <2>1. CASE worker'.message = worker.message
    <3>1. PICK m \in Message : m = worker.message /\ Before(m) BY <1>1 DEF WInv
    <3>2. Before(m)' BY <3>1 DEF BeforeKept
    <3> QED BY <2>1, <3>1, <3>2 DEF Before
  <2>2. CASE worker'.message = Nothing
    BY <2>2, ThreadsAssumption DEF Before, Nothing
  <2> QED BY <2>1, <2>2
<1>4. \A f \in Message : Before(f) /\ Earlier(f, worker.message) => Earlier(f, worker'.message)
  BY ThreadsAssumption DEF Earlier, Nothing
<1>5. Len(pipes') = Len(pipes) OBVIOUS
<1>6. \A c \in 1..Len(pipes) : pipes'[c].reader = pipes[c].reader /\ pipes'[c].written = pipes[c].written
  OBVIOUS
<1> QED BY <1>2, <1>3, <1>4, <1>5, <1>6, MoveStep

LEMMA PumpInv == ASSUME IInv, WInv, Pump, UNCHANGED <<server, window>> PROVE WInv'
BY AsideKept, WorkerTyped, LoggerTyped, WorkerMoves DEF Pump, threads, WorkerAt, WInv,
   Untold, Owed, Attached

LEMMA WakeInv == ASSUME IInv, WInv, Wake, UNCHANGED <<server, window>> PROVE WInv'
<1>1. UNCHANGED <<queue, pushes, logged, refused, pipes>> BY DEF Wake, threads
<1>2. PastKept /\ BeforeKept BY <1>1, AsideKept
<1>3. /\ worker' = [at |-> worker'.at, message |-> worker.message, drops |-> worker.drops]
      /\ worker.at = "waiting" /\ worker'.at \in {"closing", "popping"}
  BY WorkerTyped DEF Wake, WorkerAt
<1>4. logger' = [connected |-> logger.connected, dropped |-> logger.dropped,
                 event |-> logger'.event, stop |-> logger.stop] /\ logger'.event \in BOOLEAN
  BY LoggerTyped DEF Wake, WInv
<1>5. /\ logger' \in [connected : BOOLEAN, dropped : Nat, event : BOOLEAN, stop : BOOLEAN]
      /\ logger'.dropped = logger.dropped
  BY <1>4, LoggerTyped DEF WInv
<1>6. Untold' = Untold BY <1>3, <1>5 DEF Untold, Owed
<1>7. Attached' => Attached BY <1>3 DEF Attached
<1>8. worker'.message = worker.message /\ worker'.at \in {"closing", "popping"} /\ worker'.drops \in Nat
  BY <1>3, WorkerTyped
<1> QED BY <1>1, <1>2, <1>5, <1>6, <1>7, <1>8, WorkerMoves

LEMMA FreeCellInv == ASSUME IInv, WInv, FreeCell, UNCHANGED <<server, window>> PROVE WInv'
<1>1. UNCHANGED <<refused, pipes, logger>> BY DEF FreeCell, threads
<1>2. PastKept /\ BeforeKept BY FreeKept
<1>3. /\ worker'.message \in {worker.message, Nothing} /\ worker'.drops \in Nat
      /\ worker.at \in {"freeing", "emptying"}
      /\ worker'.at = IF worker.at = "freeing" THEN "counting" ELSE "discarding"
  BY WorkerTyped DEF FreeCell, WorkerAt, Worker
<1>4. logger' \in [connected : BOOLEAN, dropped : Nat, event : BOOLEAN, stop : BOOLEAN]
  BY <1>1 DEF WInv, Shapes
<1>5. Untold' = Untold BY <1>1, <1>3 DEF Untold, Owed
<1>6. Attached' => Attached BY <1>3 DEF Attached
<1> QED BY <1>1, <1>2, <1>3, <1>4, <1>5, <1>6, WorkerMoves

LEMMA PopNothingInv == ASSUME IInv, WInv, PopNothing, UNCHANGED <<server, window>> PROVE WInv'
BY AsideKept, WorkerTyped, WorkerMoves DEF PopNothing, threads, Worker, WInv, Shapes,
   Untold, Owed, Attached

LEMMA CountInv == ASSUME IInv, WInv, Count, UNCHANGED <<server, window>> PROVE WInv'
<1>1. UNCHANGED <<queue, pushes, logged, refused, pipes>> BY DEF Count, threads
<1>2. PastKept /\ BeforeKept BY <1>1, AsideKept
<1>3. PICK n \in Nat : n = logger.dropped BY LoggerTyped DEF WInv
<1>4. /\ worker' = [at |-> IF n > 0 THEN "reporting" ELSE "writing",
                    message |-> worker.message, drops |-> n]
      /\ worker.at = "counting"
  BY <1>3, WorkerTyped DEF Count
<1>5. logger' = [connected |-> logger.connected, dropped |-> 0,
                 event |-> logger.event, stop |-> logger.stop]
  BY LoggerTyped DEF Count, WInv
<1>6. /\ logger' \in [connected : BOOLEAN, dropped : Nat, event : BOOLEAN, stop : BOOLEAN]
      /\ logger'.dropped = 0
  BY <1>5, LoggerTyped DEF WInv
<1>7. Untold = n BY <1>3, <1>4 DEF Untold, Owed
<1>8. Untold' = n
  BY <1>4, <1>6 DEF Untold, Owed
<1>9. Attached' => Attached BY <1>4 DEF Attached
<1>10. worker'.message = worker.message /\ worker'.drops = n BY <1>4
<1>11. worker'.at = "writing" => n = 0 BY <1>4
<1> QED BY <1>1, <1>2, <1>6, <1>7, <1>8, <1>9, <1>10, <1>11, WorkerMoves

LEMMA LeaveOutInv == ASSUME IInv, WInv, LeaveOut, UNCHANGED <<server, window>> PROVE WInv'
<1>1. UNCHANGED <<queue, pushes, logged, refused, pipes, logger>> BY DEF LeaveOut, threads
<1>2. PastKept /\ BeforeKept BY <1>1, AsideKept
<1>3. /\ worker'.message = Nothing /\ worker'.drops = 0
      /\ worker.at = "writing" /\ worker'.at = "popping"
  BY DEF LeaveOut, Written, Worker, AfterWrite
<1>4. logger' \in [connected : BOOLEAN, dropped : Nat, event : BOOLEAN, stop : BOOLEAN]
  BY <1>1 DEF WInv, Shapes
<1>5. Untold' = Untold BY <1>1, <1>3 DEF Untold, Owed
<1>6. Attached' => Attached BY <1>3 DEF Attached
<1> QED BY <1>1, <1>2, <1>3, <1>4, <1>5, <1>6, WorkerMoves

LEMMA EndWorkerInv == ASSUME IInv, WInv, EndWorker, UNCHANGED <<server, window>> PROVE WInv'
BY AsideKept, WorkerTyped, WorkerMoves DEF EndWorker, threads, WorkerAt, WInv, Shapes,
   Untold, Owed, Attached

LEMMA TakeInv == ASSUME IInv, WInv, Pop, UNCHANGED <<server, window>> PROVE WInv'
BY PopKept, MoveStep DEF Pop, threads, WInv, Shapes, Pipe, Untold, Owed, Attached

LEMMA ClosePipeInv == ASSUME IInv, WInv, ClosePipe, UNCHANGED <<server, window>> PROVE WInv'
<1>1. UNCHANGED <<queue, pushes, logged, refused>> BY DEF ClosePipe, threads
<1>2. PastKept /\ BeforeKept BY <1>1, AsideKept
<1>3. worker' = [at |-> "discarding", message |-> worker.message, drops |-> worker.drops]
      /\ worker.at = "closing"
  BY WorkerTyped DEF ClosePipe, WorkerAt
<1>4. logger' = [connected |-> FALSE, dropped |-> logger.dropped,
                 event |-> logger.event, stop |-> logger.stop]
  BY LoggerTyped DEF ClosePipe, WInv
<1>5. /\ logger' \in [connected : BOOLEAN, dropped : Nat, event : BOOLEAN, stop : BOOLEAN]
      /\ logger'.dropped = logger.dropped
  BY <1>4, LoggerTyped DEF WInv
<1>6. PICK old \in Seq(PipeEnds) : old = pipes BY DEF WInv, Shapes
<1>7. PICK ps : ps = pipes' OBVIOUS
<1>8. PICK k \in Nat : k = Len(old) BY <1>6
<1>9. ps = [old EXCEPT ![k].writer = "closed"] BY <1>6, <1>7, <1>8 DEF ClosePipe, Pipe
<1>10. DOMAIN old = 1..k /\ \A c \in 1..k : old[c] \in PipeEnds
  BY <1>8
<1>11. ps \in Seq(PipeEnds) /\ Len(ps) = k
       /\ \A c \in 1..k : ps[c].reader = old[c].reader /\ ps[c].written = old[c].written
  <2>1. CASE k = 0
    <3>1. k \notin DOMAIN old BY <1>10, <2>1
    <3>2. ps = old BY <1>9, <1>10, <3>1
    <3> QED BY <1>8, <3>2
  <2>2. CASE k # 0
    <3>1. k \in 1..k BY <2>2
    <3>2. PICK p \in PipeEnds : p = old[k] BY <1>10, <3>1
    <3>3. PICK r : r = [written |-> p.written, writer |-> "closed", reader |-> p.reader] OBVIOUS
    <3>4. r \in PipeEnds /\ r.reader = p.reader /\ r.written = p.written BY <3>2, <3>3 DEF PipeEnds
    <3>5. [p EXCEPT !.writer = "closed"] = r BY <3>2, <3>3 DEF PipeEnds
    <3>6. ps = [old EXCEPT ![k] = r] BY <1>9, <3>2, <3>5
    <3>7. /\ ps \in Seq(PipeEnds) /\ Len(ps) = Len(old) /\ ps[k] = r
          /\ \A d \in 1..Len(old) : d # k => ps[d] = old[d]
      BY <1>8, <3>1, <3>4, <3>6, PipeChanged
    <3> QED BY <1>8, <3>2, <3>4, <3>7
  <2> QED BY <2>1, <2>2
<1>12. pipes' \in Seq(PipeEnds) /\ Len(pipes') = Len(pipes)
       /\ \A c \in 1..Len(pipes) : pipes'[c].reader = pipes[c].reader /\ pipes'[c].written = pipes[c].written
  BY <1>6, <1>7, <1>8, <1>11
<1>13. Shapes' BY <1>1, <1>3, <1>5, <1>12, WorkerTyped DEF WInv, Shapes, Pipe
<1>14. Untold' = Untold BY <1>3, <1>5 DEF Untold, Owed
<1>15. ~Attached' /\ worker'.at # "reporting" /\ worker'.at # "writing" BY <1>3 DEF Attached
<1>16. Before(worker.message)'
  <2>1. PICK m \in Message : m = worker.message /\ Before(m) BY DEF WInv, Shapes
  <2>2. Before(m)' BY <1>2, <2>1 DEF BeforeKept
  <2>3. m = worker'.message BY <1>3, <2>1
  <2> QED BY <2>2, <2>3 DEF Before
<1>17. \A f \in Message : Before(f) /\ Earlier(f, worker.message) => Earlier(f, worker'.message)
  BY <1>3
<1> QED BY <1>1, <1>2, <1>12, <1>13, <1>14, <1>15, <1>16, <1>17, MoveStep

\* What is told is enough when what must be told of the lines is what it was.
LEMMA ToldAgain ==
  ASSUME NEW T, NEW P, NEW W, \A c, f : f \in Frames(T, P, W) => Need(c, f)' = Need(c, f),
         ToldOK(T, P, W)
  PROVE  ToldOK(T, P, W)'
BY DEF FramesOf, Enough, Frames, ToldOK

\* A message the full queue refuses.
LEMMA RefuseInv ==
  ASSUME IInv, WInv, NEW t \in Threads, Refuse(t), UNCHANGED <<server, window>> PROVE WInv'
<1>1. PastKept /\ BeforeKept BY LeaveKept
<1>2. /\ UNCHANGED <<queue, worker, pipes, logged, window, server>>
      /\ pushes[t].at = "refused" /\ Calls(t, NoPush)
  BY DEF Refuse
<1>3. PICK n \in Nat : n = pushes[t].message.number BY DEF IInv, Typed, Push, Message
<1>4. PICK r : r = [thread |-> t, number |-> n, via |-> Pipe] OBVIOUS
<1>5. refused' = refused \union {r} BY <1>3, <1>4 DEF Refuse
<1>6. Carrying(t) /\ n = logged[t] BY <1>2, <1>3 DEF IInv, Carried, Carrying
<1>7. r \notin refused
  BY <1>6, <1>4 DEF Past, WInv, RefusedOK
<1>8. /\ logger' = [connected |-> logger.connected, dropped |-> logger.dropped + 1,
                    event |-> logger.event, stop |-> logger.stop]
  BY LoggerTyped DEF Refuse, WInv
<1>9. /\ logger' \in [connected : BOOLEAN, dropped : Nat, event : BOOLEAN, stop : BOOLEAN]
      /\ logger'.dropped = logger.dropped + 1
  BY <1>8, LoggerTyped DEF WInv
<1>10. Pipe \in 0..MaxConnections
  BY FlowTyped, ConnectionsAssumption DEF WInv
<1>11. /\ refused' \subseteq [thread : Threads, number : Nat, via : 0..MaxConnections]
       /\ IsFiniteSet(refused')
  <2>1. r \in [thread : Threads, number : Nat, via : 0..MaxConnections] BY <1>4, <1>10
  <2>2. IsFiniteSet(refused \union {r}) BY FS_AddElement DEF WInv, Shapes
  <2> QED BY <1>5, <2>1, <2>2 DEF WInv, Shapes
<1>12. Shapes' BY <1>2, <1>9, <1>11 DEF WInv, Shapes, Pipe
<1>13. Cardinality(refused') = Cardinality(refused) + 1
  BY <1>5, <1>7, FS_AddElement DEF WInv, Shapes
<1>14. ASSUME NEW c PROVE Cardinality(RefusedVia(c)') <= Cardinality(RefusedVia(c)) + 1
  <2>1. IsFiniteSet(RefusedVia(c)) BY FS_Subset DEF WInv, Shapes, RefusedVia
  <2>2. RefusedVia(c)' \subseteq RefusedVia(c) \union {r} BY <1>5 DEF RefusedVia
  <2>3. /\ IsFiniteSet(RefusedVia(c) \union {r})
        /\ Cardinality(RefusedVia(c) \union {r}) <= Cardinality(RefusedVia(c)) + 1
    <3>1. Cardinality(RefusedVia(c)) \in Nat BY <2>1, FS_CardinalityType
    <3> QED BY <2>1, <3>1, FS_AddElement
  <2>4. Cardinality(RefusedVia(c)') <= Cardinality(RefusedVia(c) \union {r}) BY <2>2, <2>3, FS_Subset
  <2>5. PICK x \in Nat : x = Cardinality(RefusedVia(c)) BY <2>1, FS_CardinalityType
  <2>6. PICK y \in Nat : y = Cardinality(RefusedVia(c) \union {r}) BY <2>3, FS_CardinalityType
  <2>7. PICK z \in Nat : z = Cardinality(RefusedVia(c)')
    BY <2>2, <2>3, FS_Subset, FS_CardinalityType
  <2> QED BY <2>3, <2>4, <2>5, <2>6, <2>7
<1>15. ASSUME NEW c, NEW f \in Message, Before(f) PROVE Need(c, f)' = Need(c, f)
  BY <1>4, <1>6, <1>15, <1>5 DEF Before, Past, Message, RefusedVia, Need
<1>16. PICK T \in Seq(Line), P \in Seq(Line) : T = Text /\ P = window.posted BY FlowTyped DEF WInv
<1>17. PICK W \in Seq(Seq(Line)) : W = Ways /\ Len(W) = Pipe BY FlowTyped DEF WInv
<1>18. T = Text' /\ P = window'.posted /\ W = Ways' /\ Pipe' = Pipe
  BY <1>2, <1>16, <1>17 DEF Text, Ways, Pipe
<1>19. Sent(Frames(T, P, W)) /\ Frames(T, P, W) \subseteq Message
  BY <1>16, <1>17, FramesTyped DEF WInv
<1>20. Sent(Frames(T, P, W))'
  <2>1. PICK F : F = Frames(T, P, W) OBVIOUS
  <2>2. \A f \in Message : Before(f) /\ Earlier(f, worker.message) => Earlier(f, worker'.message)
    BY <1>2
  <2>3. Sent(F)' BY <1>1, <1>19, <2>1, <2>2, SentKept
  <2> QED BY <2>1, <2>3
<1>21. ToldOK(T, P, W)'
  BY <1>16, <1>17, <1>15, <1>19, ToldAgain DEF WInv, Sent
<1>22. Untold' = Untold + 1 /\ (Attached' <=> Attached)
  <2>1. PICK o \in Nat, d \in Nat : o = Owed /\ d = logger.dropped BY UntoldNat DEF WInv
  <2>2. Owed' = o /\ logger'.dropped = d + 1 BY <1>2, <1>9, <2>1 DEF Owed
  <2>3. o + (d + 1) = (o + d) + 1 OBVIOUS
  <2> QED BY <1>2, <2>1, <2>2, <2>3 DEF Untold, Attached
<1>23. OwesWhat(T, P, W)'
  <2>1. SUFFICES ASSUME Attached' PROVE OwesWhat(T, P, W)'
    BY DEF OwesWhat
  <2>2. Attached BY <1>22, <2>1
  <2>3. Pipe > 0 /\ Pipe \in DOMAIN W BY <1>17, <2>2, OwesIs DEF WInv
  <2>4. PICK a \in Nat : a = Total(T) + Total(P) + Total(W[Pipe]) BY <2>3, SumsNatural
  <2>5. PICK x \in Nat : x = Cardinality(RefusedVia(Pipe)) BY NeedIs DEF WInv
  <2>6. PICK d \in Nat : d = Untold BY UntoldNat DEF WInv
  <2>7. PICK y \in Nat : y = Cardinality(RefusedVia(Pipe))'
    <3>1. \A c : Cardinality(RefusedVia(c)') \in Nat
      <4> TAKE c
      <4>1. IsFiniteSet(RefusedVia(c)') BY <1>12, FS_Subset DEF Shapes, RefusedVia
      <4> QED BY <4>1, FS_CardinalityType
    <3>2. RefusedVia(Pipe)' = {s \in refused' : s.via = Pipe} BY <1>18 DEF RefusedVia
    <3> QED BY <1>18, <3>1, <3>2 DEF RefusedVia
  <2>8. y <= x + 1 BY <1>14, <1>18, <2>5, <2>7 DEF RefusedVia
  <2>9. PICK m \in Nat : m = Need(Pipe, worker.message) BY NeedIs DEF WInv
  <2>10. Need(Pipe, worker.message)' = m
    <3>1. worker.message \in Message /\ Before(worker.message) BY WorkerTyped DEF WInv
    <3>2. PICK f \in Message : f = worker.message /\ Before(f) BY <3>1
    <3>3. PICK c : c = Pipe OBVIOUS
    <3>4. Need(c, f)' = Need(c, f) BY <1>15, <3>2
    <3> QED BY <1>2, <1>18, <2>9, <3>2, <3>3, <3>4 DEF Need, RefusedVia
  <2>11. PICK e \in Nat : e = worker.drops BY WorkerTyped
  <2>12. pipes[Pipe].reader = "open" =>
           /\ a + d >= x
           /\ worker.at = "reporting" => a + e >= m
           /\ worker.at = "writing" => a >= m
    BY <1>16, <1>17, <2>2, <2>4, <2>5, <2>6, <2>9, <2>11, OwesIs DEF WInv
  <2>13. pipes[Pipe].reader = "open" =>
           /\ a + (d + 1) >= y
           /\ worker.at = "reporting" => a + e >= m
           /\ worker.at = "writing" => a >= m
    BY <2>8, <2>12
  <2>14. Untold' = d + 1 BY <1>22, <2>6
  <2> QED BY <1>2, <1>17, <1>18, <2>3, <2>4, <2>7, <2>10, <2>11, <2>13, <2>14 DEF OwesWhat
<1>24. NoMore(T, P, W)'
  <2>1. PICK a \in Nat : a = Total(T) + Total(P) + InPipes(W) BY SumsNatural
  <2>2. PICK d \in Nat : d = Untold BY UntoldNat DEF WInv
  <2>3. PICK x \in Nat : x = Cardinality(refused) BY NeedIs DEF WInv
  <2>4. a + d <= x BY <1>16, <1>17, <2>1, <2>2, <2>3 DEF WInv, NoMore
  <2>5. a + (d + 1) <= x + 1 BY <2>4
  <2>6. Untold' = d + 1 /\ Cardinality(refused') = x + 1 BY <1>13, <1>22, <2>2, <2>3
  <2> QED BY <2>1, <2>5, <2>6 DEF NoMore
<1>25. ServerOK' /\ CountOK' BY <1>2 DEF WInv, ServerOK, CountOK, Serving, Pipe
<1>26. Ordered(T, P, W) BY <1>16, <1>17 DEF WInv
<1>27. Before(worker.message)'
  <2>1. PICK m \in Message : m = worker.message /\ Before(m) BY WorkerTyped DEF WInv
  <2>2. Before(m)' BY <1>1, <2>1 DEF BeforeKept
  <2>3. m = worker'.message BY <1>2, <2>1
  <2> QED BY <2>2, <2>3 DEF Before
<1>28. RefusedOK'
  <2>1. \A s \in refused : s.thread \in Threads /\ s.number \in Nat BY DEF WInv, Shapes
  <2>2. \A s \in refused : Past(s.thread, s.number)' /\ s.via <= Pipe
    BY <1>1, <2>1 DEF WInv, RefusedOK, PastKept
  <2>3. Past(t, n)'
    BY <1>2, <1>3, <1>6 DEF Calls, IInv, Typed, Carrying, NoPush, Past
  <2>4. r.thread = t /\ r.number = n /\ r.via = Pipe /\ Pipe <= Pipe BY <1>4, <1>10
  <2> QED BY <1>5, <1>18, <2>2, <2>3, <2>4 DEF RefusedOK
<1> QED BY <1>12, <1>18, <1>20, <1>21, <1>23, <1>24, <1>25, <1>26, <1>27, <1>28 DEF WInv

\* What is written to the worker's pipe while its reader is there.
LEMMA WrittenIs ==
  ASSUME Shapes, NEW f \in Message, NEW c \in 1..Pipe, c = Pipe, pipes[c].reader = "open",
         pipes' = [pipes EXCEPT ![c].written = Append(@, f)]
  PROVE  /\ pipes' \in Seq(PipeEnds) /\ Len(pipes') = Pipe
         /\ pipes'[c].reader = "open" /\ pipes'[c].written = Append(pipes[c].written, f)
         /\ \A d \in 1..Pipe : d # c => pipes'[d] = pipes[d]
<1>1. PICK old \in Seq(PipeEnds) : old = pipes /\ Len(old) = Pipe BY DEF Shapes, Pipe
<1>2. c \in 1..Len(old) /\ old[c] \in PipeEnds BY <1>1
<1>3. PICK p \in PipeEnds : p = old[c] BY <1>2
<1>4. PICK u \in Seq(Message) : u = p.written BY <1>3 DEF PipeEnds
<1>5. PICK v \in Seq(Message) : v = Append(u, f)
  <2>1. Append(u, f) \in Seq(Message) OBVIOUS
  <2> QED BY <2>1
<1>6. PICK r : r = [written |-> v, writer |-> p.writer, reader |-> p.reader] OBVIOUS
<1>7. r \in PipeEnds /\ r.reader = p.reader /\ r.written = v BY <1>3, <1>6 DEF PipeEnds
<1>8. [p EXCEPT !.written = v] = r
  BY <1>6 DEF PipeEnds
<1>9. PICK ps : ps = pipes' OBVIOUS
<1>10. ps = [old EXCEPT ![c] = r] BY <1>1, <1>3, <1>4, <1>5, <1>8, <1>9
<1>11. /\ ps \in Seq(PipeEnds) /\ Len(ps) = Len(old) /\ ps[c] = r
       /\ \A d \in 1..Len(old) : d # c => ps[d] = old[d]
  BY <1>2, <1>7, <1>10, PipeChanged
<1>12. p.reader = "open" /\ u = pipes[c].written BY <1>1, <1>3, <1>4
<1> QED BY <1>1, <1>5, <1>7, <1>9, <1>11, <1>12

\* Whatever the worker writes is told of what was refused before it.
LEMMA FrameIs ==
  ASSUME IInv, WInv, worker.at \in {"reporting", "writing"}, NEW f \in {Frame, Nothing}
  PROVE  /\ f \in Message
         /\ f.thread = "none" \/ (f = worker.message /\ worker.at = "writing")
         /\ IsReport(f) <=> f.thread = "none"
         /\ worker.at = "writing" => ~IsReport(f) \/ f = Nothing
         /\ worker.at = "reporting" => IsReport(f) /\ (f.number = worker.drops \/ f = Nothing)
BY WorkerTyped, ThreadsAssumption DEF IInv, TakenIsMessage, Frame, Nothing, IsReport,
   Message

LEMMA SendStep ==
  ASSUME IInv, WInv, worker.at \in {"reporting", "writing"}, NEW f \in {Frame, Nothing},
         pipes[Pipe].reader = "open", pipes' = [pipes EXCEPT ![Pipe].written = Append(@, f)],
         UNCHANGED <<queue, pushes, logged, refused, server, window, logger>>,
         \/ /\ worker.at = "reporting" /\ f = Frame /\ worker'.at = "writing"
            /\ worker'.message = worker.message /\ worker'.drops = worker.drops
         \/ /\ worker.at = "writing" /\ worker'.at = "popping"
            /\ worker'.message = Nothing /\ worker'.drops = 0
         \/ /\ worker'.at = "closing" /\ worker'.message = Nothing /\ worker'.drops = 0
  PROVE  WInv'
<1>1. /\ f \in Message
      /\ f.thread = "none" \/ (f = worker.message /\ worker.at = "writing")
      /\ IsReport(f) <=> f.thread = "none"
      /\ worker.at = "writing" => ~IsReport(f) \/ f = Nothing
      /\ worker.at = "reporting" => IsReport(f) /\ (f.number = worker.drops \/ f = Nothing)
  BY FrameIs
<1>2. Attached BY DEF Attached
<1>3. PICK c \in 1..Pipe : c = Pipe /\ c \in DOMAIN Ways /\ c \in Link
  BY <1>2, OwesIs, FlowTyped, ConnectionsAssumption DEF WInv, Link
<1>4. /\ pipes' \in Seq(PipeEnds) /\ Len(pipes') = Pipe
      /\ pipes'[c].reader = "open" /\ pipes'[c].written = Append(pipes[c].written, f)
      /\ \A d \in 1..Pipe : d # c => pipes'[d] = pipes[d]
  BY <1>3, <1>1, WrittenIs DEF WInv
<1>5. PICK T \in Seq(Line), P \in Seq(Line) : T = Text /\ P = window.posted BY FlowTyped DEF WInv
<1>6. PICK W \in Seq(Seq(Line)) : W = Ways /\ Len(W) = Pipe BY FlowTyped DEF WInv
<1>7. PICK V \in Seq(Seq(Line)) : /\ V = Ways' /\ Len(V) = Len(W)
                                  /\ \A d \in DOMAIN W : d # c => V[d] = W[d]
  BY <1>4, <1>6, OtherWays DEF WInv
<1>8. PICK x \in Line : x = LineOf(c, f) /\ x.frame = f /\ x.via = c BY <1>1, <1>3, LineIs
<1>9. V[c] = Append(W[c], x)
  <2>1. pipes \in Seq(PipeEnds) /\ Len(pipes) = Pipe /\ Len(pipes) <= MaxConnections
    BY DEF WInv, Shapes, Pipe
  <2>2. Len(pipes') = Len(pipes) /\ c \in 1..Len(pipes) BY <1>4, <2>1
  <2>3. LinesIn(pipes')[c] = Append(LinesIn(pipes)[c], LineOf(c, f)) /\ LineOf(c, f) \in Line
    <3>1. PICK ps \in Seq(PipeEnds) : ps = pipes /\ Len(ps) <= MaxConnections /\ c \in 1..Len(ps)
      BY <2>1, <2>2
    <3>2. PICK qs \in Seq(PipeEnds) : qs = pipes' /\ Len(qs) = Len(ps) BY <1>4, <2>2, <3>1
    <3>3. qs[c].written = Append(ps[c].written, f) BY <1>4, <3>1, <3>2
    <3>4. LinesIn(qs)[c] = Append(LinesIn(ps)[c], LineOf(c, f)) /\ LineOf(c, f) \in Line
      BY ZenonT(30), <1>1, <3>1, <3>2, <3>3, LinesAppend
    <3> QED BY <3>1, <3>2, <3>4
  <2> QED BY <1>6, <1>7, <1>8, <2>3 DEF Ways
<1>10. T = Text' /\ P = window'.posted /\ Pipe' = Pipe BY <1>4, <1>5 DEF Text, Pipe
<1>11. PastKept /\ BeforeKept BY AsideKept
<1>12. Sent(Frames(T, P, W)) /\ Frames(T, P, W) \subseteq Message BY <1>5, <1>6, FramesTyped DEF WInv
<1>13. PICK a \in Nat : a = Total(T) + Total(P) + Total(W[c]) BY <1>3, <1>6, SumsNatural
<1>14. PICK w \in Nat : w = Weight(x) BY DEF Weight, Line, Message
<1>15. PICK e \in Nat, d \in Nat : e = worker.drops /\ d = logger.dropped
  BY WorkerTyped, UntoldNat DEF WInv
<1>16. w = 0 \/ (worker.at = "reporting" /\ w = e)
  <2>1. Nothing.number = 0 BY DEF Nothing
  <2>2. CASE IsReport(f)
    <3>1. w = f.number BY <1>8, <1>14, <2>2 DEF Weight
    <3> QED BY <1>1, <1>15, <2>1, <2>2, <3>1
  <2>3. CASE ~IsReport(f) BY <1>8, <1>14, <2>3 DEF Weight
  <2> QED BY <2>2, <2>3
<1>17. SentOn(T, P, W, c, x, V)
  <2>1. \A g \in Frames(T, P, W) : Earlier(g, x.frame)
    BY <1>8, ThreadsAssumption, <1>12, <1>1 DEF Earlier, Sent
  <2>2. ~IsReport(x.frame) => Total(T) + Total(P) + Total(W[c]) >= Need(c, x.frame)
    <3>1. SUFFICES ASSUME ~IsReport(f) PROVE Total(T) + Total(P) + Total(W[c]) >= Need(c, f)
      BY <1>8
    <3>2. f = worker.message /\ worker.at = "writing" BY <1>1, <3>1
    <3> QED BY <1>2, <1>3, <1>5, <1>6, <3>2, OwesIs DEF WInv
  <2>3. c \in DOMAIN W BY <1>3, <1>6
  <2> QED BY <1>7, <1>8, <1>9, <2>1, <2>2, <2>3, SendFlow
<1>18. Shapes'
  <2>1. worker'.message \in Message /\ worker'.drops \in Nat
    BY WorkerTyped, <1>15 DEF Nothing, Message
  <2>2. Pipe' <= MaxConnections BY <1>10, FlowTyped DEF WInv
  <2> QED BY <1>4, <2>1, <2>2 DEF WInv, Shapes
<1>19. ServerOK'
  BY <1>4, FlowTyped, <1>3, <1>10 DEF WInv, ServerOK
<1>20. RefusedOK'
  BY <1>4, FlowTyped, <1>11, RefusedKept DEF WInv, Pipe
<1>21. Before(Nothing)' BY ThreadsAssumption DEF Before, Nothing
<1>22. \A g \in Message : Before(g) => Before(g)' BY <1>11 DEF BeforeKept
<1>23. Before(worker.message)' BY <1>21, <1>22, WorkerTyped DEF WInv, Before
<1>24. Sent(Frames(T, P, V))'
  <2>1. Frames(T, P, V) \subseteq Frames(T, P, W) \union {f} BY <1>8, <1>17 DEF SentOn
  <2>2. Before(f)'
    BY ThreadsAssumption, <1>1, <1>22 DEF Before, WInv
  <2>3. Earlier(f, worker'.message)
    BY ThreadsAssumption, <1>1 DEF Earlier, Nothing
  <2>4. \A g \in Frames(T, P, W) : Earlier(g, worker'.message)
    <3>1. worker'.message = worker.message \/ worker'.message = Nothing OBVIOUS
    <3>2. \A g : Earlier(g, Nothing) BY ThreadsAssumption DEF Earlier, Nothing
    <3>3. \A g \in Frames(T, P, W) : Earlier(g, worker.message) BY <1>12 DEF Sent
    <3> QED BY <3>1, <3>2, <3>3
  <2>5. \A g \in Frames(T, P, W) : Before(g)' BY <1>12, <1>22 DEF Sent
  <2>6. \A g \in Frames(T, P, V) : Before(g)' /\ Earlier(g, worker'.message)
    BY <2>1, <2>2, <2>3, <2>4, <2>5
  <2> QED BY <2>6 DEF Sent
<1>25. Ordered(T, P, V) BY <1>5, <1>6, <1>17 DEF SentOn, WInv
<1>26. ToldOK(T, P, V)'
  BY <1>5, <1>6, <1>17, ToldKept DEF SentOn, WInv
<1>27. Untold = (IF worker.at = "reporting" THEN e ELSE 0) + d /\ Untold' = 0 + d
  BY <1>15 DEF Untold, Owed
<1>28. NoMore(T, P, V)'
  <2>1. PICK t \in Nat, p \in Nat : t = Total(T) /\ p = Total(P) BY ReportedNat
  <2>2. PICK i \in Nat : i = InPipes(W) BY PipesAre
  <2>3. PICK n \in Nat : n = Cardinality(refused) BY NeedIs DEF WInv
  <2>4. InPipes(V) = i + w BY <1>14, <1>17, <2>2 DEF SentOn
  <2>5. PICK u \in Nat : u = Untold BY UntoldNat DEF WInv
  <2>6. t + p + i + u <= n BY <1>5, <1>6, <2>1, <2>2, <2>3, <2>5 DEF WInv, NoMore
  <2>7. w + d <= u BY <1>16, <1>27, <2>5
  <2>8. t + p + (i + w) + (0 + d) <= n
    <3>1. t + p + (i + w) + (0 + d) = t + p + i + (w + d) OBVIOUS
    <3>2. t + p + i + (w + d) <= t + p + i + u BY <2>7
    <3> QED BY SMTT(20), <2>6, <3>1, <3>2
  <2> QED BY <1>27, <2>1, <2>3, <2>4, <2>8 DEF NoMore
<1>29. OwesWhat(T, P, V)'
  <2>1. SUFFICES ASSUME Attached' PROVE OwesWhat(T, P, V)'
    BY DEF OwesWhat
  <2>2. PICK n \in Nat : n = Cardinality(RefusedVia(c)) BY NeedIs DEF WInv
  <2>3. worker'.message \in Message BY <1>18 DEF Shapes
  <2>4. PICK m \in Nat : m = Need(c, worker'.message) BY <2>3, NeedIs DEF WInv
  <2>5. PICK b : b = Total(T) + Total(P) + Total(V[c]) OBVIOUS
  <2>6. b = a + w
    <3>1. PICK t \in Nat, p \in Nat : t = Total(T) /\ p = Total(P) BY ReportedNat
    <3>2. PICK i \in Nat : i = Total(W[c]) BY <1>3, <1>6, WayIn
    <3>3. Total(V[c]) = i + w BY <1>14, <1>17, <3>2 DEF SentOn
    <3>4. t + p + (i + w) = (t + p + i) + w OBVIOUS
    <3> QED BY <1>13, <2>5, <3>1, <3>2, <3>3, <3>4
  <2>7. a + Untold >= n BY <1>2, <1>3, <1>5, <1>6, <1>13, <2>2, OwesIs DEF WInv
  <2>8. PICK u \in Nat : u = Untold BY UntoldNat DEF WInv
  <2>9. CASE worker'.at = "writing"
    <3>1. worker.at = "reporting" /\ f = Frame /\ worker'.message = worker.message BY <2>9
    <3>2. w = e
      BY <3>1, <1>8, <1>14, <1>15 DEF Frame, Weight, IsReport
    <3>3. a + e >= m
      BY <1>2, <1>3, <1>5, <1>6, <1>13, <1>15, <2>4, <3>1, OwesIs DEF WInv
    <3>4. u = e + d BY <1>27, <2>8, <3>1
    <3>5. b + (0 + d) >= n /\ b >= m BY <2>6, <2>7, <2>8, <3>2, <3>3, <3>4
    <3> QED BY <1>3, <1>6, <1>7, <1>27, <2>2, <2>4, <2>5, <2>9, <3>5, ToldKept DEF OwesWhat
  <2>10. CASE worker'.at = "popping"
    <3>1. worker.at = "writing" BY <2>10
    <3>2. u = 0 + d BY <1>27, <2>8, <3>1
    <3>3. b + (0 + d) >= n BY <2>6, <2>7, <2>8, <3>2
    <3> QED BY <1>3, <1>6, <1>7, <1>27, <2>2, <2>5, <2>10, <3>3, ToldKept DEF OwesWhat
  <2>11. worker'.at # "closing" BY <2>1 DEF Attached
  <2> QED BY <2>9, <2>10, <2>11
<1>30. CountOK' BY DEF WInv, CountOK, Serving
<1> QED BY <1>7, <1>10, <1>18, <1>19, <1>20, <1>23, <1>24, <1>25, <1>26, <1>28, <1>29, <1>30 DEF WInv

LEMMA WriteInv == ASSUME IInv, WInv, Write, UNCHANGED <<server, window>> PROVE WInv'
<1>1. UNCHANGED <<queue, pushes, logged, refused, server, window, logger>> BY DEF Write, threads
<1>2. PICK f \in {Frame, Nothing} : f = Frame OBVIOUS
<1>3. /\ worker.at \in {"reporting", "writing"} /\ pipes[Pipe].reader = "open"
      /\ pipes' = [pipes EXCEPT ![Pipe].written = Append(@, f)]
  BY <1>2 DEF Write
<1>4. CASE worker.at = "reporting"
  BY <1>4, WorkerTyped, <1>1, <1>2, <1>3, SendStep DEF Write, Written, WorkerAt
<1>5. CASE worker.at = "writing"
  BY <1>5, <1>1, <1>3, SendStep DEF Write, Written, Worker, AfterWrite
<1> QED BY <1>3, <1>4, <1>5

LEMMA WriteFailsInv == ASSUME IInv, WInv, WriteFails, UNCHANGED <<server, window>> PROVE WInv'
<1>1. UNCHANGED <<queue, pushes, logged, refused, server, window, logger>> BY DEF WriteFails, threads
<1>2. worker' = [at |-> "closing", message |-> Nothing, drops |-> 0]
      /\ worker.at \in {"reporting", "writing"}
  BY DEF WriteFails, Worker
<1>3. CASE UNCHANGED pipes
  <2>1. PastKept /\ BeforeKept BY <1>1, AsideKept
  <2>2. Nothing \in Message BY DEF Message, Nothing
  <2>3. Shapes' BY <1>1, <1>2, <1>3, <2>2 DEF WInv, Shapes, Pipe
  <2>4. Untold' \in Nat /\ Untold' <= Untold
    <3>1. PICK d \in Nat, o \in Nat : d = logger.dropped /\ o = Owed BY UntoldNat DEF WInv
    <3>2. Untold' = 0 + d /\ Untold = o + d BY <1>1, <1>2, <3>1 DEF Untold, Owed
    <3> QED BY <3>1, <3>2
  <2>5. Before(worker.message)' BY <1>2, ThreadsAssumption DEF Before, Nothing
  <2>6. \A f \in Message : Before(f) /\ Earlier(f, worker.message) => Earlier(f, worker'.message)
    BY <1>2, ThreadsAssumption DEF Earlier, Nothing
  <2>7. OwesWhat(Text, window.posted, Ways)' BY <1>2 DEF OwesWhat, Attached
  <2>8. Ways' = Ways /\ Len(pipes') = Len(pipes) BY <1>3 DEF Ways
  <2>9. \A c \in DOMAIN pipes : pipes'[c].reader = pipes[c].reader /\ pipes'[c].written = pipes[c].written
    BY <1>3
  <2> QED BY <1>1, <2>1, <2>3, <2>4, <2>5, <2>6, <2>7, <2>8, <2>9, SideStep
<1>4. CASE ~UNCHANGED pipes
  <2>1. PICK f \in {Frame, Nothing} :
          pipes[Pipe].reader = "open" /\ pipes' = [pipes EXCEPT ![Pipe].written = Append(@, f)]
    BY <1>4 DEF WriteFails
  <2>2. worker'.at = "closing" /\ worker'.message = Nothing /\ worker'.drops = 0 BY <1>2
  <2> QED BY <1>1, <1>2, <2>1, <2>2, SendStep
<1> QED BY <1>3, <1>4

LEMMA ConnectClientInv == ASSUME IInv, WInv, ConnectClient PROVE WInv'
<1>1. /\ UNCHANGED <<queue, pushes, logged, refused, logger, window>>
      /\ server.accept = "listening" /\ worker.at = "connecting" /\ Pipe < MaxConnections
  BY DEF ConnectClient, Connect, threads
<1>2. server' = [process |-> server.process, starts |-> server.starts,
                 accept |-> "connected", clients |-> server.clients]
  BY ServerTyped DEF ConnectClient, WInv
<1>3. worker' = [at |-> "pumping", message |-> worker.message, drops |-> worker.drops]
  BY WorkerTyped DEF ConnectClient, Connect, WorkerAt
<1>4. PICK r \in PipeEnds : r = [written |-> <<>>, writer |-> "open", reader |-> "open"]
  <2>1. <<>> \in Seq(Message) OBVIOUS
  <2> QED BY <2>1 DEF PipeEnds
<1>5. pipes' = Append(pipes, r) BY <1>4 DEF ConnectClient, Connect
<1>6. PICK old \in Seq(PipeEnds) : old = pipes /\ Len(old) = Pipe BY DEF WInv, Shapes, Pipe
<1>7. PICK ps : ps = pipes' OBVIOUS
<1>8. PICK n \in Nat : n = Pipe /\ n < MaxConnections BY <1>1, FlowTyped DEF WInv
<1>9. /\ ps \in Seq(PipeEnds) /\ Len(ps) = n + 1 /\ DOMAIN ps = 1..n + 1
      /\ (\A c \in 1..n : ps[c] = old[c]) /\ ps[n + 1] = r
  BY <1>5, <1>6, <1>7, <1>8, AppendOf
<1>10. Pipe' = n + 1 BY <1>7, <1>9 DEF Pipe
<1>11. PICK T \in Seq(Line), P \in Seq(Line) : T = Text /\ P = window.posted BY FlowTyped DEF WInv
<1>12. PICK W \in Seq(Seq(Line)) : W = Ways /\ Len(W) = n BY <1>8, FlowTyped DEF WInv
<1>13. Ways' = Append(W, <<>>)
  BY <1>4, <1>5, <1>6, <1>7, <1>8, LinesOpen, <1>12 DEF Ways
<1>14. PICK V : V = Ways' OBVIOUS
<1>15. /\ Frames(T, P, V) = Frames(T, P, W)
       /\ Ordered(T, P, W) => Ordered(T, P, V)
       /\ ToldOK(T, P, W) => ToldOK(T, P, V)
       /\ InPipes(V) = InPipes(W)
       /\ Len(V) = Len(W) + 1 /\ V[Len(V)] = <<>>
  BY <1>13, <1>14, OpenFlow
<1>16. T = Text' /\ P = window'.posted BY <1>1, <1>11 DEF Text
<1>17. PastKept /\ BeforeKept BY <1>1, AsideKept
<1>18. Shapes'
  <2>1. n + 1 <= MaxConnections BY <1>8, ConnectionsAssumption
  <2>2. server' \in [process : {"off", "up", "closing", "hung"}, starts : Nat,
                     accept : {"none", "listening", "connected"},
                     clients : [Link -> {"none", "starting", "reading", "leaving", "closing"}]]
    BY <1>2, ServerTyped DEF WInv, Process, Accepting, Clienting
  <2> QED BY <1>1, <1>3, <1>7, <1>9, <1>10, <2>1, <2>2, WorkerTyped DEF WInv, Shapes
<1>19. ServerOK'
  <2>1. DOMAIN pipes = 1..n BY <1>8, FlowTyped DEF WInv
  <2>2. server.process # "off" BY <1>1 DEF WInv, ServerOK
  <2>3. n + 1 \in Link BY <1>8, ConnectionsAssumption DEF Link
  <2>4. server.clients[n + 1] = "none" BY <1>8, <2>3 DEF WInv, ServerOK
  <2>5. \A c \in Link : c > n + 1 => server.clients[c] = "none"
    BY <1>8 DEF Link, WInv, ServerOK
  <2>6. ASSUME NEW c \in 1..n + 1
        PROVE  IF ps[c].reader = "open"
               THEN server.clients[c] # "none" \/ c = n + 1
               ELSE ps[c].written = <<>>
    <3>1. CASE c = n + 1 BY <1>4, <1>9, <3>1
    <3>2. CASE c # n + 1
      BY <3>2, <1>6, <1>9, <1>1, <2>1 DEF WInv, ServerOK
    <3> QED BY <3>1, <3>2
  <2> QED BY <1>2, <1>7, <1>8, <1>9, <1>10, <2>2, <2>4, <2>5, <2>6 DEF ServerOK
<1>20. RefusedOK'
  BY <1>6, <1>7, <1>8, <1>9, <1>1, <1>17, RefusedKept DEF WInv
<1>21. Before(worker.message)'
  <2>1. PICK m \in Message : m = worker.message /\ Before(m) BY WorkerTyped DEF WInv
  <2>2. Before(m)' BY <1>17, <2>1 DEF BeforeKept
  <2>3. m = worker'.message BY <1>3, <2>1
  <2> QED BY <2>2, <2>3 DEF Before
<1>22. Sent(Frames(T, P, V))'
  <2>1. Sent(Frames(T, P, W)) BY <1>11, <1>12 DEF WInv
  <2>2. PICK F : F = Frames(T, P, W) OBVIOUS
  <2>3. F \subseteq Message /\ Sent(F) /\ Frames(T, P, V) = F BY <1>15, <2>1, <2>2, FramesTyped
  <2>4. \A f \in Message : Before(f) /\ Earlier(f, worker.message) => Earlier(f, worker'.message)
    BY <1>3
  <2>5. Sent(F)' BY <1>17, <2>3, <2>4, SentKept
  <2> QED BY <2>3, <2>5
<1>23. Ordered(T, P, V) BY <1>11, <1>12, <1>15 DEF WInv
<1>24. ToldOK(T, P, V)'
  BY <1>11, <1>12, <1>15, <1>1, ToldKept DEF WInv
<1>25. Untold' = Untold BY <1>1, <1>3 DEF Untold, Owed
<1>26. NoMore(T, P, V)' BY <1>1, <1>11, <1>12, <1>15, <1>25 DEF WInv, NoMore
<1>27. OwesWhat(T, P, V)'
  <2>1. PICK k : k = n + 1 /\ k > 0 BY <1>8
  <2>2. Len(V) = k BY <1>12, <1>15, <2>1
  <2>3. RefusedVia(k) = {}
    BY <1>8, ConnectionsAssumption, <2>1 DEF WInv, RefusedOK, Shapes, RefusedVia
  <2>4. Cardinality(RefusedVia(k)') = 0 BY <1>1, <2>3, ToldKept, FS_EmptySet
  <2>5. Total(T) + Total(P) + Total(V[k]) + Untold >= 0
    <3>1. PICK t \in Nat, p \in Nat : t = Total(T) /\ p = Total(P) BY ReportedNat
    <3>2. Total(V[k]) = 0 BY <1>15, <2>2, SumsEmpty
    <3>3. PICK u \in Nat : u = Untold BY UntoldNat DEF WInv
    <3>4. t + p + 0 + u >= 0 OBVIOUS
    <3> QED BY <3>1, <3>2, <3>3, <3>4
  <2>6. worker'.at # "reporting" /\ worker'.at # "writing" BY <1>3
  <2> QED BY <1>25, <2>1, <2>2, <2>4, <2>5, <2>6 DEF OwesWhat
<1>28. CountOK' BY <1>1, <1>2 DEF WInv, CountOK, Serving
<1>29. V = Ways' BY <1>14
<1> QED BY <1>16, <1>18, <1>19, <1>20, <1>21, <1>22, <1>23, <1>24, <1>26, <1>27, <1>28, <1>29 DEF WInv

-----------------------------------------------------------------------------
(***************************************************************************)
(* What the window shows                                                   *)
(***************************************************************************)
LEMMA WInit == Init => WInv
<1> SUFFICES ASSUME Init PROVE WInv
  OBVIOUS
<1>1. /\ worker = [at |-> "connecting", message |-> Nothing, drops |-> 0]
      /\ logger = [connected |-> FALSE, dropped |-> 0, event |-> FALSE, stop |-> FALSE]
      /\ pipes = <<>> /\ refused = {} /\ window = NoWindow
      /\ server = [process |-> "off", starts |-> 0, accept |-> "none", clients |-> [c \in Link |-> "none"]]
  BY DEF Init, LoggerInit, Worker, Link
<1>2. PICK e \in Seq(Line) : e = <<>>
  <2>1. <<>> \in Seq(Line) OBVIOUS
  <2> QED BY <2>1
<1>3. Text = e /\ window.posted = e /\ window.count = 0 BY <1>1, <1>2 DEF NoWindow, Text
<1>4. pipes \in Seq(PipeEnds) /\ Len(pipes) = 0 /\ DOMAIN pipes = {} BY <1>1
<1>5. Pipe = 0 BY <1>4 DEF Pipe
<1>6. Shapes
  BY <1>1, <1>2, FS_EmptySet, <1>4, <1>5, ConnectionsAssumption DEF NoWindow, Nothing,
     Message, Shapes
<1>7. PICK V \in Seq(Seq(Line)) : V = Ways /\ Len(V) = 0
  BY <1>5, <1>6, FlowTyped
<1>8. DOMAIN V = {} /\ \A d \in DOMAIN V : V[d] = <<>>
  BY <1>7
<1>9. /\ Frames(e, e, V) = {} /\ Ordered(e, e, V) /\ ToldOK(e, e, V) /\ InPipes(V) = 0
  BY <1>2, <1>8, EndFlow
<1>10. Sent(Frames(e, e, V)) BY <1>9 DEF Sent
<1>11. ~Attached BY <1>1 DEF Attached
<1>12. Untold = 0 BY <1>1 DEF Untold, Owed
<1>13. NoMore(e, e, V)
  BY <1>2, SumsEmpty, <1>1, FS_EmptySet, <1>9, <1>12 DEF NoMore
<1>14. CountOK
  <2>1. Serving = {} BY <1>1 DEF Serving
  <2>2. Cardinality(Serving) = 0 BY <2>1, FS_EmptySet
  <2>3. Len(e) = 0 /\ Deltas(e)[0] = 0
    BY <1>2, DeltasAre
  <2>4. \A k \in 0..0 : k = 0 OBVIOUS
  <2> QED BY <1>3, <2>2, <2>3, <2>4 DEF CountOK
<1>15. ServerOK BY <1>1, <1>4 DEF ServerOK
<1>16. RefusedOK BY <1>1 DEF RefusedOK
<1>17. Before(worker.message) BY <1>1, ThreadsAssumption DEF Before, Nothing
<1>18. OwesWhat(e, e, V) BY <1>11 DEF OwesWhat
<1> QED BY <1>3, <1>6, <1>7, <1>9, <1>10, <1>13, <1>14, <1>15, <1>16, <1>17, <1>18 DEF WInv

LEMMA WNext == IInv /\ WInv /\ [Next]_vars => WInv'
<1> SUFFICES ASSUME IInv, WInv, [Next]_vars PROVE WInv'
  OBVIOUS
<1>1. ASSUME NEW t \in Threads, Log(t), UNCHANGED <<server, window>> PROVE WInv'
  BY <1>1, CallInvs
<1>2. ASSUME NEW t \in Threads, Pushing(t) PROVE WInv'
  BY <1>2, CallInvs, RefuseInv DEF Pushing
<1>3. ASSUME WorkerStep PROVE WInv'
  BY <1>3, ConnectClientInv, PumpInv, WakeInv, TakeInv, FreeCellInv, PopNothingInv, CountInv,
     WriteInv, LeaveOutInv, WriteFailsInv, ClosePipeInv, EndWorkerInv DEF WorkerStep
<1>4. ASSUME NEW c \in Link, Client(c) \/ Throw(c) PROVE WInv'
  BY <1>4, CountInInv, ReadInv, CountOutInv, CloseClientInv, LeaveClientInv DEF Client, Throw
<1>5. ASSUME Start \/ HandOver \/ EndAccept \/ Show \/ Close \/ EndDebugger \/ Hang \/ Kill
      PROVE  WInv'
  BY <1>5, StartInv, HandOverInv, EndAcceptInv, ShowInv, EndsInv, EndDebuggerInv, KillInv
<1>6. ASSUME UNCHANGED vars PROVE WInv'
  BY <1>6, AsideKept, QuietStep DEF vars, queue, threads, WInv, Shapes
<1>7. ASSUME Destroy, UNCHANGED <<server, window>> PROVE WInv' BY <1>7, DestroyInv
<1> QED BY <1>1, <1>2, <1>3, <1>4, <1>5, <1>6, <1>7 DEF Next, Link

\* What the invariant says of the text.
LEMMA WindowFollows == IInv /\ WInv => WindowIsTrue
<1> SUFFICES ASSUME IInv, WInv PROVE WindowIsTrue
  OBVIOUS
<1>1. PICK T \in Seq(Line), P \in Seq(Line) : T = Text /\ P = window.posted BY FlowTyped DEF WInv
<1>2. PICK W \in Seq(Seq(Line)) : W = Ways BY FlowTyped DEF WInv
<1>3. ASSUME NEW i \in DOMAIN T, NEW j \in DOMAIN T, i < j, T[i].via = T[j].via,
             T[i].frame.thread = T[j].frame.thread, ~IsReport(T[i].frame)
      PROVE  T[i].frame.number < T[j].frame.number
  <2>1. Rising(T) BY <1>1, <1>2 DEF WInv, Ordered
  <2>2. Earlier(T[i].frame, T[j].frame) BY <1>3, <2>1 DEF Rising, LinesApart
  <2>3. T[i].frame.thread \in Threads
    <3>1. PICK x \in Line : x = T[i] BY <1>3
    <3> QED BY <1>3, <3>1 DEF Line, Message, Nothing, IsReport
  <2> QED BY <1>3, <2>2, <2>3 DEF Earlier
<1>4. ASSUME NEW i \in DOMAIN T, ~IsReport(T[i].frame)
      PROVE  Reported(T)[i] >= Cardinality({r \in RefusedVia(T[i].via) :
                                 r.thread = T[i].frame.thread /\ r.number < T[i].frame.number})
  <2>1. Enough(T, 0) BY <1>1, <1>2 DEF WInv, ToldOK
  <2>2. 0 + Reported(T)[i] >= Need(T[i].via, T[i].frame) BY <1>4, <2>1 DEF Enough
  <2>3. Reported(T)[i] \in Nat
    BY <1>4, ReportedNat
  <2>4. Reported(T)[i] >= Need(T[i].via, T[i].frame) BY <2>2, <2>3
  <2> QED BY <2>4 DEF Need
<1>5. Total(T) <= Cardinality(refused)
  <2>1. PICK t \in Nat, p \in Nat : t = Total(T) /\ p = Total(P) BY ReportedNat
  <2>2. PICK i \in Nat : i = InPipes(W) BY PipesAre
  <2>3. PICK u \in Nat : u = Untold BY UntoldNat DEF WInv
  <2>4. PICK n \in Nat : n = Cardinality(refused) BY NeedIs DEF WInv
  <2>5. t + p + i + u <= n BY <1>1, <1>2, <2>1, <2>2, <2>3, <2>4 DEF WInv, NoMore
  <2>6. t <= n BY <2>5
  <2> QED BY <2>1, <2>4, <2>6
<1>6. ASSUME window.posted = <<>>
      PROVE  window.count = Cardinality({c \in DOMAIN server.clients :
                                     server.clients[c] \in {"reading", "leaving"}})
  <2>1. DOMAIN server.clients = Link BY DEF WInv, Shapes
  <2>2. Len(P) = 0 BY <1>1, <1>6
  <2>3. Deltas(P)[0] = 0 BY DeltasAre
  <2>4. window.count + 0 = Cardinality(Serving) BY <1>1, <2>2, <2>3 DEF WInv, CountOK
  <2>5. window.count \in Nat BY FlowTyped DEF WInv
  <2>6. window.count = Cardinality(Serving) BY <2>4, <2>5
  <2> QED BY <2>1, <2>6 DEF Serving
<1> QED BY <1>1, <1>3, <1>4, <1>5, <1>6 DEF WindowIsTrue, Told, Total

\* What the window shows is true: over one connection a thread's messages appear
\* once and in the order they were logged, below reports of all its messages that
\* the full queue refused before, no more drops are reported than there were, and
\* the producers counted are the clients that are served (Logger's pump and log,
\* PipeServer's handle_client, DebuggerWindow's handle_message).
THEOREM WindowIsAlwaysTrue == Spec => []WindowIsTrue
<1>1. Init => IInv /\ WInv
  BY InitInv, WInit
<1>2. IInv /\ WInv /\ [Next]_vars => (IInv /\ WInv)'
  BY NextInv, WNext
<1>3. IInv /\ WInv => WindowIsTrue
  BY WindowFollows
<1> QED BY <1>1, <1>2, <1>3, PTL DEF Spec
=============================================================================
