------------------------------ MODULE LogQueue ------------------------------
(***************************************************************************)
(* The bounded queue between the threads that log and the logger's worker  *)
(* (internal::BoundedMpmcQueue).  A cell's sequence number says whose turn *)
(* it is: a pusher of the same position, a popper of the one before.  Each *)
(* action is one access to shared memory.                                  *)
(***************************************************************************)
EXTENDS Integers

CONSTANTS
  Threads,    \* the threads that log
  Capacity    \* the cells

\* "none" is the thread of the worker's own reports.
ASSUME ThreadsAssumption == "none" \notin Threads
ASSUME CapacityAssumption == Capacity \in Nat /\ Capacity >= 2

VARIABLES
  cells,      \* cells_
  enqueued,   \* enqueue_position_
  dequeued,   \* dequeue_position_
  pushes      \* each thread's call: where it is, its position and its message

queue == <<cells, enqueued, dequeued>>

Nothing == [thread |-> "none", number |-> 0]

\* at "idle": the thread is outside the logger.
NoPush == [at |-> "idle", position |-> 0, message |-> Nothing]

QueueInit ==
  /\ cells = [i \in 0..Capacity - 1 |-> [sequence |-> i, value |-> Nothing]]
  /\ enqueued = 0
  /\ dequeued = 0
  /\ pushes = [t \in Threads |-> NoPush]

Turn(position) == cells[position % Capacity].sequence

Store(position, sequence, value) ==
  cells' = [cells EXCEPT ![position % Capacity] = [sequence |-> sequence, value |-> value]]

Calls(t, p) == pushes' = [pushes EXCEPT ![t] = p]

-----------------------------------------------------------------------------
(***************************************************************************)
(* try_push                                                                *)
(***************************************************************************)
StartPush(t, message) ==
  Calls(t, [at |-> "read", position |-> enqueued, message |-> message])

\* The cell is free, still holds the value of the lap before, or has gone to
\* another pusher.
Look(t) == LET p == pushes[t] IN
  /\ p.at = "read"
  /\ Calls(t, CASE Turn(p.position) = p.position -> [p EXCEPT !.at = "claim"]
                [] Turn(p.position) < p.position -> [p EXCEPT !.at = "refused"]
                [] OTHER                         -> [p EXCEPT !.position = enqueued])
  /\ UNCHANGED queue

\* Mutant: the position is written without the comparison.
StillMineUnseen(position) == TRUE
\* compare_exchange_weak, which on the supported processors does not fail
\* without a cause.
StillMine(position)       == enqueued = position

Claim(t) ==
  /\ pushes[t].at = "claim"
  /\ IF StillMine(pushes[t].position)
     THEN enqueued' = pushes[t].position + 1 /\ Calls(t, [pushes[t] EXCEPT !.at = "publish"])
     ELSE UNCHANGED enqueued
          /\ Calls(t, [pushes[t] EXCEPT !.at = "read", !.position = enqueued])
  /\ UNCHANGED <<cells, dequeued>>

Publish(t) == LET p == pushes[t] IN
  /\ p.at = "publish"
  /\ Store(p.position, p.position + 1, p.message)
  /\ Calls(t, [p EXCEPT !.at = "signal"])
  /\ UNCHANGED <<enqueued, dequeued>>

-----------------------------------------------------------------------------
(***************************************************************************)
(* try_pop, which only the worker calls                                    *)
(***************************************************************************)
Filled == Turn(dequeued) = dequeued + 1

First == cells[dequeued % Capacity].value

\* The popper owns the cell at the position before dequeued until it frees it.
Take == dequeued' = dequeued + 1 /\ UNCHANGED <<cells, enqueued>>

Free ==
  Store(dequeued - 1, dequeued - 1 + Capacity, Nothing) /\ UNCHANGED <<enqueued, dequeued>>
=============================================================================
