-------------------------- MODULE LoggingProperties --------------------------
(***************************************************************************)
(* What the log promises.                                                  *)
(***************************************************************************)
EXTENDS Debugger, FiniteSets

-----------------------------------------------------------------------------
(***************************************************************************)
(* The queue                                                               *)
(***************************************************************************)
Positions == dequeued..enqueued - 1

Claimed(p) == {t \in Threads : pushes[t].at = "publish" /\ pushes[t].position = p}

\* The lock-free queue hands every cell to one thread at a time: each position
\* between the two ends is being filled by one thread or holds one message,
\* the queue is never more than full, the messages of a thread stand in the
\* order it logged them, and the worker never takes an empty cell.
QueueHolds ==
  /\ enqueued - dequeued \in 0..Capacity
  /\ \A t \in Threads : pushes[t].at = "publish" => pushes[t].position \in Positions
  /\ \A p \in Positions :
       IF Turn(p) = p + 1 THEN Claimed(p) = {} ELSE Cardinality(Claimed(p)) = 1
  /\ \A p, q \in Positions : p < q /\ Turn(p) = p + 1 /\ Turn(q) = q + 1 =>
       LET a == cells[p % Capacity].value  b == cells[q % Capacity].value IN
       a.thread = b.thread => a.number < b.number
  /\ worker.at \in {"freeing", "counting", "reporting", "writing"} =>
       worker.message.thread \in Threads

-----------------------------------------------------------------------------
(***************************************************************************)
(* The window                                                              *)
(***************************************************************************)
Text == window.text

IsReport(frame) == frame.thread = "none"

\* The sums of the first numbers of a sequence.
Sums(s) ==
  LET sum[n \in 0..Len(s)] == IF n = 0 THEN 0 ELSE sum[n - 1] + s[n]
  IN sum

\* The drops that the first of the window's messages tell of.
Reported(messages) ==
  Sums([j \in DOMAIN messages |->
          IF IsReport(messages[j].frame) THEN messages[j].frame.number ELSE 0])

\* The drops the window has been told of up to its line i.
Told(i) == Reported(Text)[i]

\* The messages a full queue refused while the connection c was the last.
RefusedVia(c) == {r \in refused : r.via = c}

\* What the window shows is true: over one connection a thread's messages
\* appear once and in the order they were logged, every message of the thread
\* that the queue refused before is in a report above it, and no more drops
\* are reported than there were.  The producers counted are the clients that
\* are being served.
WindowIsTrue ==
  /\ \A i, j \in DOMAIN Text :
       i < j /\ Text[i].via = Text[j].via /\ Text[i].frame.thread = Text[j].frame.thread
         /\ ~IsReport(Text[i].frame) =>
       Text[i].frame.number < Text[j].frame.number
  /\ \A i \in DOMAIN Text : ~IsReport(Text[i].frame) =>
       Told(i) >= Cardinality({r \in RefusedVia(Text[i].via) :
                                 r.thread = Text[i].frame.thread /\ r.number < Text[i].frame.number})
  /\ Told(Len(Text)) <= Cardinality(refused)
  /\ server.process = "up" /\ window.posted = <<>> =>
       window.count = Cardinality({c \in DOMAIN server.clients :
                                     server.clients[c] \in {"reading", "leaving"}})

-----------------------------------------------------------------------------
(***************************************************************************)
(* What happens in time                                                    *)
(***************************************************************************)
\* The connection ends: by the debugger, or by the logger's owner.
Interrupted ==
  \/ logger.stop
  \/ server.process # "up"
  \/ Pipe > 0 /\ pipes[Pipe].reader = "closed"
  \/ Pipe > 0 /\ server.clients[Pipe] = "leaving"
  \/ Pipe = MaxConnections /\ pipes[Pipe].writer = "closed"

\* All that was logged is shown.
CaughtUp ==
  /\ Positions = {}
  /\ worker.at \in {"waiting", "connecting"}
  /\ \A c \in DOMAIN pipes : pipes[c].written = <<>>
  /\ window.posted = <<>>

\* When the threads pause, all that the queue accepted reaches the window of a
\* debugger that stays: the event that is set once for many messages, and reset
\* before the queue is read, never leaves one behind.
LoggedIsShown == Positions # {} ~> CaughtUp \/ Interrupted

\* The logger's destructor returns although a write is pending, and the window
\* closes although a producer keeps its end open.
EveryoneStops ==
  /\ logger.stop ~> worker.at = "ended"
  /\ server.process = "closing" ~> server.process = "off"
=============================================================================
