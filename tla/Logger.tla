------------------------------- MODULE Logger -------------------------------
(***************************************************************************)
(* The logger of a process (llavon::debug::Logger): its threads push,      *)
(* one worker connects to the debugger and writes.  Nothing is logged      *)
(* while no debugger is connected, and a full queue drops the message.     *)
(***************************************************************************)
EXTENDS LogQueue, Sequences

CONSTANTS
  Uses,            \* what may happen in a behaviour: the messages of each thread
                   \* and the faults (bounds)
  Oversized,       \* the messages too long for a frame
  PipeRoom,        \* the frames the pipe holds before a write has to wait
  MaxConnections   \* the connections (a bound)

ASSUME ConnectionsAssumption == MaxConnections \in Nat

VARIABLES
  worker,     \* where the worker is, its message and the drops it reports
  logger,     \* connected_, dropped_, queue_event_ and stop_event_
  pipes,      \* the pipe instances: their ends and what was written
  logged,     \* the messages each thread has tried to log
  refused,    \* the messages the full queue refused, for the properties
  use         \* the use that is explored

threads == <<pushes, logged, refused, use>>

Worker(at) == [at |-> at, message |-> Nothing, drops |-> 0]

LoggerInit ==
  /\ QueueInit
  /\ worker = Worker("connecting")
  /\ logger = [connected |-> FALSE, dropped |-> 0, event |-> FALSE, stop |-> FALSE]
  /\ pipes = <<>>
  /\ logged = [t \in Threads |-> 0]
  /\ refused = {}
  /\ use \in Uses

\* The worker's pipe.
Pipe == Len(pipes)

WorkerAt(at) == worker' = [worker EXCEPT !.at = at]

-----------------------------------------------------------------------------
(***************************************************************************)
(* log                                                                     *)
(***************************************************************************)
Log(t) ==
  /\ ~logger.stop
  /\ pushes[t].at = "idle"
  /\ logged[t] < use.logs[t]
  /\ logged' = [logged EXCEPT ![t] = @ + 1]
  /\ IF logger.connected
     THEN StartPush(t, [thread |-> t, number |-> logged'[t]])
     ELSE UNCHANGED pushes
  /\ UNCHANGED <<queue, worker, logger, pipes, refused, use>>

PushStep(t) ==
  /\ Look(t) \/ Claim(t) \/ Publish(t)
  /\ UNCHANGED <<worker, logger, pipes, logged, refused, use>>

Signal(t) ==
  /\ pushes[t].at = "signal"
  /\ logger' = [logger EXCEPT !.event = TRUE]
  /\ Calls(t, NoPush)
  /\ UNCHANGED <<queue, worker, pipes, logged, refused, use>>

Refuse(t) ==
  /\ pushes[t].at = "refused"
  /\ logger' = [logger EXCEPT !.dropped = @ + 1]
  /\ refused' = refused \union
       {[thread |-> t, number |-> pushes[t].message.number, via |-> Pipe]}
  /\ Calls(t, NoPush)
  /\ UNCHANGED <<queue, worker, pipes, logged, use>>

\* ~Impl: the owner destroys the logger once no thread uses it.
Destroy ==
  /\ "destroy" \in use.faults
  /\ ~logger.stop
  /\ \A t \in Threads : pushes[t].at = "idle"
  /\ logger' = [logger EXCEPT !.connected = FALSE, !.stop = TRUE, !.event = TRUE]
  /\ UNCHANGED <<queue, threads, worker, pipes>>

-----------------------------------------------------------------------------
(***************************************************************************)
(* The worker                                                              *)
(***************************************************************************)
\* run: the debugger's listening instance becomes the logger's pipe.
Connect ==
  /\ worker.at = "connecting"
  /\ ~logger.stop
  /\ Pipe < MaxConnections
  /\ pipes' = Append(pipes, [written |-> <<>>, writer |-> "open", reader |-> "open"])
  /\ WorkerAt("pumping")
  /\ UNCHANGED <<queue, threads, logger>>

Pump ==
  /\ worker.at = "pumping"
  /\ logger' = [logger EXCEPT !.connected = TRUE]
  /\ WorkerAt("waiting")
  /\ UNCHANGED <<queue, threads, pipes>>

\* The stop event comes before the queue's, which the wait resets.
Wake ==
  /\ worker.at = "waiting"
  /\ logger.stop \/ logger.event
  /\ IF logger.stop
     THEN WorkerAt("closing") /\ UNCHANGED logger
     ELSE WorkerAt("popping") /\ logger' = [logger EXCEPT !.event = FALSE]
  /\ UNCHANGED <<queue, threads, pipes>>

\* Mutant: pump takes one message each time it is woken.
AfterWriteOnce == "waiting"
\* pump empties the queue before it waits again.
AfterWrite     == "popping"

\* try_pop in pump and in discard_pending, whose messages go nowhere.
Pop ==
  /\ worker.at \in {"popping", "discarding"}
  /\ Filled
  /\ Take
  /\ worker' = [at      |-> IF worker.at = "popping" THEN "freeing" ELSE "emptying",
                message |-> First, drops |-> 0]
  /\ UNCHANGED <<threads, logger, pipes>>

FreeCell ==
  /\ worker.at \in {"freeing", "emptying"}
  /\ Free
  /\ IF worker.at = "freeing" THEN WorkerAt("counting") ELSE worker' = Worker("discarding")
  /\ UNCHANGED <<threads, logger, pipes>>

PopNothing ==
  /\ worker.at \in {"popping", "discarding"}
  /\ ~Filled
  /\ worker' = Worker(IF worker.at = "popping" THEN "waiting" ELSE "connecting")
  /\ UNCHANGED <<queue, threads, logger, pipes>>

\* Mutant: the count is read and not cleared.
CountAgain ==
  /\ worker.at = "counting"
  /\ worker' = [worker EXCEPT !.drops = logger.dropped,
                              !.at = IF logger.dropped > 0 THEN "reporting" ELSE "writing"]
  /\ UNCHANGED <<queue, threads, logger, pipes>>
Count ==
  /\ worker.at = "counting"
  /\ logger' = [logger EXCEPT !.dropped = 0]
  /\ worker' = [worker EXCEPT !.drops = logger.dropped,
                              !.at = IF logger.dropped > 0 THEN "reporting" ELSE "writing"]
  /\ UNCHANGED <<queue, threads, pipes>>

\* What is to be written: the report of the drops, then the message.
Frame ==
  IF worker.at = "reporting" THEN [thread |-> "none", number |-> worker.drops]
                             ELSE worker.message

Written == IF worker.at = "reporting" THEN WorkerAt("writing") ELSE worker' = Worker(AfterWrite)

\* write_exact finishes once the pipe has room.
Write ==
  /\ worker.at \in {"reporting", "writing"}
  /\ Frame \notin Oversized
  /\ pipes[Pipe].reader = "open"
  /\ Len(pipes[Pipe].written) < PipeRoom
  /\ pipes' = [pipes EXCEPT ![Pipe].written = Append(@, Frame)]
  /\ Written
  /\ UNCHANGED <<queue, threads, logger>>

\* write_message leaves out what does not fit a frame.
LeaveOut ==
  /\ worker.at = "writing"
  /\ Frame \in Oversized
  /\ Written
  /\ UNCHANGED <<queue, threads, logger, pipes>>

\* Mutant: a write waits for the debugger to read.
WriteIsCutByPeer == pipes[Pipe].reader = "closed"
\* The debugger has closed its end, or the logger stops.
WriteIsCut       == pipes[Pipe].reader = "closed" \/ logger.stop

\* A write that is cancelled may have written nothing, a part of the frame,
\* which leaves a torn end, or all of it.
WriteFails ==
  /\ worker.at \in {"reporting", "writing"}
  /\ Frame \notin Oversized
  /\ WriteIsCut
  /\ \/ UNCHANGED pipes
     \/ /\ pipes[Pipe].reader = "open"
        /\ \E part \in {Nothing, Frame} :
             pipes' = [pipes EXCEPT ![Pipe].written = Append(@, part)]
  /\ worker' = Worker("closing")
  /\ UNCHANGED <<queue, threads, logger>>

ClosePipe ==
  /\ worker.at = "closing"
  /\ logger' = [logger EXCEPT !.connected = FALSE]
  /\ pipes' = [pipes EXCEPT ![Pipe].writer = "closed"]
  /\ WorkerAt("discarding")
  /\ UNCHANGED <<queue, threads>>

EndWorker ==
  /\ worker.at = "connecting"
  /\ logger.stop
  /\ WorkerAt("ended")
  /\ UNCHANGED <<queue, threads, logger, pipes>>
=============================================================================
