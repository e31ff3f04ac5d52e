------------------------------ MODULE Debugger ------------------------------
(***************************************************************************)
(* The debugger and a process that logs to it: the pipe server accepts the *)
(* connections, a thread for each reads it and posts what it reads to the  *)
(* window, whose thread shows it.                                          *)
(***************************************************************************)
EXTENDS Logger

CONSTANT
  MaxStarts   \* how often the debugger is started (a bound)

VARIABLES
  server,     \* the debugger process, its accept thread and client threads
  window      \* the messages posted to the window, and what it shows

vars == <<queue, threads, worker, logger, pipes, server, window>>
producer == <<queue, threads, worker, logger>>

NoWindow == [posted |-> <<>>, count |-> 0, text |-> <<>>]

Init ==
  /\ LoggerInit
  /\ server = [process |-> "off", starts |-> 0, accept |-> "none",
               clients |-> [c \in 1..MaxConnections |-> "none"]]
  /\ window = NoWindow

\* connection_message, with its delta, or log_message, with a frame.
Post(c, delta, frame) ==
  window' = [window EXCEPT !.posted = Append(@, [via |-> c, delta |-> delta, frame |-> frame])]
ClientAt(c, at) == server' = [server EXCEPT !.clients[c] = at]
CloseEnd(c)     == pipes' = [pipes EXCEPT ![c].reader = "closed", ![c].written = <<>>]

-----------------------------------------------------------------------------
(***************************************************************************)
(* The accept thread                                                       *)
(***************************************************************************)
\* DebuggerWindow::create
Start ==
  /\ server.process = "off"
  /\ server.starts < MaxStarts
  /\ server' = [server EXCEPT !.process = "up", !.starts = @ + 1, !.accept = "listening"]
  /\ UNCHANGED <<producer, pipes, window>>

ConnectClient ==
  /\ server.accept = "listening"
  /\ Connect
  /\ server' = [server EXCEPT !.accept = "connected"]
  /\ UNCHANGED window

\* take_connected: the next instance listens before the client is served.
HandOver ==
  /\ server.accept = "connected"
  /\ server.process = "up"
  /\ server' = [server EXCEPT !.accept = "listening", !.clients[Pipe] = "starting"]
  /\ UNCHANGED <<producer, pipes, window>>

\* The stop event ends the thread, and the client it has not handed over.
EndAccept ==
  /\ server.process = "closing"
  /\ server.accept # "none"
  /\ IF server.accept = "connected" THEN CloseEnd(Pipe) ELSE UNCHANGED pipes
  /\ server' = [server EXCEPT !.accept = "none"]
  /\ UNCHANGED <<producer, window>>

-----------------------------------------------------------------------------
(***************************************************************************)
(* handle_client                                                           *)
(***************************************************************************)
CountIn(c) ==
  /\ server.clients[c] = "starting"
  /\ Post(c, 1, Nothing)
  /\ ClientAt(c, "reading")
  /\ UNCHANGED <<producer, pipes>>

Read(c) ==
  /\ server.clients[c] = "reading"
  /\ pipes[c].written # <<>>
  /\ pipes' = [pipes EXCEPT ![c].written = Tail(@)]
  /\ IF pipes[c].written[1] = Nothing
     THEN ClientAt(c, "leaving") /\ UNCHANGED window
     ELSE Post(c, 0, pipes[c].written[1]) /\ UNCHANGED server
  /\ UNCHANGED producer

Leave(c) ==
  /\ server.clients[c] = "reading"
  /\ ClientAt(c, "leaving")
  /\ UNCHANGED <<producer, pipes, window>>

\* The producer has closed its end.
Ended(c)     == pipes[c].writer = "closed" /\ pipes[c].written = <<>>
\* read_exact ends with the pipe, or with the stop event.
MustLeave(c) == Ended(c) \/ server.process = "closing"

\* A callback throws.
Throw(c) == "throw" \in use.faults /\ server.process = "up" /\ Leave(c)

CountOut(c) ==
  /\ server.clients[c] = "leaving"
  /\ Post(c, -1, Nothing)
  /\ ClientAt(c, "closing")
  /\ UNCHANGED <<producer, pipes>>

CloseClient(c) ==
  /\ server.clients[c] = "closing"
  /\ CloseEnd(c)
  /\ ClientAt(c, "none")
  /\ UNCHANGED <<producer, window>>

Client(c) ==
  /\ server.process # "hung"
  /\ CountIn(c) \/ Read(c) \/ CountOut(c) \/ CloseClient(c)
       \/ (server.clients[c] = "reading" /\ MustLeave(c) /\ Leave(c))

-----------------------------------------------------------------------------
(***************************************************************************)
(* The window                                                              *)
(***************************************************************************)
\* handle_message
Show ==
  /\ server.process = "up"
  /\ window.posted # <<>>
  /\ LET message == window.posted[1] IN
     window' = IF message.frame = Nothing
               THEN [window EXCEPT !.posted = Tail(@),
                                   !.count = IF @ + message.delta > 0 THEN @ + message.delta ELSE 0]
               ELSE [window EXCEPT !.posted = Tail(@), !.text = Append(@, message)]
  /\ UNCHANGED <<producer, pipes, server>>

\* WM_DESTROY: ~PipeServer sets the stop event and joins the threads.
Close ==
  /\ "close" \in use.faults
  /\ server.process = "up"
  /\ server' = [server EXCEPT !.process = "closing"]
  /\ UNCHANGED <<producer, pipes, window>>

EndDebugger ==
  /\ server.process = "closing"
  /\ server.accept = "none"
  /\ \A c \in 1..MaxConnections : server.clients[c] = "none"
  /\ server' = [server EXCEPT !.process = "off"]
  /\ window' = NoWindow
  /\ UNCHANGED <<producer, pipes>>

\* The process is suspended.
Hang ==
  /\ "hang" \in use.faults
  /\ server.process = "up"
  /\ server' = [server EXCEPT !.process = "hung"]
  /\ UNCHANGED <<producer, pipes, window>>

\* The process is killed.
Kill ==
  /\ "kill" \in use.faults
  /\ server.process \in {"up", "hung"}
  /\ server' = [server EXCEPT !.process = "off", !.accept = "none",
                              !.clients = [c \in 1..MaxConnections |-> "none"]]
  /\ pipes' = [c \in DOMAIN pipes |-> [pipes[c] EXCEPT !.reader = "closed", !.written = <<>>]]
  /\ window' = NoWindow
  /\ UNCHANGED producer

-----------------------------------------------------------------------------
Pushing(t) == (PushStep(t) \/ Signal(t) \/ Refuse(t)) /\ UNCHANGED <<server, window>>

WorkerStep ==
  \/ ConnectClient
  \/ /\ \/ Pump \/ Wake \/ Pop \/ FreeCell \/ PopNothing \/ Count \/ Write \/ LeaveOut
        \/ WriteFails \/ ClosePipe \/ EndWorker
     /\ UNCHANGED <<server, window>>

Next ==
  \/ \E t \in Threads : (Log(t) /\ UNCHANGED <<server, window>>) \/ Pushing(t)
  \/ Destroy /\ UNCHANGED <<server, window>>
  \/ WorkerStep
  \/ Start \/ HandOver \/ EndAccept
  \/ \E c \in 1..MaxConnections : Client(c) \/ Throw(c)
  \/ Show \/ Close \/ EndDebugger \/ Hang \/ Kill

Spec == Init /\ [][Next]_vars

\* A thread inside the logger, the worker, the server's threads and the window
\* are run by the system: none of them waits for a lock.
LiveSpec ==
  /\ Spec
  /\ \A t \in Threads : WF_vars(Pushing(t))
  /\ WF_vars(WorkerStep)
  /\ WF_vars(HandOver \/ EndAccept)
  /\ \A c \in 1..MaxConnections : WF_vars(Client(c))
  /\ WF_vars(Show \/ EndDebugger)
=============================================================================
