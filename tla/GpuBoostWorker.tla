--------------------------- MODULE GpuBoostWorker ---------------------------
(***************************************************************************)
(* The processes that hold an AMD driver's clock mode for the service      *)
(* (amd_gpu_boost_worker, amd_gpu_latency_boost).  The service asks one    *)
(* through two events and shared memory and may stop waiting; the process  *)
(* restores the clock by itself whatever becomes of the service.  A named  *)
(* mutex keeps two of them from driving one GPU.                           *)
(***************************************************************************)
EXTENDS Integers

CONSTANTS
  Workers,    \* the processes that can be launched (a bound), numbered from 1
  Attempts    \* the restorations tried before the process gives up

ASSUME WorkersAssumption  == Workers \subseteq Nat \ {0}
ASSUME AttemptsAssumption == Attempts \in Nat

VARIABLES
  up,         \* the service runs: the handle parent is not signalled
  processes,  \* the processes, with what they share with the service
  mutex,      \* the owner of Local\LlavonAmdClockMode-<address>, 0 for none
  clock       \* the clock mode of the GPU

boost == <<processes, mutex, clock>>

\* at: where worker_main is; enabled, request, stop, reply: the shared state
\* and events; result: of the driver call under way; pending: the clock may be
\* raised; left: restorations it may still try.
Blank(at) ==
  [at |-> at, enabled |-> FALSE, request |-> FALSE, stop |-> FALSE,
   reply |-> "none", result |-> "none", pending |-> FALSE, left |-> Attempts]

NoProcess == Blank("none")

Running == {"waiting", "raising", "lowering", "undoing", "restoring"}

GpuInit ==
  /\ mutex = 0
  /\ clock = "default"

\* The process w becomes p.
Becomes(w, p) == processes' = [processes EXCEPT ![w] = p]

\* The driver is asked to lower the clock.  It refuses, or it does.
Lowered(w) == clock' = "default"
Refused(w) == UNCHANGED clock

-----------------------------------------------------------------------------
(***************************************************************************)
(* worker_main                                                             *)
(***************************************************************************)
\* Mutant: whoever comes takes over the GPU.
LockAnyway(w) == mutex' = w
Lock(w)       == mutex = 0 /\ mutex' = w

\* It owns the GPU and has found its driver.
Begin(w) ==
  /\ processes[w].at = "starting"
  /\ Lock(w)
  /\ Becomes(w, [processes[w] EXCEPT !.at = "waiting", !.reply = "success"])
  /\ UNCHANGED <<up, clock>>

\* Another process owns it, or there is no driver: it answers and ends.
Decline(w) ==
  /\ processes[w].at = "starting"
  /\ Becomes(w, [processes[w] EXCEPT !.at = "ended", !.reply = "unavailable"])
  /\ UNCHANGED <<up, mutex, clock>>

\* Mutant: the end of the service itself goes unnoticed.
StopSignalled(w) == processes[w].stop
\* The service has ended or wants it to end.
Signalled(w)     == ~up \/ processes[w].stop

Leave(w) ==
  /\ processes[w].at = "waiting"
  /\ Signalled(w)
  /\ Becomes(w, [processes[w] EXCEPT !.at = "restoring"])
  /\ UNCHANGED <<up, mutex, clock>>

\* "Record restoration ownership before entering any driver call."
Owe(p) == p.pending \/ p.enabled

Receive(w) ==
  /\ processes[w].at = "waiting"
  /\ ~Signalled(w) /\ processes[w].request
  /\ Becomes(w, [processes[w] EXCEPT !.request = FALSE, !.pending = Owe(processes[w]),
                   !.at = IF processes[w].enabled THEN "raising" ELSE "lowering"])
  /\ UNCHANGED <<up, mutex, clock>>

\* respond, and wait again.
Answered(p, result) == [p EXCEPT !.at = "waiting", !.reply = result]

Peak(w) ==
  /\ processes[w].at = "raising"
  /\ clock' = "peak"
  /\ Becomes(w, Answered(processes[w], "success"))
  /\ UNCHANGED <<up, mutex>>

\* A failed Peak request may have changed the clock all the same.
PeakFails(w) ==
  /\ processes[w].at = "raising"
  /\ clock' \in {clock, "peak"}
  /\ \E result \in {"retry_later", "unavailable"} :
       Becomes(w, [processes[w] EXCEPT !.at = "undoing", !.result = result])
  /\ UNCHANGED <<up, mutex>>

UndoClock(w)   == Lowered(w)

Undo(w) ==
  /\ processes[w].at = "undoing"
  /\ UndoClock(w)
  /\ Becomes(w, Answered([processes[w] EXCEPT !.pending = FALSE, !.result = "none"],
                         processes[w].result))
  /\ UNCHANGED <<up, mutex>>

UndoFails(w) ==
  /\ processes[w].at = "undoing"
  /\ Refused(w)
  /\ Becomes(w, [processes[w] EXCEPT !.at = "restoring", !.result = "none",
                   !.reply = "unavailable"])
  /\ UNCHANGED <<up, mutex>>

\* Nothing to lower: the driver is not called.
Lower(w) ==
  /\ processes[w].at = "lowering"
  /\ IF processes[w].pending THEN Lowered(w) ELSE UNCHANGED clock
  /\ Becomes(w, Answered([processes[w] EXCEPT !.pending = FALSE], "success"))
  /\ UNCHANGED <<up, mutex>>

LowerFails(w) ==
  /\ processes[w].at = "lowering" /\ processes[w].pending
  /\ Refused(w)
  /\ Becomes(w, Answered(processes[w], "retry_later"))
  /\ UNCHANGED <<up, mutex>>

Restore(w) ==
  /\ processes[w].at = "restoring" /\ processes[w].pending /\ processes[w].left > 0
  /\ Lowered(w)
  /\ Becomes(w, [processes[w] EXCEPT !.pending = FALSE])
  /\ UNCHANGED <<up, mutex>>

RestoreFails(w) ==
  /\ processes[w].at = "restoring" /\ processes[w].pending /\ processes[w].left > 0
  /\ Refused(w)
  /\ Becomes(w, [processes[w] EXCEPT !.left = @ - 1])
  /\ UNCHANGED <<up, mutex>>

\* It ends, with the exit code 4 when the clock is still to be restored.
Done(w) == ~processes[w].pending \/ processes[w].left = 0

End(w) ==
  /\ processes[w].at = "restoring"
  /\ Done(w)
  /\ Becomes(w, [processes[w] EXCEPT !.at = "ended"])
  /\ mutex' = 0
  /\ UNCHANGED <<up, clock>>

Work(w) ==
  \/ Begin(w) \/ Decline(w) \/ Leave(w) \/ Receive(w)
  \/ Peak(w) \/ PeakFails(w) \/ Undo(w) \/ UndoFails(w)
  \/ Lower(w) \/ LowerFails(w) \/ Restore(w) \/ RestoreFails(w) \/ End(w)

-----------------------------------------------------------------------------
(***************************************************************************)
(* WorkerClient: what the service does with a process.                     *)
(***************************************************************************)
\* CreateProcessW
Launched(w)     == Becomes(w, Blank("starting"))
\* set: the request, and nothing answered yet.
Asked(w, on)    == Becomes(w, [processes[w] EXCEPT !.enabled = on, !.request = TRUE])
\* the stop event
Stopped(w)      == Becomes(w, [processes[w] EXCEPT !.stop = TRUE])
\* wait_reply: the event is reset by the wait.
ReplyTaken(w)   == Becomes(w, [processes[w] EXCEPT !.reply = "none"])

=============================================================================
