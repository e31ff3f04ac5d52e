--------------------------- MODULE MCEngineWorker ---------------------------
(***************************************************************************)
(* Small instances of EngineWorker for TLC.                                *)
(***************************************************************************)
EXTENDS EngineWorkerProperties

Using(among, left, starts) == [among |-> among, left |-> left, starts |-> starts]

\* Every call; predictions of two compositions; commits and discards through
\* several connections; only the mode asked for and toggled.
WorkerUses ==
  { Using({"refresh", "toggle", "ready", "prefill", "predict", "record", "discard", "stop"}, 2, 1),
    Using({"predict", "stop"}, 3, 1),
    Using({"record", "discard"}, 3, 2),
    Using({"refresh", "toggle"}, 3, 2) }

\* A reconnection by a request whose outcome is not told.
SilentUses == { Using({"refresh", "ready"}, 2, 2) }
=============================================================================
