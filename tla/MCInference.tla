---------------------------- MODULE MCInference -----------------------------
(***************************************************************************)
(* Small instances of the inference server.                                *)
(***************************************************************************)
EXTENDS InferenceProperties

\* A use: the boost is enabled at first or not; the calls, how many, and how
\* often a wait for the process may end early.
Using(boosted, among, left, late) ==
  [boost |-> boosted, among |-> among, left |-> left, late |-> late]

InferenceUses ==
  { \* The clock is used, and left alone again; the process is slow.
    Using(TRUE, {"ready", "use"}, 2, 2),
    \* The core is replaced while clients come and go.
    Using(FALSE, {"use", "reload", "disconnect"}, 6, 0),
    \* The boost is made again for the new core; its process may be slow.
    Using(TRUE, {"ready", "reload"}, 2, 2),
    Using(TRUE, {"ready", "reload"}, 3, 1),
    \* The boost is switched on and off.
    Using(FALSE, {"use", "enable"}, 4, 0),
    \* The server stops, or is killed.
    Using(TRUE, {"use", "reload", "stop", "kill"}, 3, 0) }
=============================================================================
