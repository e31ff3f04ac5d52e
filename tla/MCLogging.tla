------------------------------ MODULE MCLogging ------------------------------
(***************************************************************************)
(* Small instances of Debugger for TLC: the uses the run explores.         *)
(***************************************************************************)
EXTENDS LoggingProperties

Using(a, b, faults) == [logs |-> [t \in Threads |-> IF t = "a" THEN a ELSE b], faults |-> faults]

\* Two threads that fill the queue; two whose connection the debugger gives up;
\* one that logs while the debugger is closed, suspended or killed and while
\* the logger is destroyed.
LoggingUses ==
  { Using(3, 1, {}),
    Using(2, 1, {"throw"}),
    Using(2, 0, {"close", "hang", "kill", "destroy"}) }

LongMessages == {[thread |-> "a", number |-> 3]}
=============================================================================
