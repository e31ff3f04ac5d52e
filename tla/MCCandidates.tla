----------------------------- MODULE MCCandidates -----------------------------
(***************************************************************************)
(* Small instances of CandidateUi for TLC: the uses each run explores.     *)
(***************************************************************************)
EXTENDS CandidateProperties

Using(among, keys, left, clients, sizes, shows) ==
  [among |-> among, keys |-> keys, left |-> left, clients |-> clients, sizes |-> sizes,
   shows |-> shows, toggles |-> TRUE, closed |-> FALSE]

\* Some of its keys go to contexts that take no input.
Closing(use) == [use EXCEPT !.closed = TRUE]

\* Every key that moves through lists of up to three pages, two shown at once;
\* two text services and the service started again; a host that draws the list
\* itself; every key and modifier, asked for before it is sent or not; Shift at
\* two text services, at hosts that ask and at hosts that do not, in contexts that
\* take input and in contexts that take none.
CandidateUses ==
  { Using({"direct"}, {"letter", "1", "2", "return"} \union Turning, 6, {1}, {1, 3, 5}, {"shown"}),
    Using({"direct", "grant", "leave", "crash", "throw"}, {"letter", "down", "escape"}, 7,
          {1, 2}, {2}, {"shown"}),
    Using({"direct", "select", "turn", "finish", "show", "terminate"}, {"letter", "down", "1"}, 6,
          {1}, {3}, {"shown", "declined", "failed", "unanchored"}),
    Using({"test", "release", "terminate"}, AllKeys, 5, {1}, {1}, {"shown"}),
    Closing(Using({"test", "direct", "release"}, {"shift", "letter"}, 6, {1, 2}, {1}, {"shown"})) }

BurstUses == { Using({"direct"}, {"letter", "down", "escape"}, 5, {1}, {2}, {"shown"}) }
=============================================================================
