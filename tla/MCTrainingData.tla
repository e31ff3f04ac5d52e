--------------------------- MODULE MCTrainingData ---------------------------
(***************************************************************************)
(* Small instances of TrainingDataWriter for TLC.                          *)
(***************************************************************************)
EXTENDS TrainingDataProperties

CONSTANTS s1, s2, b1, b2

Using(among, left, found) == [among |-> among, left |-> left, database |-> found]

LastOf(s, rows) == Cardinality({c \in DOMAIN rows : c[1] = s})

Database(rows, done, user_version, row, password, history) ==
  [table |-> rows, used |-> [s \in Sessions |-> LastOf(s, rows)], trained |-> done,
   version |-> user_version, protection |-> row, key |-> password, runs |-> history]

Empty    == [c \in {} |-> 0]
Recorded == Database(Empty, {}, 4, "on", 1, <<>>)
New      == Database(Empty, {}, 4, "none", 0, <<>>)

\* Written by an old version: a commit it trained on, one with no reading and
\* one to be trained, all in plain text, and a run without a fingerprint.
OldRun == [parent |-> 0, base |-> NoBase, commits |-> {}, total |-> 1]
Old    == Database([c \in {<<s1, 1>>, <<s1, 2>>, <<s2, 1>>} |-> 0], {<<s1, 1>>}, 1, "none", 0,
                   <<OldRun>>)
\* Two commits, and a run on a third one.
Half   == Database([c \in {<<s1, 1>>, <<s1, 2>>, <<s2, 1>>} |-> 1], {}, 4, "on", 1,
                   <<[parent |-> 0, base |-> b1, commits |-> {<<s1, 1>>}, total |-> 1]>>)

CollectingUses ==
  { Using({"record", "discard"}, 4, Recorded),
    Using({"record", "discard", "stop"}, 3, Recorded),
    Using({"record", "switch", "kill", "workerFails"}, 3, Recorded),
    Using({"record", "reset", "configure"}, 4, Recorded),
    Using({"record", "configure", "switch"}, 4, New),
    Using({"train", "identify", "configure"}, 4, Old),
    Using({"train", "delete", "exclude"}, 2, Half),
    Using({"train", "record", "delete"}, 2, Half),
    Using({"train", "identify"}, 3, Half) }

OnlyLiterals == {<<s1, 2>>}
=============================================================================
