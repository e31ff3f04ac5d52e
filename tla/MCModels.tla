------------------------------ MODULE MCModels ------------------------------
(***************************************************************************)
(* Small uses of the models and of their training.                         *)
(***************************************************************************)
EXTENDS ModelProperties

\* Nothing is published, and nobody opens the page of the updates.
NoUpdates == [installed |-> Release(1, "c1", FALSE, 0), saved |-> NoSetup,
              offers |-> [c \in Channels |-> Unpublished], next |-> <<>>,
              notices |-> FALSE, clicks |-> 0, faults |-> 0]
\* Two releases, the newer one in the rolling channel; the setup of the older is
\* on the disk.
TwoNewer == [installed |-> Release(1, "c1", FALSE, 0), saved |-> 2,
             offers |-> [stable |-> Release(2, "c2", TRUE, 2),
                         rolling |-> Release(3, "c3", TRUE, 0)],
             next |-> <<>>, notices |-> FALSE, clicks |-> 3, faults |-> 1]
\* A release is published while the page is used.
OneMore == [TwoNewer EXCEPT !.offers["rolling"] = Unpublished, !.clicks = 2,
                            !.next = <<Release(4, "c4", TRUE, 0)>>]
\* A notice opens the window.
Notice == [TwoNewer EXCEPT !.notices = TRUE, !.clicks = 1]
\* A development build, and an older one than what is published as stable.
Development == [TwoNewer EXCEPT !.installed = Release(0, "c3", FALSE, 0), !.clicks = 2]
LocalNewer  == [TwoNewer EXCEPT !.installed = Release(2, "c4", FALSE, 0), !.clicks = 2,
                                !.offers["rolling"] = Release(1, "c1", TRUE, 0)]

\* Models of two runs are prepared, applied and discarded, and devices chosen.
Choosing == [among |-> {"picker", "model", "device"}, left |-> 6, trained |-> {1, 2},
             records |-> {}, current |-> 1, selected |-> 1, trainer |-> "ours",
             faults |-> 1, kills |-> 1, page |-> NoUpdates]

\* A training, cancelled, reset or killed at any step, and another.
TrainingTwice == [among |-> {"lora", "train", "cancel", "reset", "delete"}, left |-> 7,
                  trained |-> {}, records |-> {"r1"}, current |-> 1, selected |-> 1,
                  trainer |-> "ours", faults |-> 1, kills |-> 1, page |-> NoUpdates]

\* A training and what its end offers, and the exit.
Offering == [among |-> {"lora", "train", "offer", "picker", "quit"}, left |-> 5,
             trained |-> {1}, records |-> {"r1"}, current |-> 1, selected |-> 1,
             trainer |-> "ours", faults |-> 0, kills |-> 0, page |-> NoUpdates]

\* The base model and the trainer, downloaded and installed anew.
SettingUp == [among |-> {"lora", "download", "install", "cancel", "quit"}, left |-> 4,
              trained |-> {}, records |-> {}, current |-> 1, selected |-> 1,
              trainer |-> "other", faults |-> 1, kills |-> 1, page |-> NoUpdates]

\* The updates, and the exit.
Updating(shown, kills) ==
  [among |-> {"quit"}, left |-> 0, trained |-> {}, records |-> {}, current |-> 0,
   selected |-> 0, trainer |-> "ours", faults |-> 0, kills |-> kills, page |-> shown]

\* Both pages: an export holds the UI thread while a check ends.
Both == [Choosing EXCEPT !.among = {"picker", "model", "quit"}, !.left = 4, !.faults = 0, !.kills = 0,
                         !.page = [TwoNewer EXCEPT !.clicks = 1, !.faults = 0]]

ModelUses == {Both, Choosing, TrainingTwice, Offering, SettingUp, Updating(TwoNewer, 0),
              Updating(OneMore, 0), Updating(Notice, 0), Updating(Development, 0),
              Updating(LocalNewer, 1)}
=============================================================================
