------------------------------ MODULE Settings ------------------------------
(***************************************************************************)
(* The settings window as a whole: its pages share the UI thread, which    *)
(* takes no message while a call blocks it, and the end of the service     *)
(* goes through all of them in turn.                                       *)
(***************************************************************************)
EXTENDS ModelSettings, UpdatePage

\* What a use says of the updates: the build that is installed, what is published
\* at first and later, the setup on the disk, and the bounds.
ASSUME PagesAssumption ==
  \A use \in Uses :
    /\ use.page.installed \in Builds /\ use.page.saved \in Nat
    /\ use.page.offers \in [Channels -> Manifests \union {Unpublished}]
    /\ use.page.next \in Seq(Manifests)
    /\ use.page.notices \in BOOLEAN
    /\ {use.page.clicks, use.page.faults} \subseteq Nat

everything == <<vars, updates>>

Init == \E use \in Uses : ModelInit(use) /\ PageInit(use.page)

\* The UI thread is in no call, and the window is there.
UiIsFree == Alive /\ screen # "closed" /\ task["ui"].at = "idle"

\* The steps of the update page and of its threads.
PageStep ==
  \/ UiIsFree /\ (Show \/ Messages)
  \/ UiIsFree /\ screen = "page" /\ Clicks
  \/ Alive /\ (CheckerStep \/ InstallerStep \/ Prompt \/ Outside)
  \/ Alive /\ (CheckMajor \/ Toast \/ NotifierEnds)

\* The tray's loop ends, and with it the notifier (main).
Leave == Quit /\ Unsubscribe

\* ~SettingsUi
CloseWindow ==
  /\ notifier.at = "over"
  /\ Destroy
  /\ PageCloses

StopUpdates == CancelTransfer

\* ~LoraTrainingManager comes after ~SettingsWindow, which joins its threads.
StopTraining ==
  /\ Joined
  /\ CancelOperation
  /\ UNCHANGED updates

Exit == Joined /\ Stop /\ UNCHANGED updates

Die    == Crash /\ UNCHANGED updates
Reopen == Restart /\ Reopened

\* The destructors of main, one after the other.
Leaving ==
  /\ up = "quitting"
  /\ CloseWindow \/ (StopUpdates /\ UNCHANGED vars) \/ StopTraining \/ Exit

Next ==
  \/ ModelStep /\ UNCHANGED updates
  \/ PageStep /\ UNCHANGED vars
  \/ Leave \/ Leaving
  \/ Die \/ Reopen

Spec == Init /\ [][Next]_everything

\* The threads run, and an export ends by itself; the trainer of a training and
\* the server of a download may hang.  The threads of a page take finitely many
\* steps between two calls, so that fairness to all of them together suffices.
Fairness ==
  /\ WF_vars(Operation)
  /\ WF_vars(\E t \in Threads : Works(t) \/ ReplaceFails(t) \/ FileNotExported(t))
  /\ WF_vars(RestoreFinished \/ Started \/ NotStarted)
  /\ WF_updates(UiIsFree /\ Messages)
  /\ WF_updates(Alive /\ (CheckerStep \/ InstallerStep \/ Prompt \/ NotifierEnds))
  /\ WF_everything(Leaving)

LiveSpec == Spec /\ Fairness
=============================================================================
