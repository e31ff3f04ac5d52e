----------------------------- MODULE UpdatePage -----------------------------
(***************************************************************************)
(* The updates of the program (update_checker, update_installer,           *)
(* winrt_http, major_update_notifier and their part of settings_window): a *)
(* thread asks what the two channels publish, another downloads a setup    *)
(* and runs it, and both post to the window, which the user may show, use  *)
(* and quit meanwhile.                                                     *)
(***************************************************************************)
EXTENDS Naturals, Sequences

VARIABLES
  page,       \* the buttons and the rows of the window, install_after_check_
  inbox,      \* the messages posted to the window
  checker,    \* update_checker_ and its thread
  installer,  \* update_installer_ and its thread
  transfer,   \* the WinrtHttpTransfer of the installer
  saved,      \* setup.exe: the build it installs, 0 for none
  notifier,   \* MajorUpdateNotifier
  site,       \* what the channels publish, and what may still happen
  asked       \* history: the channel whose button was pressed, until a download
              \* begins, and the one for which the last download began

updates == <<page, inbox, checker, installer, transfer, saved, notifier, site, asked>>

Channels  == {"stable", "rolling"}
NoChannel == "none"
NoSetup   == 0
NoRows    == [c \in Channels |-> NoSetup]

\* A release that is published, by its run number; without: Unpublished.
Release(build, commit, hasSetup, major) ==
  [build |-> build, commit |-> commit, hasSetup |-> hasSetup, major |-> major]
Unpublished == Release(0, "none", FALSE, 0)

\* What a manifest may say: a build 0 is refused (evaluate_manifest).
Builds    == [build : Nat, commit : STRING, hasSetup : BOOLEAN, major : Nat]
Manifests == {r \in Builds : r.build # 0}

\* A channel as a check has found it.
Finding(status, release) == [status |-> status, release |-> release]
Failed                   == Finding("failed", Unpublished)

NotChecking   == [checking |-> FALSE, at |-> "none", found |-> [c \in Channels |-> Failed]]
NotInstalling == [installing |-> FALSE, at |-> "none", channel |-> NoChannel, build |-> NoSetup]
NoTransfer    == [active |-> FALSE, cancelled |-> FALSE, stopped |-> FALSE]

Checks(at)   == checker' = [checker EXCEPT !.at = at]
Installs(at) == installer' = [installer EXCEPT !.at = at]

\* The network or the disk fails.
Trouble == site.faults > 0 /\ site' = [site EXCEPT !.faults = @ - 1]

\* The callbacks post while update_target_ still has the window.  The events of a
\* download that only change a text are left out.
Post(kind, found) ==
  inbox' = IF page.window THEN Append(inbox, [kind |-> kind, found |-> found]) ELSE inbox

-----------------------------------------------------------------------------
\* The page as create makes it; without the notices the notifier does nothing.
NewPage     == [window |-> TRUE, button |-> TRUE, installs |-> TRUE, rows |-> NoRows,
                after |-> NoChannel]
NewNotifier == [at |-> IF site.notices THEN "waits" ELSE "over", open |-> TRUE]
NotAsked    == [open |-> NoChannel, used |-> NoChannel]

PageInit(use) ==
  /\ site = [installed |-> use.installed, offers |-> use.offers, next |-> use.next,
             notices |-> use.notices, clicks |-> use.clicks, faults |-> use.faults]
  /\ saved = use.saved
  /\ page = NewPage /\ inbox = <<>>
  /\ checker = NotChecking /\ installer = NotInstalling /\ transfer = NoTransfer
  /\ notifier = NewNotifier
  /\ asked = NotAsked

-----------------------------------------------------------------------------
(***************************************************************************)
(* What is published.                                                      *)
(***************************************************************************)
\* The build, and the commit, that is installed; build 0 is a development build.
Installed == site.installed

\* evaluate_manifest
Status(r) ==
  CASE r.build > Installed.build /\ Installed.build # 0 -> "update_available"
    [] r.build < Installed.build                        -> "local_newer"
    [] r.commit = Installed.commit                      -> "up_to_date"
    [] Installed.build = 0                              -> "development_build"
    [] OTHER                                            -> "failed"

Published(c) ==
  LET r == site.offers[c] IN
  IF r = Unpublished THEN Finding("not_published", r)
  ELSE IF Status(r) = "failed" THEN Failed ELSE Finding(Status(r), r)

\* Mutant: an older release is offered, too.
InstallableOlder(f) ==
  f.release.hasSetup /\ f.status \in {"update_available", "development_build", "local_newer"}
Installable(f) == f.release.hasSetup /\ f.status \in {"update_available", "development_build"}

\* Another release is published.
Publish(c) ==
  /\ site.next # <<>>
  /\ site' = [site EXCEPT !.offers[c] = Head(site.next), !.next = Tail(@)]
  /\ UNCHANGED <<page, inbox, checker, installer, transfer, saved, notifier, asked>>

-----------------------------------------------------------------------------
(***************************************************************************)
(* The window: a check, a click on a channel's button, and their answers.  *)
(***************************************************************************)
User == site.clicks > 0 /\ site' = [site EXCEPT !.clicks = @ - 1]

\* begin_update_check; the checker refuses while another is under way.
BeginCheck(after) ==
  /\ page' = [page EXCEPT !.button = FALSE, !.rows = NoRows, !.after = after]
  /\ checker' = IF checker.checking THEN checker
                ELSE [NotChecking EXCEPT !.checking = TRUE, !.at = "stable"]

\* show, from the tray, the menu or a toast.
Show ==
  /\ User /\ page.window
  /\ IF installer.installing THEN UNCHANGED <<page, checker>> ELSE BeginCheck(page.after)
  /\ UNCHANGED <<inbox, installer, transfer, saved, notifier, asked>>

ClickCheck ==
  /\ User /\ page.window /\ page.button
  /\ IF installer.installing THEN UNCHANGED <<page, checker>> ELSE BeginCheck(page.after)
  /\ UNCHANGED <<inbox, installer, transfer, saved, notifier, asked>>

\* begin_update_install: what is installed is what another check finds.
ClickInstall(c) ==
  /\ User /\ page.window /\ page.installs /\ page.rows[c] # NoSetup
  /\ ~installer.installing
  /\ BeginCheck(c)
  /\ asked' = [asked EXCEPT !.open = c]
  /\ UNCHANGED <<inbox, installer, transfer, saved, notifier>>

\* Mutant: what was asked for is asked for by every later check, too.
AfterLater(c) == c
AfterThis(c)  == NoChannel

\* start_update_download and install_async
StartDownload(c, rows) ==
  /\ page' = [page EXCEPT !.button = FALSE, !.installs = FALSE, !.rows = rows,
                          !.after = AfterThis(@)]
  /\ installer' = [installing |-> TRUE, at |-> "look", channel |-> c, build |-> rows[c]]
  /\ transfer' = [transfer EXCEPT !.cancelled = FALSE]
  /\ asked' = [open |-> NoChannel, used |-> asked.open]

\* apply_update_result; a row that an earlier answer filled after the check began
\* keeps its setup.
TakeResult ==
  /\ page.window /\ inbox # <<>> /\ Head(inbox).kind = "result"
  /\ inbox' = Tail(inbox)
  /\ LET rows == [c \in Channels |->
                    LET f == Head(inbox).found[c] IN
                    IF Installable(f) THEN f.release.build ELSE page.rows[c]]
     IN \/ /\ installer.installing
           /\ page' = [page EXCEPT !.after = AfterThis(@)]
           /\ UNCHANGED <<installer, transfer, asked>>
        \/ /\ ~installer.installing
           /\ page.after # NoChannel /\ rows[page.after] # NoSetup
           /\ StartDownload(page.after, rows)
        \/ /\ ~installer.installing
           /\ page.after # NoChannel => rows[page.after] = NoSetup
           /\ page' = [page EXCEPT !.button = TRUE, !.rows = rows, !.after = AfterThis(@)]
           /\ UNCHANGED <<installer, transfer, asked>>
  /\ UNCHANGED <<checker, saved, notifier, site>>

\* apply_update_install_event of a failure.
TakeFailure ==
  /\ page.window /\ inbox # <<>> /\ Head(inbox).kind = "failed"
  /\ inbox' = Tail(inbox)
  /\ page' = [page EXCEPT !.button = TRUE, !.installs = TRUE]
  /\ UNCHANGED <<checker, installer, transfer, saved, notifier, site, asked>>

-----------------------------------------------------------------------------
(***************************************************************************)
(* The checker's thread.  Both requests are sent at once and awaited in    *)
(* turn until a common deadline; the result is posted before checking_ is  *)
(* cleared.                                                                *)
(***************************************************************************)
NextChannel(c) == IF c = "stable" THEN "rolling" ELSE "post"

\* resolve_channel: an answer, or a failure, a wrong manifest or the deadline.
Resolve(c, finding) ==
  /\ checker.at = c
  /\ checker' = [checker EXCEPT !.at = NextChannel(c), !.found[c] = finding]
  /\ UNCHANGED <<page, inbox, installer, transfer, saved, notifier, asked>>

Resolved(c)   == Resolve(c, Published(c)) /\ UNCHANGED site
Unresolved(c) == Resolve(c, Failed) /\ Trouble

PostResult ==
  /\ checker.at = "post"
  /\ Post("result", checker.found)
  /\ Checks("posted")
  /\ UNCHANGED <<page, installer, transfer, saved, notifier, site, asked>>

EndCheck ==
  /\ checker.at = "posted"
  /\ checker' = NotChecking
  /\ UNCHANGED <<page, inbox, installer, transfer, saved, notifier, site, asked>>

-----------------------------------------------------------------------------
(***************************************************************************)
(* The installer's thread: a setup that is there already is used again,    *)
(* otherwise it is downloaded, checked and moved into place; then it is    *)
(* locked, checked once more and run once Windows has asked the user.      *)
(***************************************************************************)
\* Mutant: any setup that is there will do.
MatchesAny(build) == saved # NoSetup
\* matches_asset: the size and the hash of the manifest.
Matches(build)    == saved = build

Look ==
  /\ installer.at = "look"
  /\ Installs(IF Matches(installer.build) THEN "lock" ELSE "request")
  /\ UNCHANGED <<page, inbox, checker, transfer, saved, notifier, site, asked>>

\* run: the operation is started before cancel can know of it.
Request ==
  /\ installer.at = "request"
  /\ Installs("started")
  /\ UNCHANGED <<page, inbox, checker, transfer, saved, notifier, site, asked>>

Remembered == [transfer EXCEPT !.active = TRUE, !.stopped = transfer.cancelled]

Remember ==
  /\ installer.at = "started"
  /\ transfer' = Remembered
  /\ Installs("get")
  /\ UNCHANGED <<page, inbox, checker, saved, notifier, site, asked>>

\* The whole body arrives; it may never do.
Arrive ==
  /\ installer.at = "get"
  /\ Installs("got")
  /\ UNCHANGED <<page, inbox, checker, transfer, saved, notifier, site, asked>>

\* The operation has been cancelled, or ends with an error.
Throw ==
  /\ transfer' = [transfer EXCEPT !.active = FALSE, !.stopped = FALSE]
  /\ Installs("failing")
  /\ UNCHANGED <<page, inbox, checker, saved, notifier, asked>>

Interrupted == installer.at = "get" /\ transfer.stopped /\ Throw /\ UNCHANGED site
Broken      == installer.at \in {"look", "request", "get"} /\ Throw /\ Trouble

\* run ends; the file is checked and moved, unless cancel came in between.
Finish ==
  /\ installer.at = "got"
  /\ transfer' = [transfer EXCEPT !.active = FALSE, !.stopped = FALSE]
  /\ IF transfer.cancelled THEN Installs("failing") /\ UNCHANGED saved
                           ELSE Installs("lock") /\ saved' = installer.build
  /\ UNCHANGED <<page, inbox, checker, notifier, site, asked>>

\* It is another file than the manifest's, or cannot be written.
Mismatch ==
  /\ installer.at = "got"
  /\ Throw /\ Trouble

\* launch_setup
Lock ==
  /\ installer.at = "lock"
  /\ Installs(IF Matches(installer.build) THEN "prompt" ELSE "failing")
  /\ UNCHANGED <<page, inbox, checker, transfer, saved, notifier, site, asked>>

Grant ==
  /\ installer.at = "prompt"
  /\ Installs("launched")
  /\ UNCHANGED <<page, inbox, checker, transfer, saved, notifier, site, asked>>

Refuse ==
  /\ installer.at = "prompt"
  /\ Installs("failing")
  /\ UNCHANGED <<page, inbox, checker, transfer, saved, notifier, site, asked>>

ReportFailure ==
  /\ installer.at = "failing"
  /\ Post("failed", checker.found)
  /\ Installs("done")
  /\ UNCHANGED <<page, checker, transfer, saved, notifier, site, asked>>

EndInstall ==
  /\ installer.at \in {"launched", "done"}
  /\ installer' = NotInstalling
  /\ UNCHANGED <<page, inbox, checker, transfer, saved, notifier, site, asked>>

-----------------------------------------------------------------------------
(***************************************************************************)
(* The notice of a major update: one check, ten minutes after the start.   *)
(***************************************************************************)
Notifies(at) ==
  /\ notifier' = [notifier EXCEPT !.at = at]
  /\ UNCHANGED <<page, inbox, checker, installer, transfer, saved, asked>>

CheckMajor ==
  /\ notifier.at = "waits"
  /\ LET f == Published("stable") IN
       Notifies(IF /\ Installed.build # 0 /\ f.status = "update_available"
                   /\ f.release.major > Installed.build THEN "found" ELSE "over")
  /\ UNCHANGED site

\* The notices are switched off, or the check fails.
CheckNoMajor ==
  /\ notifier.at \in {"waits", "found"}
  /\ Notifies("over") /\ Trouble

Toast ==
  /\ notifier.at = "found" /\ notifier.open
  /\ Notifies("toast") /\ UNCHANGED site

\* The toast opens the window.
ClickToast ==
  /\ notifier.at = "toast" /\ notifier.open
  /\ Notifies("clicked")
  /\ site' = [site EXCEPT !.clicks = @ + 1]

\* The stop of its thread wakes every wait.
NotifierEnds ==
  /\ ~notifier.open /\ notifier.at # "over"
  /\ Notifies("over") /\ UNCHANGED site

-----------------------------------------------------------------------------
(***************************************************************************)
(* The end of the window and of its threads.                               *)
(***************************************************************************)
\* ~MajorUpdateNotifier
Unsubscribe ==
  /\ notifier' = [notifier EXCEPT !.open = FALSE]
  /\ UNCHANGED <<page, inbox, checker, installer, transfer, saved, site, asked>>

\* deactivate_update_target, discard_pending_update_results and close_xaml
PageCloses ==
  /\ page' = [page EXCEPT !.window = FALSE, !.rows = NoRows]
  /\ inbox' = <<>>
  /\ UNCHANGED <<checker, installer, transfer, saved, notifier, site, asked>>

\* ~UpdateInstaller cancels what is under way and waits for it, as ~UpdateChecker
\* does.
CancelTransfer ==
  /\ ~page.window /\ ~transfer.cancelled
  /\ transfer' = [transfer EXCEPT !.cancelled = TRUE, !.stopped = transfer.active]
  /\ UNCHANGED <<page, inbox, checker, installer, saved, notifier, site, asked>>

Joined == transfer.cancelled /\ installer.at = "none" /\ checker.at = "none"

\* The service is started again; the setup stays on the disk.
Reopened ==
  /\ page' = NewPage /\ inbox' = <<>>
  /\ checker' = NotChecking /\ installer' = NotInstalling /\ transfer' = NoTransfer
  /\ notifier' = NewNotifier
  /\ asked' = NotAsked
  /\ UNCHANGED <<saved, site>>

-----------------------------------------------------------------------------
Clicks   == ClickCheck \/ \E c \in Channels : ClickInstall(c)
Messages == TakeResult \/ TakeFailure

CheckerStep == (\E c \in Channels : Resolved(c)) \/ PostResult \/ EndCheck
\* The steps the installer's thread makes by itself.
InstallerStep ==
  Look \/ Request \/ Remember \/ Interrupted \/ Finish \/ Lock
    \/ ReportFailure \/ EndInstall
\* Windows ends a prompt that nobody answers.
Prompt == Grant \/ Refuse

\* What the network, the disk and the user do, or not.
Outside ==
  \/ Arrive \/ Broken \/ Mismatch
  \/ \E c \in Channels : Unresolved(c) \/ Publish(c)
  \/ CheckNoMajor \/ ClickToast
=============================================================================
