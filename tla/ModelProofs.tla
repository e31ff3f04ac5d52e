---------------------------- MODULE ModelProofs ----------------------------
(***************************************************************************)
(* What the trainings, the models and the updates promise, for every       *)
(* number of runs, records, revisions, releases and devices and every use  *)
(* of them.  The invariant has three parts: the manager with the disk, the *)
(* window, and the page of the updates, which shares no variable with the  *)
(* other two.                                                              *)
(***************************************************************************)
EXTENDS ModelProperties, FiniteSetTheorems, TLAPS

-----------------------------------------------------------------------------
(***************************************************************************)
(* The updates.  What the window is told by a check is newer than what is  *)
(* installed; a download is of a channel that was asked for; and the setup *)
(* the prompt stands for is the one on the disk.                           *)
(***************************************************************************)
\* What a check may find.
Found == [status : {"failed", "not_published", "update_available", "local_newer", "up_to_date",
                    "development_build"},
          release : Manifests \union {Unpublished}]
Message == [kind : {"result", "failed"}, found : [Channels -> Found]]

\* What is offered is newer than what is installed.
Newer(f) == Installable(f) => f.release.build > Installed.build
AllNewer(found) == \A c \in Channels : Newer(found[c])

SiteOK == site \in [installed : Builds, offers : [Channels -> Manifests \union {Unpublished}],
                    next : Seq(Manifests), notices : BOOLEAN, clicks : Nat, faults : Nat]
PageOK ==
  page \in [window : BOOLEAN, button : BOOLEAN, installs : BOOLEAN,
            rows : [Channels -> Nat], after : Channels \union {NoChannel}]
CheckerOK ==
  /\ checker \in [checking : BOOLEAN, at : Channels \union {"none", "post", "posted"},
                  found : [Channels -> Found]]
  /\ checker.checking = (checker.at # "none")
InstallerOK ==
  /\ installer \in [installing : BOOLEAN,
                    at : {"none", "look", "request", "started", "get", "got", "lock", "prompt",
                          "failing", "launched", "done"},
                    channel : Channels \union {NoChannel}, build : Nat]
  /\ installer.installing = (installer.at # "none")
  /\ installer.installing =>
       /\ installer.build # NoSetup /\ installer.build > Installed.build
       /\ installer.channel \in Channels
TransferOK ==
  /\ transfer \in [active : BOOLEAN, cancelled : BOOLEAN, stopped : BOOLEAN]
  /\ transfer.active => installer.at \in {"get", "got"}
  /\ transfer.stopped => transfer.active /\ transfer.cancelled
InboxOK ==
  /\ inbox \in Seq(Message)
  /\ page.window \/ inbox = <<>>
AskedOK ==
  /\ asked \in [open : Channels \union {NoChannel}, used : Channels \union {NoChannel}]
  /\ page.after # NoChannel => asked.open = page.after
  /\ installer.installing => asked.used = installer.channel
SavedOK ==
  /\ saved \in Nat
  /\ installer.at = "prompt" => saved = installer.build
NewerOK ==
  /\ \A c \in Channels : page.rows[c] # NoSetup => page.rows[c] > Installed.build
  /\ AllNewer(checker.found)
  /\ \A i \in 1..Len(inbox) : AllNewer(inbox[i].found)

PageInv ==
  /\ SiteOK /\ PageOK /\ CheckerOK /\ InstallerOK /\ TransferOK /\ InboxOK /\ AskedOK /\ SavedOK
  /\ NewerOK

\* What a check finds is offered only if it is newer: a development build,
\* whose number is 0, is older than any release.
LEMMA PublishedIsSound ==
  ASSUME SiteOK, NEW c \in Channels
  PROVE  Published(c) \in Found /\ Newer(Published(c))
<1> DEFINE r == site.offers[c]
<1>1. r \in Manifests \union {Unpublished} /\ Installed.build \in Nat
  BY DEF SiteOK, Installed, Builds
<1>2. r.build \in Nat
  BY <1>1 DEF Manifests, Builds, Unpublished, Release
<1>3. CASE r = Unpublished
  BY <1>3 DEF Published, Finding, Found, Newer, Installable
<1>4. CASE r # Unpublished
  BY <1>1, <1>4, <1>2 DEF Manifests, Status, Published, Failed, Finding, Found, Newer,
     Installable
<1> QED BY <1>3, <1>4

\* A message that is posted is a message.
LEMMA PostedIsMessage ==
  ASSUME NEW kind \in {"result", "failed"}, NEW found \in [Channels -> Found],
         inbox \in Seq(Message), Post(kind, found)
  PROVE  inbox' \in Seq(Message)
<1>1. [kind |-> kind, found |-> found] \in Message
  BY DEF Message
<1>2. Append(inbox, [kind |-> kind, found |-> found]) \in Seq(Message)
  BY <1>1
<1> QED BY <1>2 DEF Post

\* A check that begins clears the rows, and has found nothing yet.
LEMMA BeginCheckKeeps ==
  ASSUME PageInv, NEW after \in Channels \union {NoChannel}, BeginCheck(after),
         Installed' = Installed, inbox' = inbox
  PROVE  PageOK' /\ CheckerOK' /\ NewerOK' /\ page'.window = page.window /\ page'.after = after
<1>0. /\ page \in [window : BOOLEAN, button : BOOLEAN, installs : BOOLEAN,
                   rows : [Channels -> Nat], after : Channels \union {NoChannel}]
      /\ NoRows \in [Channels -> Nat] /\ \A c \in Channels : NoRows[c] = NoSetup
  BY DEF PageInv, PageOK, NoRows, NoSetup
<1>1. /\ PageOK' /\ page'.window = page.window /\ page'.after = after
      /\ \A c \in Channels : page'.rows[c] = NoSetup
  BY <1>0 DEF PageOK, BeginCheck
<1>2. /\ Failed \in Found /\ ~Installable(Failed)
      /\ [c \in Channels |-> Failed] \in [Channels -> Found]
  BY DEF Failed, Finding, Found, Installable
<1>3. CASE checker.checking
  BY <1>3, <1>1 DEF BeginCheck, PageInv, CheckerOK, NewerOK, AllNewer, Newer, Installable
<1>4. CASE ~checker.checking
  <2>1. checker' = [checking |-> TRUE, at |-> "stable", found |-> [c \in Channels |-> Failed]]
    BY <1>4 DEF BeginCheck, NotChecking
  <2>2. CheckerOK'
    BY <1>2, <2>1 DEF CheckerOK, Channels
  <2>3. \A c \in Channels : checker'.found[c] = Failed
    BY <2>1
  <2>4. NewerOK'
    BY <1>1, <1>2, <2>3 DEF PageInv, NewerOK, AllNewer, Newer, Installable
  <2> QED BY <1>1, <2>2, <2>4
<1> QED BY <1>3, <1>4

\* Each step of the world, of the window and of its threads keeps the invariant
\* of the updates.
LEMMA PublishKeeps ==
  ASSUME PageInv, NEW c \in Channels, Publish(c)
  PROVE  PageInv'
<1>0. /\ site \in [installed : Builds, offers : [Channels -> Manifests \union {Unpublished}],
                   next : Seq(Manifests), notices : BOOLEAN, clicks : Nat, faults : Nat]
      /\ site.next # <<>>
      /\ site' = [site EXCEPT !.offers[c] = Head(site.next), !.next = Tail(@)]
  BY DEF PageInv, SiteOK, Publish
<1>1. Head(site.next) \in Manifests /\ Tail(site.next) \in Seq(Manifests)
  BY <1>0
<1>2. [site.offers EXCEPT ![c] = Head(site.next)] \in [Channels -> Manifests \union {Unpublished}]
  BY <1>0, <1>1
<1>3. SiteOK' /\ Installed' = Installed
  BY <1>0, <1>1, <1>2 DEF SiteOK, Installed
<1>4. InstallerOK' /\ NewerOK'
  BY <1>3 DEF PageInv, InstallerOK, NewerOK, AllNewer, Newer, Installable, Publish
<1> QED BY <1>3, <1>4
  DEF PageInv, PageOK, CheckerOK, TransferOK, InboxOK, AskedOK, SavedOK, Publish

LEMMA UserKeeps ==
  ASSUME SiteOK, User
  PROVE  SiteOK' /\ Installed' = Installed
BY DEF SiteOK, User, Installed

LEMMA ShowKeeps ==
  ASSUME PageInv, Show \/ ClickCheck
  PROVE  PageInv'
<1>1. /\ SiteOK' /\ Installed' = Installed
      /\ UNCHANGED <<inbox, installer, transfer, saved, asked>>
      /\ UNCHANGED <<page, checker>> \/ BeginCheck(page.after)
  BY UserKeeps DEF PageInv, Show, ClickCheck
<1>2. page.after \in Channels \union {NoChannel}
  BY DEF PageInv, PageOK
<1>3. PageOK' /\ CheckerOK' /\ NewerOK' /\ page'.window = page.window /\ page'.after = page.after
  BY <1>1, <1>2, BeginCheckKeeps
    DEF PageInv, PageOK, CheckerOK, NewerOK, AllNewer, Newer, Installable
<1> QED BY <1>1, <1>3 DEF PageInv, InstallerOK, TransferOK, InboxOK, AskedOK, SavedOK

LEMMA ClickInstallKeeps ==
  ASSUME PageInv, NEW c \in Channels, ClickInstall(c)
  PROVE  PageInv'
BY UserKeeps, BeginCheckKeeps DEF PageInv, ClickInstall, AskedOK, InstallerOK, TransferOK,
   InboxOK, SavedOK

\* The answer of a check: a download begins only of what was asked for, and is
\* newer.
LEMMA TakeResultKeeps ==
  ASSUME PageInv, TakeResult
  PROVE  PageInv'
<1> DEFINE rows == [c \in Channels |->
                      LET f == Head(inbox).found[c] IN
                      IF Installable(f) THEN f.release.build ELSE page.rows[c]]
<1>1. PICK m \in Message : m = Head(inbox)
  BY DEF PageInv, InboxOK, TakeResult
<1>2. AllNewer(m.found)
  BY <1>1 DEF PageInv, InboxOK, NewerOK, TakeResult
<1>3. \A c \in Channels : m.found[c] \in Found /\ m.found[c].release.build \in Nat
  BY <1>1 DEF Message, Found, Manifests, Builds, Unpublished, Release
<1>4. page.rows \in [Channels -> Nat]
  BY DEF PageInv, PageOK
<1>5. PICK new : new = rows
  OBVIOUS
<1>6. /\ new \in [Channels -> Nat]
      /\ \A c \in Channels : new[c] # NoSetup => new[c] > Installed.build
  BY <1>1, <1>2, <1>3, <1>4, <1>5 DEF PageInv, NewerOK, AllNewer, Newer
<1>7. /\ inbox' = Tail(inbox) /\ inbox # <<>> /\ page.window
      /\ UNCHANGED <<checker, saved, site>>
      /\ \/ /\ installer.installing
            /\ page' = [page EXCEPT !.after = NoChannel]
            /\ UNCHANGED <<installer, transfer, asked>>
         \/ /\ ~installer.installing
            /\ page.after # NoChannel /\ new[page.after] # NoSetup
            /\ StartDownload(page.after, new)
         \/ /\ ~installer.installing
            /\ page' = [page EXCEPT !.button = TRUE, !.rows = new, !.after = NoChannel]
            /\ UNCHANGED <<installer, transfer, asked>>
  BY <1>5 DEF TakeResult, AfterThis
<1>8. SiteOK' /\ CheckerOK' /\ Installed' = Installed
  BY <1>7 DEF PageInv, SiteOK, CheckerOK, Installed
<1>9. /\ PageOK' /\ page'.window = page.window /\ page'.after = NoChannel
      /\ page'.rows \in {page.rows, new}
  BY <1>6, <1>7 DEF PageInv, PageOK, StartDownload, AfterThis
<1>10. InboxOK'
  BY <1>7, <1>9 DEF PageInv, InboxOK
<1>11. NewerOK'
  <2>1. /\ AllNewer(checker.found)'
        /\ \A c \in Channels :
             page'.rows[c] # NoSetup => page'.rows[c] > Installed'.build
    BY <1>6, <1>7, <1>8, <1>9 DEF PageInv, NewerOK, AllNewer, Newer, Installable
  <2>2. ASSUME NEW i \in 1..Len(inbox')
        PROVE  i + 1 \in 1..Len(inbox) /\ inbox'[i] = inbox[i + 1]
    BY <1>7 DEF PageInv, InboxOK
  <2>3. \A i \in 1..Len(inbox') : AllNewer(inbox'[i].found)
    BY <2>2 DEF PageInv, NewerOK
  <2>4. \A i \in 1..Len(inbox') : AllNewer(inbox[i].found)'
    BY <2>3, <1>8 DEF AllNewer, Newer, Installable
  <2> QED BY <2>1, <2>4 DEF NewerOK
<1>12. CASE UNCHANGED <<installer, transfer, asked>>
  BY <1>7, <1>8, <1>9, <1>10, <1>11, <1>12
    DEF PageInv, InstallerOK, TransferOK, AskedOK, SavedOK, NoChannel
<1>13. CASE /\ ~installer.installing
            /\ page.after # NoChannel /\ new[page.after] # NoSetup
            /\ StartDownload(page.after, new)
  <2>1. PICK c \in Channels : c = page.after
    BY <1>13 DEF PageInv, PageOK
  <2>2. /\ installer' = [installing |-> TRUE, at |-> "look", channel |-> c, build |-> new[c]]
        /\ transfer' = [transfer EXCEPT !.cancelled = FALSE]
        /\ asked' = [open |-> NoChannel, used |-> asked.open]
        /\ new[c] # NoSetup /\ new[c] \in Nat /\ new[c] > Installed.build
    BY <1>6, <1>13, <2>1 DEF StartDownload
  <2>3. installer.at = "none" /\ ~transfer.active /\ ~transfer.stopped /\ asked.open = c
    BY <1>13, <2>1 DEF PageInv, InstallerOK, TransferOK, AskedOK
  <2>4. InstallerOK'
    BY <1>8, <2>2 DEF InstallerOK
  <2>5. TransferOK' /\ AskedOK' /\ SavedOK'
    BY <1>7, <1>9, <2>2, <2>3 DEF PageInv, TransferOK, AskedOK, SavedOK, NoChannel
  <2> QED BY <1>8, <1>9, <1>10, <1>11, <2>4, <2>5 DEF PageInv
<1> QED BY <1>7, <1>12, <1>13

\* A failed download gives the buttons back.
LEMMA TakeFailureKeeps ==
  ASSUME PageInv, TakeFailure
  PROVE  PageInv'
<1>1. PageOK'
  BY DEF PageInv, PageOK, SiteOK, InboxOK, TakeFailure
<1>2. InboxOK'
  BY DEF PageInv, InboxOK, PageOK, CheckerOK, TakeFailure
<1>3. AskedOK'
  BY DEF PageInv, AskedOK, PageOK, InstallerOK, TakeFailure
<1>4. NewerOK'
  BY DEF PageInv, NewerOK, SiteOK, PageOK, CheckerOK, InboxOK, AllNewer, Newer, Installed,
     Installable, TakeFailure
<1> QED BY <1>1, <1>2, <1>3, <1>4 DEF PageInv, SiteOK, CheckerOK, InstallerOK, TransferOK,
     SavedOK, AllNewer, Newer, Installed, Installable, TakeFailure

\* The checker's thread.
LEMMA ResolvedKeeps ==
  ASSUME PageInv, NEW c \in Channels, Resolved(c)
  PROVE  PageInv'
<1>1. CheckerOK'
  BY PublishedIsSound DEF PageInv, CheckerOK, Resolved, Resolve, NextChannel, Channels
<1>2. NewerOK'
  BY PublishedIsSound DEF PageInv, NewerOK, SiteOK, PageOK, CheckerOK, InboxOK, AllNewer,
     Newer, Installed, Installable, Resolved, Resolve, NextChannel, Channels
<1> QED BY <1>1, <1>2 DEF PageInv, SiteOK, PageOK, InstallerOK, TransferOK, InboxOK, AskedOK,
     SavedOK, AllNewer, Newer, Installed, Installable, Resolved, Resolve, NextChannel, Channels

LEMMA UnresolvedKeeps ==
  ASSUME PageInv, NEW c \in Channels, Unresolved(c)
  PROVE  PageInv'
<1>1. SiteOK'
  BY DEF PageInv, SiteOK, Unresolved, Resolve, Trouble, NextChannel, Failed, Finding, Found,
     Channels
<1>2. CheckerOK'
  BY DEF PageInv, CheckerOK, Unresolved, Resolve, Trouble, NextChannel, Failed, Finding, Found,
     Channels
<1>3. InstallerOK'
  BY DEF PageInv, InstallerOK, SiteOK, Installed, Unresolved, Resolve, Trouble, NextChannel,
     Failed, Finding, Found, Channels
<1>4. NewerOK'
  BY DEF PageInv, NewerOK, SiteOK, PageOK, CheckerOK, InboxOK, AllNewer, Newer, Installed,
     Installable, Unresolved, Resolve, Trouble, NextChannel, Failed, Finding, Found, Channels
<1> QED BY <1>1, <1>2, <1>3, <1>4 DEF PageInv, PageOK, TransferOK, InboxOK, AskedOK, SavedOK,
     AllNewer, Newer, Installed, Installable, Unresolved, Resolve, Trouble, NextChannel, Failed,
     Finding, Found, Channels

LEMMA PostResultKeeps ==
  ASSUME PageInv, PostResult
  PROVE  PageInv'
<1>1. CheckerOK'
  BY DEF PageInv, CheckerOK, PostResult, Post, Checks, Message
<1>2. InboxOK'
  BY PostedIsMessage DEF PageInv, InboxOK, PageOK, CheckerOK, PostResult, Post, Checks, Message
<1>3. NewerOK'
  BY DEF PageInv, NewerOK, SiteOK, PageOK, CheckerOK, InboxOK, AllNewer, Newer, Installed,
     Installable, PostResult, Post, Checks, Message
<1> QED BY <1>1, <1>2, <1>3 DEF PageInv, SiteOK, PageOK, InstallerOK, TransferOK, AskedOK,
     SavedOK, AllNewer, Newer, Installed, Installable, PostResult, Post, Checks, Message

LEMMA EndCheckKeeps ==
  ASSUME PageInv, EndCheck
  PROVE  PageInv'
<1>1. CheckerOK'
  BY DEF PageInv, CheckerOK, EndCheck, NotChecking, Failed, Finding, Found
<1>2. NewerOK'
  BY DEF PageInv, NewerOK, SiteOK, PageOK, CheckerOK, InboxOK, AllNewer, Newer, Installed,
     Installable, EndCheck, NotChecking, Failed, Finding, Found
<1> QED BY <1>1, <1>2 DEF PageInv, SiteOK, PageOK, InstallerOK, TransferOK, InboxOK, AskedOK,
           SavedOK, AllNewer, Newer, Installed, Installable, EndCheck, NotChecking, Failed,
           Finding, Found

\* The installer's thread, step by step.
LEMMA LookKeeps ==
  ASSUME PageInv, Look
  PROVE  PageInv'
<1>1. InstallerOK'
  BY DEF PageInv, InstallerOK, SiteOK, Installed, Look, Installs, Matches
<1>2. TransferOK'
  BY DEF PageInv, TransferOK, InstallerOK, Look, Installs, Matches
<1>3. AskedOK'
  BY DEF PageInv, AskedOK, PageOK, InstallerOK, Look, Installs, Matches
<1>4. SavedOK'
  BY DEF PageInv, SavedOK, InstallerOK, Look, Installs, Matches
<1> QED BY <1>1, <1>2, <1>3, <1>4 DEF PageInv, SiteOK, PageOK, CheckerOK, InboxOK, NewerOK,
     AllNewer, Newer, Installed, Installable, Look, Installs, Matches

LEMMA RequestKeeps ==
  ASSUME PageInv, Request
  PROVE  PageInv'
<1>1. InstallerOK'
  BY DEF PageInv, InstallerOK, SiteOK, Installed, Request, Installs
<1>2. TransferOK'
  BY DEF PageInv, TransferOK, InstallerOK, Request, Installs
<1>3. AskedOK'
  BY DEF PageInv, AskedOK, PageOK, InstallerOK, Request, Installs
<1>4. SavedOK'
  BY DEF PageInv, SavedOK, InstallerOK, Request, Installs
<1> QED BY <1>1, <1>2, <1>3, <1>4 DEF PageInv, SiteOK, PageOK, CheckerOK, InboxOK, NewerOK,
     AllNewer, Newer, Installed, Installable, Request, Installs

LEMMA RememberKeeps ==
  ASSUME PageInv, Remember
  PROVE  PageInv'
<1>1. InstallerOK'
  BY DEF PageInv, InstallerOK, SiteOK, Installed, Remember, Remembered, Installs
<1>2. TransferOK'
  BY DEF PageInv, TransferOK, InstallerOK, Remember, Remembered, Installs
<1>3. AskedOK'
  BY DEF PageInv, AskedOK, PageOK, InstallerOK, Remember, Remembered, Installs
<1>4. SavedOK'
  BY DEF PageInv, SavedOK, InstallerOK, Remember, Remembered, Installs
<1> QED BY <1>1, <1>2, <1>3, <1>4 DEF PageInv, SiteOK, PageOK, CheckerOK, InboxOK, NewerOK,
     AllNewer, Newer, Installed, Installable, Remember, Remembered, Installs

LEMMA ArriveKeeps ==
  ASSUME PageInv, Arrive
  PROVE  PageInv'
<1>1. InstallerOK'
  BY DEF PageInv, InstallerOK, SiteOK, Installed, Arrive, Installs
<1>2. TransferOK'
  BY DEF PageInv, TransferOK, InstallerOK, Arrive, Installs
<1>3. AskedOK'
  BY DEF PageInv, AskedOK, PageOK, InstallerOK, Arrive, Installs
<1>4. SavedOK'
  BY DEF PageInv, SavedOK, InstallerOK, Arrive, Installs
<1> QED BY <1>1, <1>2, <1>3, <1>4 DEF PageInv, SiteOK, PageOK, CheckerOK, InboxOK, NewerOK,
     AllNewer, Newer, Installed, Installable, Arrive, Installs

LEMMA InterruptedKeeps ==
  ASSUME PageInv, Interrupted
  PROVE  PageInv'
<1>1. InstallerOK'
  BY DEF PageInv, InstallerOK, SiteOK, Installed, Interrupted, Throw, Installs
<1>2. TransferOK'
  BY DEF PageInv, TransferOK, InstallerOK, Interrupted, Throw, Installs
<1>3. AskedOK'
  BY DEF PageInv, AskedOK, PageOK, InstallerOK, Interrupted, Throw, Installs
<1>4. SavedOK'
  BY DEF PageInv, SavedOK, InstallerOK, Interrupted, Throw, Installs
<1> QED BY <1>1, <1>2, <1>3, <1>4 DEF PageInv, SiteOK, PageOK, CheckerOK, InboxOK, NewerOK,
     AllNewer, Newer, Installed, Installable, Interrupted, Throw, Installs

LEMMA BrokenKeeps ==
  ASSUME PageInv, Broken
  PROVE  PageInv'
<1>1. SiteOK'
  BY DEF PageInv, SiteOK, Broken, Throw, Installs, Trouble
<1>2. InstallerOK'
  BY DEF PageInv, InstallerOK, SiteOK, Installed, Broken, Throw, Installs, Trouble
<1>3. TransferOK'
  BY DEF PageInv, TransferOK, InstallerOK, Broken, Throw, Installs, Trouble
<1>4. AskedOK'
  BY DEF PageInv, AskedOK, PageOK, InstallerOK, Broken, Throw, Installs, Trouble
<1>5. SavedOK'
  BY DEF PageInv, SavedOK, InstallerOK, Broken, Throw, Installs, Trouble
<1>6. NewerOK'
  BY DEF PageInv, NewerOK, SiteOK, PageOK, CheckerOK, InboxOK, AllNewer, Newer, Installed,
     Installable, Broken, Throw, Installs, Trouble
<1> QED BY <1>1, <1>2, <1>3, <1>4, <1>5, <1>6 DEF PageInv, PageOK, CheckerOK, InboxOK,
     AllNewer, Newer, Installed, Installable, Broken, Throw, Installs, Trouble

LEMMA FinishKeeps ==
  ASSUME PageInv, Finish
  PROVE  PageInv'
<1>1. InstallerOK'
  BY DEF PageInv, InstallerOK, SiteOK, Installed, Finish, Installs
<1>2. TransferOK'
  BY DEF PageInv, TransferOK, InstallerOK, Finish, Installs
<1>3. AskedOK'
  BY DEF PageInv, AskedOK, PageOK, InstallerOK, Finish, Installs
<1>4. SavedOK'
  BY DEF PageInv, SavedOK, InstallerOK, Finish, Installs
<1> QED BY <1>1, <1>2, <1>3, <1>4 DEF PageInv, SiteOK, PageOK, CheckerOK, InboxOK, NewerOK,
     AllNewer, Newer, Installed, Installable, Finish, Installs

LEMMA MismatchKeeps ==
  ASSUME PageInv, Mismatch
  PROVE  PageInv'
<1>1. SiteOK'
  BY DEF PageInv, SiteOK, Mismatch, Throw, Installs, Trouble
<1>2. InstallerOK'
  BY DEF PageInv, InstallerOK, SiteOK, Installed, Mismatch, Throw, Installs, Trouble
<1>3. TransferOK'
  BY DEF PageInv, TransferOK, InstallerOK, Mismatch, Throw, Installs, Trouble
<1>4. AskedOK'
  BY DEF PageInv, AskedOK, PageOK, InstallerOK, Mismatch, Throw, Installs, Trouble
<1>5. SavedOK'
  BY DEF PageInv, SavedOK, InstallerOK, Mismatch, Throw, Installs, Trouble
<1>6. NewerOK'
  BY DEF PageInv, NewerOK, SiteOK, PageOK, CheckerOK, InboxOK, AllNewer, Newer, Installed,
     Installable, Mismatch, Throw, Installs, Trouble
<1> QED BY <1>1, <1>2, <1>3, <1>4, <1>5, <1>6 DEF PageInv, PageOK, CheckerOK, InboxOK,
     AllNewer, Newer, Installed, Installable, Mismatch, Throw, Installs, Trouble

LEMMA LockKeeps ==
  ASSUME PageInv, Lock
  PROVE  PageInv'
<1>1. InstallerOK'
  BY DEF PageInv, InstallerOK, SiteOK, Installed, Lock, Installs, Matches
<1>2. TransferOK'
  BY DEF PageInv, TransferOK, InstallerOK, Lock, Installs, Matches
<1>3. AskedOK'
  BY DEF PageInv, AskedOK, PageOK, InstallerOK, Lock, Installs, Matches
<1>4. SavedOK'
  BY DEF PageInv, SavedOK, InstallerOK, Lock, Installs, Matches
<1> QED BY <1>1, <1>2, <1>3, <1>4 DEF PageInv, SiteOK, PageOK, CheckerOK, InboxOK, NewerOK,
     AllNewer, Newer, Installed, Installable, Lock, Installs, Matches

LEMMA GrantKeeps ==
  ASSUME PageInv, Grant
  PROVE  PageInv'
<1>1. InstallerOK'
  BY DEF PageInv, InstallerOK, SiteOK, Installed, Grant, Installs
<1>2. TransferOK'
  BY DEF PageInv, TransferOK, InstallerOK, Grant, Installs
<1>3. AskedOK'
  BY DEF PageInv, AskedOK, PageOK, InstallerOK, Grant, Installs
<1>4. SavedOK'
  BY DEF PageInv, SavedOK, InstallerOK, Grant, Installs
<1> QED BY <1>1, <1>2, <1>3, <1>4 DEF PageInv, SiteOK, PageOK, CheckerOK, InboxOK, NewerOK,
     AllNewer, Newer, Installed, Installable, Grant, Installs

LEMMA RefuseKeeps ==
  ASSUME PageInv, Refuse
  PROVE  PageInv'
<1>1. InstallerOK'
  BY DEF PageInv, InstallerOK, SiteOK, Installed, Refuse, Installs
<1>2. TransferOK'
  BY DEF PageInv, TransferOK, InstallerOK, Refuse, Installs
<1>3. AskedOK'
  BY DEF PageInv, AskedOK, PageOK, InstallerOK, Refuse, Installs
<1>4. SavedOK'
  BY DEF PageInv, SavedOK, InstallerOK, Refuse, Installs
<1> QED BY <1>1, <1>2, <1>3, <1>4 DEF PageInv, SiteOK, PageOK, CheckerOK, InboxOK, NewerOK,
     AllNewer, Newer, Installed, Installable, Refuse, Installs

LEMMA ReportFailureKeeps ==
  ASSUME PageInv, ReportFailure
  PROVE  PageInv'
<1>1. InstallerOK'
  BY DEF PageInv, InstallerOK, SiteOK, Installed, ReportFailure, Post, Installs, Message
<1>2. TransferOK'
  BY DEF PageInv, TransferOK, InstallerOK, ReportFailure, Post, Installs, Message
<1>3. InboxOK'
  BY PostedIsMessage DEF PageInv, InboxOK, PageOK, CheckerOK, ReportFailure, Post, Installs,
     Message
<1>4. AskedOK'
  BY DEF PageInv, AskedOK, PageOK, InstallerOK, ReportFailure, Post, Installs, Message
<1>5. SavedOK'
  BY DEF PageInv, SavedOK, InstallerOK, ReportFailure, Post, Installs, Message
<1>6. NewerOK'
  BY DEF PageInv, NewerOK, SiteOK, PageOK, CheckerOK, InboxOK, AllNewer, Newer, Installed,
     Installable, ReportFailure, Post, Installs, Message
<1> QED BY <1>1, <1>2, <1>3, <1>4, <1>5, <1>6 DEF PageInv, SiteOK, PageOK, CheckerOK, AllNewer,
     Newer, Installed, Installable, ReportFailure, Post, Installs, Message

LEMMA EndInstallKeeps ==
  ASSUME PageInv, EndInstall
  PROVE  PageInv'
<1>1. InstallerOK'
  BY DEF PageInv, InstallerOK, SiteOK, Installed, EndInstall, NotInstalling, NoSetup, NoChannel
<1>2. TransferOK'
  BY DEF PageInv, TransferOK, InstallerOK, EndInstall, NotInstalling, NoSetup, NoChannel
<1>3. AskedOK'
  BY DEF PageInv, AskedOK, PageOK, InstallerOK, EndInstall, NotInstalling, NoSetup, NoChannel
<1>4. SavedOK'
  BY DEF PageInv, SavedOK, InstallerOK, EndInstall, NotInstalling, NoSetup, NoChannel
<1> QED BY <1>1, <1>2, <1>3, <1>4 DEF PageInv, SiteOK, PageOK, CheckerOK, InboxOK, NewerOK,
     AllNewer, Newer, Installed, Installable, EndInstall, NotInstalling, NoSetup, NoChannel

\* The notifier only opens the window.
LEMMA CheckMajorKeeps ==
  ASSUME PageInv, CheckMajor
  PROVE  PageInv'
BY DEF PageInv, SiteOK, PageOK, CheckerOK, InstallerOK, TransferOK, InboxOK, AskedOK, SavedOK,
   NewerOK, AllNewer, Newer, Installed, Installable, CheckMajor, Notifies

LEMMA CheckNoMajorKeeps ==
  ASSUME PageInv, CheckNoMajor
  PROVE  PageInv'
<1>1. SiteOK'
  BY DEF PageInv, SiteOK, CheckNoMajor, Notifies, Trouble
<1>2. InstallerOK'
  BY DEF PageInv, InstallerOK, SiteOK, Installed, CheckNoMajor, Notifies, Trouble
<1>3. NewerOK'
  BY DEF PageInv, NewerOK, SiteOK, PageOK, CheckerOK, InboxOK, AllNewer, Newer, Installed,
     Installable, CheckNoMajor, Notifies, Trouble
<1> QED BY <1>1, <1>2, <1>3 DEF PageInv, PageOK, CheckerOK, TransferOK, InboxOK, AskedOK,
     SavedOK, AllNewer, Newer, Installed, Installable, CheckNoMajor, Notifies, Trouble

LEMMA ToastKeeps ==
  ASSUME PageInv, Toast
  PROVE  PageInv'
BY DEF PageInv, SiteOK, PageOK, CheckerOK, InstallerOK, TransferOK, InboxOK, AskedOK, SavedOK,
   NewerOK, AllNewer, Newer, Installed, Installable, Toast, Notifies

LEMMA ClickToastKeeps ==
  ASSUME PageInv, ClickToast
  PROVE  PageInv'
<1>1. SiteOK'
  BY DEF PageInv, SiteOK, ClickToast, Notifies
<1>2. InstallerOK'
  BY DEF PageInv, InstallerOK, SiteOK, Installed, ClickToast, Notifies
<1>3. NewerOK'
  BY DEF PageInv, NewerOK, SiteOK, PageOK, CheckerOK, InboxOK, AllNewer, Newer, Installed,
     Installable, ClickToast, Notifies
<1> QED BY <1>1, <1>2, <1>3 DEF PageInv, PageOK, CheckerOK, TransferOK, InboxOK, AskedOK,
     SavedOK, AllNewer, Newer, Installed, Installable, ClickToast, Notifies

LEMMA NotifierEndsKeeps ==
  ASSUME PageInv, NotifierEnds
  PROVE  PageInv'
BY DEF PageInv, SiteOK, PageOK, CheckerOK, InstallerOK, TransferOK, InboxOK, AskedOK, SavedOK,
   NewerOK, AllNewer, Newer, Installed, Installable, NotifierEnds, Notifies

LEMMA UnsubscribeKeeps ==
  ASSUME PageInv, Unsubscribe
  PROVE  PageInv'
BY DEF PageInv, SiteOK, PageOK, CheckerOK, InstallerOK, TransferOK, InboxOK, AskedOK, SavedOK,
   NewerOK, AllNewer, Newer, Installed, Installable, Unsubscribe

\* The window goes, the transfer is cancelled, and the service starts again.
LEMMA PageClosesKeeps ==
  ASSUME PageInv, PageCloses
  PROVE  PageInv'
<1>1. PageOK'
  BY DEF PageInv, PageOK, SiteOK, InboxOK, PageCloses, NoRows, NoSetup
<1>2. InboxOK'
  BY DEF PageInv, InboxOK, PageOK, CheckerOK, PageCloses, NoRows, NoSetup
<1>3. AskedOK'
  BY DEF PageInv, AskedOK, PageOK, InstallerOK, PageCloses, NoRows, NoSetup
<1>4. NewerOK'
  BY DEF PageInv, NewerOK, SiteOK, PageOK, CheckerOK, InboxOK, AllNewer, Newer, Installed,
     Installable, PageCloses, NoRows, NoSetup
<1> QED BY <1>1, <1>2, <1>3, <1>4 DEF PageInv, SiteOK, CheckerOK, InstallerOK, TransferOK,
     SavedOK, AllNewer, Newer, Installed, Installable, PageCloses, NoRows, NoSetup

LEMMA CancelTransferKeeps ==
  ASSUME PageInv, CancelTransfer
  PROVE  PageInv'
<1>1. TransferOK'
  BY DEF PageInv, TransferOK, InstallerOK, CancelTransfer
<1> QED BY <1>1 DEF PageInv, SiteOK, PageOK, CheckerOK, InstallerOK, InboxOK, AskedOK, SavedOK,
     NewerOK, AllNewer, Newer, Installed, Installable, CancelTransfer

LEMMA ReopenedKeeps ==
  ASSUME PageInv, Reopened
  PROVE  PageInv'
<1>1. PageOK'
  BY DEF PageInv, PageOK, SiteOK, InboxOK, Reopened, NewPage, NotChecking, NotInstalling,
     NoTransfer, NotAsked, NoRows, NoSetup, NoChannel, Failed, Finding, Found
<1>2. CheckerOK'
  BY DEF PageInv, CheckerOK, Reopened, NewPage, NotChecking, NotInstalling, NoTransfer,
     NotAsked, NoRows, NoSetup, NoChannel, Failed, Finding, Found
<1>3. InstallerOK'
  BY DEF PageInv, InstallerOK, SiteOK, Installed, Reopened, NewPage, NotChecking,
     NotInstalling, NoTransfer, NotAsked, NoRows, NoSetup, NoChannel, Failed, Finding, Found
<1>4. TransferOK'
  BY DEF PageInv, TransferOK, InstallerOK, Reopened, NewPage, NotChecking, NotInstalling,
     NoTransfer, NotAsked, NoRows, NoSetup, NoChannel, Failed, Finding, Found
<1>5. InboxOK'
  BY DEF PageInv, InboxOK, PageOK, CheckerOK, Reopened, NewPage, NotChecking, NotInstalling,
     NoTransfer, NotAsked, NoRows, NoSetup, NoChannel, Failed, Finding, Found
<1>6. AskedOK'
  BY DEF PageInv, AskedOK, PageOK, InstallerOK, Reopened, NewPage, NotChecking, NotInstalling,
     NoTransfer, NotAsked, NoRows, NoSetup, NoChannel, Failed, Finding, Found
<1>7. SavedOK'
  BY DEF PageInv, SavedOK, InstallerOK, Reopened, NewPage, NotChecking, NotInstalling,
     NoTransfer, NotAsked, NoRows, NoSetup, NoChannel, Failed, Finding, Found
<1>8. NewerOK'
  BY DEF PageInv, NewerOK, SiteOK, PageOK, CheckerOK, InboxOK, AllNewer, Newer, Installed,
     Installable, Reopened, NewPage, NotChecking, NotInstalling, NoTransfer, NotAsked, NoRows,
     NoSetup, NoChannel, Failed, Finding, Found
<1> QED BY <1>1, <1>2, <1>3, <1>4, <1>5, <1>6, <1>7, <1>8 DEF PageInv, SiteOK, AllNewer, Newer,
     Installed, Installable, Reopened, NewPage, NotChecking, NotInstalling, NoTransfer, NotAsked,
     NoRows, NoSetup, NoChannel, Failed, Finding, Found

\* The page of the updates and the rest of the window share no variable.
LEMMA PageStepKeeps ==
  ASSUME PageInv, PageStep
  PROVE  PageInv'
<1>1. CASE Show \/ Messages \/ Clicks
  BY <1>1, ShowKeeps, TakeResultKeeps, TakeFailureKeeps, ClickInstallKeeps DEF Messages, Clicks
<1>2. CASE CheckerStep
  BY <1>2, ResolvedKeeps, PostResultKeeps, EndCheckKeeps DEF CheckerStep
<1>3. CASE InstallerStep \/ Prompt
  BY <1>3, LookKeeps, RequestKeeps, RememberKeeps, InterruptedKeeps, FinishKeeps, LockKeeps,
     ReportFailureKeeps, EndInstallKeeps, GrantKeeps, RefuseKeeps
    DEF InstallerStep, Prompt
<1>4. CASE Outside
  BY <1>4, ArriveKeeps, BrokenKeeps, MismatchKeeps, UnresolvedKeeps, PublishKeeps,
     CheckNoMajorKeeps, ClickToastKeeps
    DEF Outside
<1>5. CASE CheckMajor \/ Toast \/ NotifierEnds
  BY <1>5, CheckMajorKeeps, ToastKeeps, NotifierEndsKeeps
<1> QED BY <1>1, <1>2, <1>3, <1>4, <1>5 DEF PageStep

\* Steps of the rest of the window leave the updates alone.
LEMMA PageNothing ==
  ASSUME PageInv, UNCHANGED updates
  PROVE  PageInv'
BY DEF PageInv, SiteOK, PageOK, CheckerOK, InstallerOK, TransferOK, InboxOK, AskedOK, SavedOK,
   NewerOK, AllNewer, Newer, Installed, Installable, updates

-----------------------------------------------------------------------------
(***************************************************************************)
(* The manager.  An operation runs alone, and each part of the disk says   *)
(* how far it has come.                                                    *)
(***************************************************************************)
TrainerStates == {"none", "other", "ours"}
Ops    == {"none", "train", "download", "install", "check", "register"}
Places == {"idle", "begin", "dataset", "train", "training", "trained", "stabilize", "stabilizing",
           "export", "exporting", "complete", "offer", "asset", "place", "publish", "name",
           "unpack", "reselect", "swap", "select", "prune"}
Running == {"training", "stabilizing", "exporting"}

FilesOK ==
  /\ plain \in [Runs -> SUBSET Records] /\ adapters \subseteq Runs
  /\ models \subseteq Models /\ Default \in models
  /\ history \subseteq [run : Runs, parent : 0..MaxRuns, revision : Revisions \union {0}]
  /\ records \subseteq Records /\ erased \subseteq Records
SetupOK ==
  /\ current \in Revisions \union {0} /\ assets \in [Revisions -> SUBSET Assets]
  /\ selected \in Releases \union {0} /\ trainers \in [Releases -> TrainerStates]
Workers == [at : Places, op : Ops, run : 0..MaxRuns, parent : 0..MaxRuns,
            records : SUBSET Records, stabilize : BOOLEAN, revision : Revisions \union {0},
            asset : 1..2, backup : TrainerStates]
WorkerOK == worker \in Workers
WorldOK ==
  /\ up \in {"running", "quitting", "stopped", "killed"}
  /\ world \in [revision : Revisions, release : Releases, run : 0..MaxRuns, faults : Nat,
                kills : Nat, killed : BOOLEAN]
  /\ up = "killed" => world.killed

\* One thing at a time: an operation, or an export, whose thread holds the mutex.
HeldOK ==
  /\ busy \in BOOLEAN /\ busy = (worker.at # "idle")
  /\ cancelling \in BOOLEAN
  /\ worker.at = "idle" => worker.op = "none"
  /\ mutex \in Threads \union {Nobody} /\ (mutex # Nobody => ~busy)
  /\ process \subseteq Threads \union {Worker}
  /\ \A t \in Threads : t \in process => mutex = t
  /\ Worker \in process => worker.op = "train" /\ worker.at \in Running
  /\ up = "killed" => process = {}

\* What a training has brought forth.
RunsOK ==
  /\ Completed \subseteq adapters
  /\ offered \in Completed \union {0} /\ worker.parent \in Completed \union {0}
  /\ worker.op = "train" =>
       /\ worker.at = "begin" => world.run < MaxRuns
       /\ worker.at # "begin" => worker.run # 0
       /\ worker.at \notin {"begin", "offer"} => worker.run \notin Completed
       /\ worker.at \in {"complete", "offer"} => worker.run \in adapters
       /\ worker.at = "offer" => worker.run \in Completed
  /\ worker.op # "train" => worker.run = 0
  /\ worker.run <= world.run /\ \A r \in Completed : r <= world.run

NoText == \A r \in Runs : plain[r] = {}
TextsOK ==
  /\ CompletedLeavesNone
  /\ worker.op = "train" =>
       /\ worker.at \in {"begin", "dataset"} => NoText
       /\ worker.at \in {"stabilize", "stabilizing", "export", "exporting", "complete", "offer"} =>
            plain[worker.run] = {}
       /\ worker.records \intersect erased = {}
       /\ \A r \in Runs : plain[r] # {} => r = worker.run
  /\ OneDataset /\ ErasedTextsStayErased

DownloadOK ==
  /\ PublishedIsComplete
  /\ worker.op = "download" =>
       /\ worker.at = "begin" => worker.asset = 1
       /\ worker.at \in {"asset", "place", "publish", "name"} => worker.revision # 0
       /\ worker.at \in {"asset", "place", "publish"} => current # worker.revision
       /\ worker.at = "name" => current = 0
       /\ worker.at \in {"asset", "place"} /\ worker.asset = 2 =>
            "vocabulary" \in assets[worker.revision]
       /\ worker.at \in {"publish", "name"} => assets[worker.revision] = Assets

\* The directory that is selected is there, or stands aside.
Aside == worker.op = "install" /\ worker.at \in {"swap", "select"} /\ selected = world.release
InstallOK ==
  ~world.killed =>
    /\ selected # 0 /\ Aside => worker.backup # "none"
    /\ selected # 0 /\ ~Aside => trainers[selected] # "none"
    /\ worker.op = "install" /\ worker.at \in {"reselect", "select", "prune"} =>
         trainers[world.release] # "none"
    /\ worker.op = "install" /\ worker.at = "prune" => selected = world.release

ManagerInv ==
  /\ FilesOK /\ SetupOK /\ WorkerOK /\ WorldOK
  /\ HeldOK /\ RunsOK /\ TextsOK /\ DownloadOK /\ InstallOK

\* No training is under way, and nothing is left of one.
Quiet == NoText /\ worker.op # "train"

\* A worker that rests.
LEMMA IdleIsWorker == Idle \in Workers
BY RunsAssumption DEF Idle, Workers, Places, Ops, TrainerStates

\* The model the installer brings is nobody's run.
LEMMA DefaultIsNoRun ==
  ASSUME FilesOK
  PROVE  Completed \subseteq Runs /\ Default \notin Runs /\ Base \notin Runs /\ Default # Base
BY RunsAssumption DEF FilesOK, Completed, Default, Runs, Base

\* An operation begins, is cancelled, or throws.
LEMMA LaunchKeeps ==
  ASSUME ManagerInv, NEW op \in {"check", "download", "install"}, Launch(op)
  PROVE  ManagerInv' /\ (Quiet => Quiet')
<1>1. WorkerOK'
  BY IdleIsWorker DEF WorkerOK, ManagerInv, FilesOK, Workers, Places, Ops, Launch, Launches
<1>2. HeldOK'
  BY RevisionsAssumption DEF ManagerInv, HeldOK, Running, WorkerOK, Workers, Threads, Nobody,
     Worker, Launch, Launches, Idle, files, setup, manager
<1>3. RunsOK'
  BY RevisionsAssumption DEF ManagerInv, RunsOK, Completed, FilesOK, WorkerOK, Workers,
     WorldOK, HeldOK, Launch, Launches, Idle, files, setup, manager
<1>4. TextsOK'
  BY RevisionsAssumption DEF ManagerInv, TextsOK, CompletedLeavesNone, Completed, NoText,
     OneDataset, ErasedTextsStayErased, WorkerOK, Workers, FilesOK, WorldOK, HeldOK, RunsOK,
     Launch, Launches, Idle, files, setup, manager
<1>5. DownloadOK'
  BY RevisionsAssumption DEF ManagerInv, DownloadOK, PublishedIsComplete, SetupOK, WorkerOK,
     Workers, Assets, WorldOK, Launch, Launches, Idle, files, setup, manager
<1>6. InstallOK'
  BY RevisionsAssumption DEF ManagerInv, InstallOK, Aside, SetupOK, WorkerOK, Workers, WorldOK,
     HeldOK, Launch, Launches, Idle, files, setup, manager
<1>7. Quiet => Quiet'
  BY DEF ManagerInv, Quiet, NoText, RunsOK, Launch, Launches, Idle, files, setup, manager
<1> QED BY <1>1, <1>2, <1>3, <1>4, <1>5, <1>6, <1>7 DEF ManagerInv, FilesOK, SetupOK, WorldOK,
     Launch, Launches, Idle, files, setup, manager

LEMMA StartTrainingKeeps ==
  ASSUME ManagerInv, NEW parent \in 0..MaxRuns, NEW stabilize \in BOOLEAN,
         StartTraining(parent, stabilize), NoText
  PROVE  ManagerInv'
<1>1. WorkerOK'
  BY IdleIsWorker DEF WorkerOK, ManagerInv, FilesOK, Workers, Places, Ops, StartTraining,
     Startable
<1>2. HeldOK'
  BY RevisionsAssumption DEF ManagerInv, HeldOK, Running, WorkerOK, Workers, Threads, Nobody,
     Worker, StartTraining, Startable, Idle, files, setup, manager
<1>3. RunsOK'
  BY RevisionsAssumption DEF ManagerInv, RunsOK, Completed, FilesOK, WorkerOK, Workers,
     WorldOK, HeldOK, StartTraining, Startable, Idle, files, setup, manager
<1>4. TextsOK'
  BY RevisionsAssumption DEF ManagerInv, TextsOK, CompletedLeavesNone, Completed, NoText,
     OneDataset, ErasedTextsStayErased, WorkerOK, Workers, FilesOK, WorldOK, HeldOK, RunsOK,
     StartTraining, Startable, Idle, files, setup, manager
<1>5. DownloadOK'
  BY RevisionsAssumption DEF ManagerInv, DownloadOK, PublishedIsComplete, SetupOK, WorkerOK,
     Workers, Assets, WorldOK, StartTraining, Startable, Idle, files, setup, manager
<1>6. InstallOK'
  BY RevisionsAssumption DEF ManagerInv, InstallOK, Aside, SetupOK, WorkerOK, Workers, WorldOK,
     HeldOK, StartTraining, Startable, Idle, files, setup, manager
<1> QED BY <1>1, <1>2, <1>3, <1>4, <1>5, <1>6 DEF ManagerInv, FilesOK, SetupOK, WorldOK,
     StartTraining, Startable, Idle, files, setup, manager

LEMMA CancelKeeps ==
  ASSUME ManagerInv, Cancel
  PROVE  ManagerInv' /\ (Quiet => Quiet')
<1>1. HeldOK'
  BY RevisionsAssumption DEF ManagerInv, HeldOK, Running, WorkerOK, Workers, Threads, Nobody,
     Worker, Cancel, files, setup, manager
<1>2. Quiet => Quiet'
  BY DEF ManagerInv, Quiet, NoText, RunsOK, Cancel, files, setup, manager
<1> QED BY <1>1, <1>2 DEF ManagerInv, FilesOK, SetupOK, WorkerOK, WorldOK, RunsOK, TextsOK,
           CompletedLeavesNone, DownloadOK, InstallOK, Completed, NoText, OneDataset,
           ErasedTextsStayErased, PublishedIsComplete, Aside, Cancel, files, setup, manager

LEMMA CancelledKeeps ==
  ASSUME ManagerInv, Cancelled
  PROVE  ManagerInv' /\ (Quiet => Quiet')
<1>1. FilesOK'
  BY RevisionsAssumption DEF ManagerInv, FilesOK, Models, Completed, Default, Base, Runs,
     WorkerOK, Workers, WorldOK, Cancelled, Stops, Ends, CleansUp, Idle, Polls, At, files, setup,
     manager
<1>2. WorkerOK'
  BY IdleIsWorker DEF WorkerOK, Cancelled, Stops, Ends, CleansUp, Polls, At
<1>3. HeldOK'
  BY RevisionsAssumption DEF ManagerInv, HeldOK, Running, WorkerOK, Workers, Threads, Nobody,
     Worker, Cancelled, Stops, Ends, CleansUp, Idle, Polls, At, files, setup, manager
<1>4. RunsOK'
  BY RevisionsAssumption DEF ManagerInv, RunsOK, Completed, FilesOK, WorkerOK, Workers,
     WorldOK, HeldOK, Cancelled, Stops, Ends, CleansUp, Idle, Polls, At, files, setup, manager
<1>5. TextsOK'
  BY RevisionsAssumption DEF ManagerInv, TextsOK, CompletedLeavesNone, Completed, NoText,
     OneDataset, ErasedTextsStayErased, WorkerOK, Workers, FilesOK, WorldOK, HeldOK, RunsOK,
     Cancelled, Stops, Ends, CleansUp, Idle, Polls, At, files, setup, manager
<1>6. DownloadOK'
  BY RevisionsAssumption DEF ManagerInv, DownloadOK, PublishedIsComplete, SetupOK, WorkerOK,
     Workers, Assets, WorldOK, Cancelled, Stops, Ends, CleansUp, Idle, Polls, At, files, setup,
     manager
<1>7. InstallOK'
  BY RevisionsAssumption DEF ManagerInv, InstallOK, Aside, SetupOK, WorkerOK, Workers, WorldOK,
     HeldOK, Cancelled, Stops, Ends, CleansUp, Idle, Polls, At, files, setup, manager
<1>8. Quiet => Quiet'
  BY DEF ManagerInv, Quiet, NoText, RunsOK, Cancelled, Stops, Ends, CleansUp, Idle, Polls, At,
     files, setup, manager
<1> QED BY <1>1, <1>2, <1>3, <1>4, <1>5, <1>6, <1>7, <1>8 DEF ManagerInv, SetupOK, WorldOK,
     Cancelled, Stops, Ends, CleansUp, Idle, Polls, At, files, setup, manager

LEMMA ThrowsKeeps ==
  ASSUME ManagerInv, Throws
  PROVE  ManagerInv' /\ (Quiet => Quiet')
<1>1. FilesOK'
  BY RevisionsAssumption DEF ManagerInv, FilesOK, Models, Completed, Default, Base, Runs,
     WorkerOK, Workers, WorldOK, Throws, Stops, Ends, CleansUp, Idle, Polls, At, Fault, files,
     setup, manager
<1>2. WorkerOK'
  BY IdleIsWorker DEF WorkerOK, Throws, Stops, Ends, CleansUp, Polls, At, Fault
<1>3. WorldOK'
  BY RevisionsAssumption DEF ManagerInv, WorldOK, Throws, Stops, Ends, CleansUp, Idle, Polls, At,
     Fault, files, setup, manager
<1>4. HeldOK'
  BY RevisionsAssumption DEF ManagerInv, HeldOK, Running, WorkerOK, Workers, Threads, Nobody,
     Worker, Throws, Stops, Ends, CleansUp, Idle, Polls, At, Fault, files, setup, manager
<1>5. RunsOK'
  BY RevisionsAssumption DEF ManagerInv, RunsOK, Completed, FilesOK, WorkerOK, Workers,
     WorldOK, HeldOK, Throws, Stops, Ends, CleansUp, Idle, Polls, At, Fault, files, setup, manager
<1>6. TextsOK'
  BY RevisionsAssumption DEF ManagerInv, TextsOK, CompletedLeavesNone, Completed, NoText,
     OneDataset, ErasedTextsStayErased, WorkerOK, Workers, FilesOK, WorldOK, HeldOK, RunsOK,
     Throws, Stops, Ends, CleansUp, Idle, Polls, At, Fault, files, setup, manager
<1>7. DownloadOK'
  BY RevisionsAssumption DEF ManagerInv, DownloadOK, PublishedIsComplete, SetupOK, WorkerOK,
     Workers, Assets, WorldOK, Throws, Stops, Ends, CleansUp, Idle, Polls, At, Fault, files,
     setup, manager
<1>8. InstallOK'
  BY RevisionsAssumption DEF ManagerInv, InstallOK, Aside, SetupOK, WorkerOK, Workers, WorldOK,
     HeldOK, Throws, Stops, Ends, CleansUp, Idle, Polls, At, Fault, files, setup, manager
<1>9. Quiet => Quiet'
  BY DEF ManagerInv, Quiet, NoText, RunsOK, Throws, Stops, Ends, CleansUp, Idle, Polls, At, Fault,
     files, setup, manager
<1> QED BY <1>1, <1>2, <1>3, <1>4, <1>5, <1>6, <1>7, <1>8, <1>9 DEF ManagerInv, SetupOK,
     Throws, Stops, Ends, CleansUp, Idle, Polls, At, Fault, files, setup, manager

\* A training, step by step.
LEMMA TrainBeginKeeps ==
  ASSUME ManagerInv, TrainBegin
  PROVE  ManagerInv' /\ (Quiet => Quiet')
<1>1. WorkerOK'
  <2>1. world.run + 1 \in 0..MaxRuns
    BY RunsAssumption DEF ManagerInv, WorldOK, RunsOK, TrainBegin, At
  <2>2. PICK revision \in Revisions \union {0} :
          revision = IF worker.parent = 0 THEN current ELSE RunOf(worker.parent).revision
    BY DEF ManagerInv, SetupOK, RunsOK, Completed, RunOf, FilesOK
  <2>3. worker' = [worker EXCEPT !.at = "dataset", !.run = world.run + 1, !.revision = revision]
    BY <2>2 DEF TrainBegin
  <2> QED BY <2>1, <2>3 DEF ManagerInv, WorkerOK, Workers, Places
<1>2. WorldOK'
  BY RunsAssumption DEF ManagerInv, WorldOK, RunsOK, TrainBegin, At
<1>3. HeldOK'
  BY RevisionsAssumption DEF ManagerInv, HeldOK, Running, WorkerOK, Workers, Threads, Nobody,
     Worker, TrainBegin, At, files, setup, manager
<1>4. RunsOK'
  <2>1. /\ worker'.op = "train" /\ worker'.at = "dataset" /\ worker'.run = world.run + 1
        /\ worker'.parent = worker.parent /\ offered' = 0 /\ adapters' = adapters
        /\ world'.run = world.run + 1 /\ world.run \in Nat /\ worker.op = "train"
    BY RunsAssumption DEF ManagerInv, WorkerOK, Workers, WorldOK, TrainBegin, At, files
  <2>2. Completed' = Completed
    BY DEF Completed, TrainBegin, files
  <2>3. /\ Completed \subseteq adapters /\ worker.parent \in Completed \union {0}
        /\ \A r \in Completed : r <= world.run /\ r \in Int
    BY RunsAssumption DEF ManagerInv, RunsOK, FilesOK, Runs
  <2> QED BY <2>1, <2>2, <2>3 DEF RunsOK
<1>5. TextsOK'
  BY RevisionsAssumption DEF ManagerInv, TextsOK, CompletedLeavesNone, Completed, NoText,
     OneDataset, ErasedTextsStayErased, WorkerOK, Workers, FilesOK, WorldOK, HeldOK, RunsOK,
     TrainBegin, At, files, setup, manager
<1>6. DownloadOK'
  BY RevisionsAssumption DEF ManagerInv, DownloadOK, PublishedIsComplete, SetupOK, WorkerOK,
     Workers, Assets, WorldOK, TrainBegin, At, files, setup, manager
<1>7. InstallOK'
  BY RevisionsAssumption DEF ManagerInv, InstallOK, Aside, SetupOK, WorkerOK, Workers, WorldOK,
     HeldOK, TrainBegin, At, files, setup, manager
<1>8. Quiet => Quiet'
  BY DEF ManagerInv, Quiet, NoText, RunsOK, TrainBegin, At, files, setup, manager
<1> QED BY <1>1, <1>2, <1>3, <1>4, <1>5, <1>6, <1>7, <1>8 DEF ManagerInv, FilesOK, SetupOK,
     TrainBegin, At, files, setup, manager

LEMMA TrainRefusedKeeps ==
  ASSUME ManagerInv, TrainRefused
  PROVE  ManagerInv' /\ (Quiet => Quiet')
<1>1. FilesOK'
  BY RevisionsAssumption DEF ManagerInv, FilesOK, Models, Completed, Default, Base, Runs,
     WorkerOK, Workers, WorldOK, TrainRefused, Stops, Ends, CleansUp, Idle, At, files, setup,
     manager
<1>2. WorkerOK'
  BY IdleIsWorker DEF WorkerOK, TrainRefused, Stops, Ends, CleansUp, At
<1>3. HeldOK'
  BY RevisionsAssumption DEF ManagerInv, HeldOK, Running, WorkerOK, Workers, Threads, Nobody,
     Worker, TrainRefused, Stops, Ends, CleansUp, Idle, At, files, setup, manager
<1>4. RunsOK'
  BY RevisionsAssumption DEF ManagerInv, RunsOK, Completed, FilesOK, WorkerOK, Workers,
     WorldOK, HeldOK, TrainRefused, Stops, Ends, CleansUp, Idle, At, files, setup, manager
<1>5. TextsOK'
  BY RevisionsAssumption DEF ManagerInv, TextsOK, CompletedLeavesNone, Completed, NoText,
     OneDataset, ErasedTextsStayErased, WorkerOK, Workers, FilesOK, WorldOK, HeldOK, RunsOK,
     TrainRefused, Stops, Ends, CleansUp, Idle, At, files, setup, manager
<1>6. DownloadOK'
  BY RevisionsAssumption DEF ManagerInv, DownloadOK, PublishedIsComplete, SetupOK, WorkerOK,
     Workers, Assets, WorldOK, TrainRefused, Stops, Ends, CleansUp, Idle, At, files, setup,
     manager
<1>7. InstallOK'
  BY RevisionsAssumption DEF ManagerInv, InstallOK, Aside, SetupOK, WorkerOK, Workers, WorldOK,
     HeldOK, TrainRefused, Stops, Ends, CleansUp, Idle, At, files, setup, manager
<1>8. Quiet => Quiet'
  BY DEF ManagerInv, Quiet, NoText, RunsOK, TrainRefused, Stops, Ends, CleansUp, Idle, At, files,
     setup, manager
<1> QED BY <1>1, <1>2, <1>3, <1>4, <1>5, <1>6, <1>7, <1>8 DEF ManagerInv, SetupOK, WorldOK,
     TrainRefused, Stops, Ends, CleansUp, Idle, At, files, setup, manager

LEMMA WriteDatasetKeeps ==
  ASSUME ManagerInv, WriteDataset
  PROVE  ManagerInv' /\ (Quiet => Quiet')
<1>1. FilesOK'
  BY RevisionsAssumption DEF ManagerInv, FilesOK, Models, Completed, Default, Base, Runs,
     WorkerOK, Workers, WorldOK, WriteDataset, At, Goes, files, setup, manager
<1>2. WorkerOK'
  BY RevisionsAssumption DEF ManagerInv, WorkerOK, Workers, Places, Ops, SetupOK, FilesOK,
     WorldOK, WriteDataset, At, Goes, files, setup, manager
<1>3. HeldOK'
  BY RevisionsAssumption DEF ManagerInv, HeldOK, Running, WorkerOK, Workers, Threads, Nobody,
     Worker, WriteDataset, At, Goes, files, setup, manager
<1>4. RunsOK'
  BY RevisionsAssumption DEF ManagerInv, RunsOK, Completed, FilesOK, WorkerOK, Workers,
     WorldOK, HeldOK, WriteDataset, At, Goes, files, setup, manager
<1>5. TextsOK'
  BY RevisionsAssumption DEF ManagerInv, TextsOK, CompletedLeavesNone, Completed, NoText,
     OneDataset, ErasedTextsStayErased, WorkerOK, Workers, FilesOK, WorldOK, HeldOK, RunsOK,
     WriteDataset, At, Goes, files, setup, manager
<1>6. DownloadOK'
  BY RevisionsAssumption DEF ManagerInv, DownloadOK, PublishedIsComplete, SetupOK, WorkerOK,
     Workers, Assets, WorldOK, WriteDataset, At, Goes, files, setup, manager
<1>7. InstallOK'
  BY RevisionsAssumption DEF ManagerInv, InstallOK, Aside, SetupOK, WorkerOK, Workers, WorldOK,
     HeldOK, WriteDataset, At, Goes, files, setup, manager
<1>8. Quiet => Quiet'
  BY DEF ManagerInv, Quiet, NoText, RunsOK, WriteDataset, At, Goes, files, setup, manager
<1> QED BY <1>1, <1>2, <1>3, <1>4, <1>5, <1>6, <1>7, <1>8 DEF ManagerInv, SetupOK, WorldOK,
     WriteDataset, At, Goes, files, setup, manager

LEMMA TrainKeeps ==
  ASSUME ManagerInv, Train \/ Stabilize \/ Export
  PROVE  ManagerInv' /\ (Quiet => Quiet')
<1>1. WorkerOK'
  BY RevisionsAssumption DEF ManagerInv, WorkerOK, Workers, Places, Ops, SetupOK, FilesOK,
     WorldOK, Train, Stabilize, Export, Starts, At, Goes, files, setup, manager
<1>2. HeldOK'
  <2>1. /\ worker.op = "train" /\ worker.at # "idle" /\ Alive
        /\ worker'.op = "train" /\ worker'.at \in Running
        /\ process' = process \union {Worker} /\ UNCHANGED <<up, busy, mutex, cancelling>>
    BY DEF ManagerInv, WorkerOK, Workers, Running, Train, Stabilize, Export, Starts, At, Goes,
       manager
  <2>2. worker'.at # "idle" /\ up # "killed"
    BY <2>1 DEF Running, Alive
  <2>3. Worker \notin Threads
    BY DEF Worker, Threads
  <2> QED BY <2>1, <2>2, <2>3 DEF ManagerInv, HeldOK
<1>3. RunsOK'
  BY RevisionsAssumption DEF ManagerInv, RunsOK, Completed, FilesOK, WorkerOK, Workers,
     WorldOK, HeldOK, Train, Stabilize, Export, Starts, At, Goes, files, setup, manager
<1>4. TextsOK'
  BY RevisionsAssumption DEF ManagerInv, TextsOK, CompletedLeavesNone, Completed, NoText,
     OneDataset, ErasedTextsStayErased, WorkerOK, Workers, FilesOK, WorldOK, HeldOK, RunsOK,
     Train, Stabilize, Export, Starts, At, Goes, files, setup, manager
<1>5. DownloadOK'
  BY RevisionsAssumption DEF ManagerInv, DownloadOK, PublishedIsComplete, SetupOK, WorkerOK,
     Workers, Assets, WorldOK, Train, Stabilize, Export, Starts, At, Goes, files, setup, manager
<1>6. InstallOK'
  BY RevisionsAssumption DEF ManagerInv, InstallOK, Aside, SetupOK, WorkerOK, Workers, WorldOK,
     HeldOK, Train, Stabilize, Export, Starts, At, Goes, files, setup, manager
<1>7. Quiet => Quiet'
  BY DEF ManagerInv, Quiet, NoText, RunsOK, Train, Stabilize, Export, Starts, At, Goes, files,
     setup, manager
<1> QED BY <1>1, <1>2, <1>3, <1>4, <1>5, <1>6, <1>7 DEF ManagerInv, FilesOK, SetupOK, WorldOK,
     Train, Stabilize, Export, Starts, At, Goes, files, setup, manager

LEMMA TrainedKeeps ==
  ASSUME ManagerInv, Trained
  PROVE  ManagerInv' /\ (Quiet => Quiet')
<1>1. FilesOK'
  <2>1. worker.run \in Runs
    BY RunsAssumption DEF ManagerInv, WorkerOK, Workers, RunsOK, Runs, Trained, Adapted, At
  <2> QED BY <2>1 DEF ManagerInv, FilesOK, Completed, Models, Trained, Adapted, At
<1>2. WorkerOK'
  BY RevisionsAssumption DEF ManagerInv, WorkerOK, Workers, Places, Ops, SetupOK, FilesOK,
     WorldOK, Trained, Adapted, At, Goes, files, setup, manager
<1>3. HeldOK'
  BY RevisionsAssumption DEF ManagerInv, HeldOK, Running, WorkerOK, Workers, Threads, Nobody,
     Worker, Trained, Adapted, At, Goes, files, setup, manager
<1>4. RunsOK'
  BY RevisionsAssumption DEF ManagerInv, RunsOK, Completed, FilesOK, WorkerOK, Workers,
     WorldOK, HeldOK, Trained, Adapted, At, Goes, files, setup, manager
<1>5. TextsOK'
  BY RevisionsAssumption DEF ManagerInv, TextsOK, CompletedLeavesNone, Completed, NoText,
     OneDataset, ErasedTextsStayErased, WorkerOK, Workers, FilesOK, WorldOK, HeldOK, RunsOK,
     Trained, Adapted, At, Goes, files, setup, manager
<1>6. DownloadOK'
  BY RevisionsAssumption DEF ManagerInv, DownloadOK, PublishedIsComplete, SetupOK, WorkerOK,
     Workers, Assets, WorldOK, Trained, Adapted, At, Goes, files, setup, manager
<1>7. InstallOK'
  BY RevisionsAssumption DEF ManagerInv, InstallOK, Aside, SetupOK, WorkerOK, Workers, WorldOK,
     HeldOK, Trained, Adapted, At, Goes, files, setup, manager
<1>8. Quiet => Quiet'
  BY DEF ManagerInv, Quiet, NoText, RunsOK, Trained, Adapted, At, Goes, files, setup, manager
<1> QED BY <1>1, <1>2, <1>3, <1>4, <1>5, <1>6, <1>7, <1>8 DEF ManagerInv, SetupOK, WorldOK,
     Trained, Adapted, At, Goes, files, setup, manager

LEMMA RemoveDatasetKeeps ==
  ASSUME ManagerInv, RemoveDataset
  PROVE  ManagerInv' /\ (Quiet => Quiet')
<1>1. FilesOK'
  BY RevisionsAssumption DEF ManagerInv, FilesOK, Models, Completed, Default, Base, Runs,
     WorkerOK, Workers, WorldOK, RemoveDataset, At, Goes, files, setup, manager
<1>2. WorkerOK'
  BY RevisionsAssumption DEF ManagerInv, WorkerOK, Workers, Places, Ops, SetupOK, FilesOK,
     WorldOK, RemoveDataset, At, Goes, files, setup, manager
<1>3. HeldOK'
  BY RevisionsAssumption DEF ManagerInv, HeldOK, Running, WorkerOK, Workers, Threads, Nobody,
     Worker, RemoveDataset, At, Goes, files, setup, manager
<1>4. RunsOK'
  BY RevisionsAssumption DEF ManagerInv, RunsOK, Completed, FilesOK, WorkerOK, Workers,
     WorldOK, HeldOK, RemoveDataset, At, Goes, files, setup, manager
<1>5. TextsOK'
  <2>1. /\ plain \in [Runs -> SUBSET Records] /\ plain' = [plain EXCEPT ![worker.run] = {}]
        /\ worker.op = "train" /\ worker.run \in Runs /\ Completed \subseteq Runs
        /\ Completed' = Completed /\ UNCHANGED <<records, erased>>
    BY RunsAssumption DEF ManagerInv, FilesOK, RunsOK, WorkerOK, Workers, Completed, Runs,
       RemoveDataset, At
  <2>2. /\ worker'.op = "train" /\ worker'.run = worker.run /\ worker'.records = worker.records
        /\ worker'.at \in {"stabilize", "export"}
    BY <2>1 DEF ManagerInv, WorkerOK, Workers, RemoveDataset, Goes
  <2>3. plain'[worker.run] = {} /\ \A r \in Runs : plain'[r] = plain[r] \/ plain'[r] = {}
    BY <2>1
  <2> QED BY <2>1, <2>2, <2>3
          DEF ManagerInv, TextsOK, CompletedLeavesNone, NoText, OneDataset, ErasedTextsStayErased
<1>6. DownloadOK'
  BY RevisionsAssumption DEF ManagerInv, DownloadOK, PublishedIsComplete, SetupOK, WorkerOK,
     Workers, Assets, WorldOK, RemoveDataset, At, Goes, files, setup, manager
<1>7. InstallOK'
  BY RevisionsAssumption DEF ManagerInv, InstallOK, Aside, SetupOK, WorkerOK, Workers, WorldOK,
     HeldOK, RemoveDataset, At, Goes, files, setup, manager
<1>8. Quiet => Quiet'
  BY DEF ManagerInv, Quiet, NoText, RunsOK, RemoveDataset, At, Goes, files, setup, manager
<1> QED BY <1>1, <1>2, <1>3, <1>4, <1>5, <1>6, <1>7, <1>8 DEF ManagerInv, SetupOK, WorldOK,
     RemoveDataset, At, Goes, files, setup, manager

LEMMA StabilizedKeeps ==
  ASSUME ManagerInv, Stabilized
  PROVE  ManagerInv' /\ (Quiet => Quiet')
<1>1. FilesOK'
  <2>1. worker.run \in Runs
    BY RunsAssumption DEF ManagerInv, WorkerOK, Workers, RunsOK, Runs, Stabilized, At
  <2> QED BY <2>1 DEF ManagerInv, FilesOK, Completed, Models, Stabilized, At
<1>2. WorkerOK'
  BY RevisionsAssumption DEF ManagerInv, WorkerOK, Workers, Places, Ops, SetupOK, FilesOK,
     WorldOK, Stabilized, At, Goes, files, setup, manager
<1>3. HeldOK'
  BY RevisionsAssumption DEF ManagerInv, HeldOK, Running, WorkerOK, Workers, Threads, Nobody,
     Worker, Stabilized, At, Goes, files, setup, manager
<1>4. RunsOK'
  BY RevisionsAssumption DEF ManagerInv, RunsOK, Completed, FilesOK, WorkerOK, Workers,
     WorldOK, HeldOK, Stabilized, At, Goes, files, setup, manager
<1>5. TextsOK'
  BY RevisionsAssumption DEF ManagerInv, TextsOK, CompletedLeavesNone, Completed, NoText,
     OneDataset, ErasedTextsStayErased, WorkerOK, Workers, FilesOK, WorldOK, HeldOK, RunsOK,
     Stabilized, At, Goes, files, setup, manager
<1>6. DownloadOK'
  BY RevisionsAssumption DEF ManagerInv, DownloadOK, PublishedIsComplete, SetupOK, WorkerOK,
     Workers, Assets, WorldOK, Stabilized, At, Goes, files, setup, manager
<1>7. InstallOK'
  BY RevisionsAssumption DEF ManagerInv, InstallOK, Aside, SetupOK, WorkerOK, Workers, WorldOK,
     HeldOK, Stabilized, At, Goes, files, setup, manager
<1>8. Quiet => Quiet'
  BY DEF ManagerInv, Quiet, NoText, RunsOK, Stabilized, At, Goes, files, setup, manager
<1> QED BY <1>1, <1>2, <1>3, <1>4, <1>5, <1>6, <1>7, <1>8 DEF ManagerInv, SetupOK, WorldOK,
     Stabilized, At, Goes, files, setup, manager

LEMMA ExportedKeeps ==
  ASSUME ManagerInv, Exported
  PROVE  ManagerInv' /\ (Quiet => Quiet')
<1>1. FilesOK'
  BY RunsAssumption DEF ManagerInv, WorkerOK, Workers, RunsOK, Runs, Exported, At, FilesOK,
     Completed, Models
<1>2. WorkerOK'
  BY RevisionsAssumption DEF ManagerInv, WorkerOK, Workers, Places, Ops, SetupOK, FilesOK,
     WorldOK, Exported, At, Goes, files, setup, manager
<1>3. HeldOK'
  BY RevisionsAssumption DEF ManagerInv, HeldOK, Running, WorkerOK, Workers, Threads, Nobody,
     Worker, Exported, At, Goes, files, setup, manager
<1>4. RunsOK'
  BY RevisionsAssumption DEF ManagerInv, RunsOK, Completed, FilesOK, WorkerOK, Workers,
     WorldOK, HeldOK, Exported, At, Goes, files, setup, manager
<1>5. TextsOK'
  BY RevisionsAssumption DEF ManagerInv, TextsOK, CompletedLeavesNone, Completed, NoText,
     OneDataset, ErasedTextsStayErased, WorkerOK, Workers, FilesOK, WorldOK, HeldOK, RunsOK,
     Exported, At, Goes, files, setup, manager
<1>6. DownloadOK'
  BY RevisionsAssumption DEF ManagerInv, DownloadOK, PublishedIsComplete, SetupOK, WorkerOK,
     Workers, Assets, WorldOK, Exported, At, Goes, files, setup, manager
<1>7. InstallOK'
  BY RevisionsAssumption DEF ManagerInv, InstallOK, Aside, SetupOK, WorkerOK, Workers, WorldOK,
     HeldOK, Exported, At, Goes, files, setup, manager
<1>8. Quiet => Quiet'
  BY DEF ManagerInv, Quiet, NoText, RunsOK, Exported, At, Goes, files, setup, manager
<1> QED BY <1>1, <1>2, <1>3, <1>4, <1>5, <1>6, <1>7, <1>8 DEF ManagerInv, SetupOK, WorldOK,
     Exported, At, Goes, files, setup, manager

LEMMA CompleteKeeps ==
  ASSUME ManagerInv, Complete
  PROVE  ManagerInv' /\ (Quiet => Quiet')
<1>1. FilesOK'
  BY RunsAssumption DEF ManagerInv, WorkerOK, Workers, RunsOK, Runs, Complete, At, FilesOK,
     Completed, Run
<1>2. WorkerOK'
  BY RevisionsAssumption DEF ManagerInv, WorkerOK, Workers, Places, Ops, SetupOK, FilesOK,
     WorldOK, Complete, At, Goes, Run, files, setup, manager
<1>3. HeldOK'
  BY RevisionsAssumption DEF ManagerInv, HeldOK, Running, WorkerOK, Workers, Threads, Nobody,
     Worker, Complete, At, Goes, Run, files, setup, manager
<1>4. RunsOK'
  <2>0. PICK new : new = Run(worker.run, worker.parent, worker.revision)
    OBVIOUS
  <2>1. Completed' = Completed \union {worker.run}
    BY <2>0 DEF Complete, Run, Completed
  <2>2. /\ worker'.run = worker.run /\ worker'.parent = worker.parent /\ worker'.op = "train"
        /\ worker'.at = "offer" /\ worker.at = "complete" /\ worker.op = "train"
    BY DEF ManagerInv, WorkerOK, Workers, Complete, At, Goes
  <2> QED BY <2>1, <2>2 DEF ManagerInv, RunsOK, Complete
<1>5. TextsOK'
  BY RevisionsAssumption DEF ManagerInv, TextsOK, CompletedLeavesNone, Completed, NoText,
     OneDataset, ErasedTextsStayErased, WorkerOK, Workers, FilesOK, WorldOK, HeldOK, RunsOK,
     Complete, At, Goes, Run, files, setup, manager
<1>6. DownloadOK'
  BY RevisionsAssumption DEF ManagerInv, DownloadOK, PublishedIsComplete, SetupOK, WorkerOK,
     Workers, Assets, WorldOK, Complete, At, Goes, Run, files, setup, manager
<1>7. InstallOK'
  BY RevisionsAssumption DEF ManagerInv, InstallOK, Aside, SetupOK, WorkerOK, Workers, WorldOK,
     HeldOK, Complete, At, Goes, Run, files, setup, manager
<1>8. Quiet => Quiet'
  BY DEF ManagerInv, Quiet, NoText, RunsOK, Complete, At, Goes, Run, files, setup, manager
<1> QED BY <1>1, <1>2, <1>3, <1>4, <1>5, <1>6, <1>7, <1>8 DEF ManagerInv, SetupOK, WorldOK,
     Complete, At, Goes, Run, files, setup, manager

LEMMA NotCompletedKeeps ==
  ASSUME ManagerInv, NotCompleted
  PROVE  ManagerInv' /\ (Quiet => Quiet')
<1>1. FilesOK'
  BY RevisionsAssumption DEF ManagerInv, FilesOK, Models, Completed, Default, Base, Runs,
     WorkerOK, Workers, WorldOK, NotCompleted, Stops, Ends, CleansUp, Idle, At, files, setup,
     manager
<1>2. WorkerOK'
  BY IdleIsWorker DEF WorkerOK, NotCompleted, Stops, Ends, CleansUp, At
<1>3. HeldOK'
  BY RevisionsAssumption DEF ManagerInv, HeldOK, Running, WorkerOK, Workers, Threads, Nobody,
     Worker, NotCompleted, Stops, Ends, CleansUp, Idle, At, files, setup, manager
<1>4. RunsOK'
  BY RevisionsAssumption DEF ManagerInv, RunsOK, Completed, FilesOK, WorkerOK, Workers,
     WorldOK, HeldOK, NotCompleted, Stops, Ends, CleansUp, Idle, At, files, setup, manager
<1>5. TextsOK'
  BY RevisionsAssumption DEF ManagerInv, TextsOK, CompletedLeavesNone, Completed, NoText,
     OneDataset, ErasedTextsStayErased, WorkerOK, Workers, FilesOK, WorldOK, HeldOK, RunsOK,
     NotCompleted, Stops, Ends, CleansUp, Idle, At, files, setup, manager
<1>6. DownloadOK'
  BY RevisionsAssumption DEF ManagerInv, DownloadOK, PublishedIsComplete, SetupOK, WorkerOK,
     Workers, Assets, WorldOK, NotCompleted, Stops, Ends, CleansUp, Idle, At, files, setup,
     manager
<1>7. InstallOK'
  BY RevisionsAssumption DEF ManagerInv, InstallOK, Aside, SetupOK, WorkerOK, Workers, WorldOK,
     HeldOK, NotCompleted, Stops, Ends, CleansUp, Idle, At, files, setup, manager
<1>8. Quiet => Quiet'
  BY DEF ManagerInv, Quiet, NoText, RunsOK, NotCompleted, Stops, Ends, CleansUp, Idle, At, files,
     setup, manager
<1> QED BY <1>1, <1>2, <1>3, <1>4, <1>5, <1>6, <1>7, <1>8 DEF ManagerInv, SetupOK, WorldOK,
     NotCompleted, Stops, Ends, CleansUp, Idle, At, files, setup, manager

LEMMA OfferKeeps ==
  ASSUME ManagerInv, Offer
  PROVE  ManagerInv' /\ (Quiet => Quiet')
<1>1. FilesOK'
  BY RevisionsAssumption DEF ManagerInv, FilesOK, Models, Completed, Default, Base, Runs,
     WorkerOK, Workers, WorldOK, Offer, Ends, CleansUp, Idle, At, files, setup, manager
<1>2. WorkerOK'
  BY IdleIsWorker DEF WorkerOK, Offer, Ends, CleansUp, At
<1>3. HeldOK'
  BY RevisionsAssumption DEF ManagerInv, HeldOK, Running, WorkerOK, Workers, Threads, Nobody,
     Worker, Offer, Ends, CleansUp, Idle, At, files, setup, manager
<1>4. RunsOK'
  BY RevisionsAssumption DEF ManagerInv, RunsOK, Completed, FilesOK, WorkerOK, Workers,
     WorldOK, HeldOK, Offer, Ends, CleansUp, Idle, At, files, setup, manager
<1>5. TextsOK'
  BY RevisionsAssumption DEF ManagerInv, TextsOK, CompletedLeavesNone, Completed, NoText,
     OneDataset, ErasedTextsStayErased, WorkerOK, Workers, FilesOK, WorldOK, HeldOK, RunsOK,
     Offer, Ends, CleansUp, Idle, At, files, setup, manager
<1>6. DownloadOK'
  BY RevisionsAssumption DEF ManagerInv, DownloadOK, PublishedIsComplete, SetupOK, WorkerOK,
     Workers, Assets, WorldOK, Offer, Ends, CleansUp, Idle, At, files, setup, manager
<1>7. InstallOK'
  BY RevisionsAssumption DEF ManagerInv, InstallOK, Aside, SetupOK, WorkerOK, Workers, WorldOK,
     HeldOK, Offer, Ends, CleansUp, Idle, At, files, setup, manager
<1>8. Quiet => Quiet'
  BY DEF ManagerInv, Quiet, NoText, RunsOK, Offer, Ends, CleansUp, Idle, At, files, setup, manager
<1> QED BY <1>1, <1>2, <1>3, <1>4, <1>5, <1>6, <1>7, <1>8 DEF ManagerInv, SetupOK, WorldOK,
     Offer, Ends, CleansUp, Idle, At, files, setup, manager

\* A download: the revision it fetches is never the one that is named.
LEMMA DownloadBeginKeeps ==
  ASSUME ManagerInv, DownloadBegin
  PROVE  ManagerInv' /\ (Quiet => Quiet')
<1>1. /\ worker.op = "download" /\ worker.at = "begin" /\ worker.run = 0 /\ busy = TRUE
      /\ offered' = 0 /\ plain' = plain
      /\ UNCHANGED <<up, adapters, models, history, records, erased, current, assets, selected,
                     trainers, mutex, cancelling, process, world>>
  BY DEF ManagerInv, RunsOK, HeldOK, DownloadBegin, At, Ends, CleansUp, setup
<1>2. CASE Outdated
  <2>1. /\ worker' = [worker EXCEPT !.at = "asset", !.revision = world.revision] /\ busy' = TRUE
        /\ world.revision \in Revisions /\ world.revision # 0
    BY <1>1, <1>2, RevisionsAssumption DEF ManagerInv, WorldOK, DownloadBegin
  <2>2. current # world.revision
    BY <1>2, <2>1 DEF ManagerInv, DownloadOK, PublishedIsComplete, Outdated, ModelComplete
  <2>3. /\ WorkerOK' /\ worker'.op = "download" /\ worker'.at = "asset" /\ worker'.run = 0
        /\ worker'.asset = 1 /\ worker'.revision = world.revision
        /\ worker'.parent = worker.parent
    BY <1>1, <2>1 DEF ManagerInv, WorkerOK, Workers, Places, DownloadOK
  <2>4. FilesOK' /\ SetupOK' /\ WorldOK' /\ HeldOK'
    BY <1>1, <2>1, <2>3 DEF ManagerInv, FilesOK, Completed, SetupOK, WorldOK, HeldOK
  <2>5. RunsOK'
    BY <1>1, <2>3 DEF ManagerInv, RunsOK, Completed
  <2>6. TextsOK' /\ (Quiet => Quiet')
    BY <1>1, <2>3 DEF ManagerInv, TextsOK, CompletedLeavesNone, Completed, NoText, OneDataset,
       ErasedTextsStayErased, Quiet
  <2>7. DownloadOK'
    BY <1>1, <2>1, <2>2, <2>3 DEF ManagerInv, DownloadOK, PublishedIsComplete
  <2>8. InstallOK'
    BY <1>1, <2>3 DEF ManagerInv, InstallOK, Aside
  <2> QED BY <2>3, <2>4, <2>5, <2>6, <2>7, <2>8 DEF ManagerInv
<1>3. CASE ~Outdated
  <2>1. worker' = Idle /\ busy' = FALSE
    BY <1>3 DEF DownloadBegin, Ends, CleansUp
  <2>2. /\ WorkerOK' /\ worker'.op = "none" /\ worker'.at = "idle"
        /\ worker'.run = 0 /\ worker'.parent = 0
    BY <2>1, IdleIsWorker DEF WorkerOK, Idle
  <2> QED BY <1>1, <2>1, <2>2 DEF ManagerInv, FilesOK, SetupOK, WorldOK, HeldOK, RunsOK,
             Completed, TextsOK, CompletedLeavesNone, NoText, OneDataset, ErasedTextsStayErased,
             DownloadOK, PublishedIsComplete, InstallOK, Aside, Quiet
<1> QED BY <1>2, <1>3


LEMMA RemoveAssetKeeps ==
  ASSUME ManagerInv, RemoveAsset
  PROVE  ManagerInv' /\ (Quiet => Quiet')
<1>1. SetupOK'
  BY RevisionsAssumption DEF ManagerInv, SetupOK, WorkerOK, Workers, WorldOK, RemoveAsset,
     AssetOrder, At, Goes, files, setup, manager
<1>2. WorkerOK'
  BY RevisionsAssumption DEF ManagerInv, WorkerOK, Workers, Places, Ops, SetupOK, FilesOK,
     WorldOK, RemoveAsset, AssetOrder, At, Goes, files, setup, manager
<1>3. HeldOK'
  BY RevisionsAssumption DEF ManagerInv, HeldOK, Running, WorkerOK, Workers, Threads, Nobody,
     Worker, RemoveAsset, AssetOrder, At, Goes, files, setup, manager
<1>4. RunsOK'
  BY RevisionsAssumption DEF ManagerInv, RunsOK, Completed, FilesOK, WorkerOK, Workers,
     WorldOK, HeldOK, RemoveAsset, AssetOrder, At, Goes, files, setup, manager
<1>5. TextsOK'
  BY RevisionsAssumption DEF ManagerInv, TextsOK, CompletedLeavesNone, Completed, NoText,
     OneDataset, ErasedTextsStayErased, WorkerOK, Workers, FilesOK, WorldOK, HeldOK, RunsOK,
     RemoveAsset, AssetOrder, At, Goes, files, setup, manager
<1>6. DownloadOK'
  BY RevisionsAssumption DEF ManagerInv, DownloadOK, PublishedIsComplete, SetupOK, WorkerOK,
     Workers, Assets, WorldOK, RemoveAsset, AssetOrder, At, Goes, files, setup, manager
<1>7. InstallOK'
  BY RevisionsAssumption DEF ManagerInv, InstallOK, Aside, SetupOK, WorkerOK, Workers, WorldOK,
     HeldOK, RemoveAsset, AssetOrder, At, Goes, files, setup, manager
<1>8. Quiet => Quiet'
  BY DEF ManagerInv, Quiet, NoText, RunsOK, RemoveAsset, AssetOrder, At, Goes, files, setup,
     manager
<1> QED BY <1>1, <1>2, <1>3, <1>4, <1>5, <1>6, <1>7, <1>8 DEF ManagerInv, FilesOK, WorldOK,
     RemoveAsset, AssetOrder, At, Goes, files, setup, manager

LEMMA PlaceAssetKeeps ==
  ASSUME ManagerInv, PlaceAsset
  PROVE  ManagerInv' /\ (Quiet => Quiet')
<1>1. SetupOK'
  BY DEF ManagerInv, DownloadOK, WorkerOK, Workers, Assets, AssetOrder, PlaceAsset, At,
     SetupOK
<1>2. WorkerOK'
  <2>1. worker.asset # Len(AssetOrder) => worker.asset + 1 \in 1..2
    BY DEF ManagerInv, WorkerOK, Workers, AssetOrder
  <2> QED BY <2>1 DEF ManagerInv, WorkerOK, Workers, Places, PlaceAsset
<1>3. HeldOK'
  BY RevisionsAssumption DEF ManagerInv, HeldOK, Running, WorkerOK, Workers, Threads, Nobody,
     Worker, PlaceAsset, AssetOrder, At, files, setup, manager
<1>4. RunsOK'
  BY RevisionsAssumption DEF ManagerInv, RunsOK, Completed, FilesOK, WorkerOK, Workers,
     WorldOK, HeldOK, PlaceAsset, AssetOrder, At, files, setup, manager
<1>5. TextsOK'
  BY RevisionsAssumption DEF ManagerInv, TextsOK, CompletedLeavesNone, Completed, NoText,
     OneDataset, ErasedTextsStayErased, WorkerOK, Workers, FilesOK, WorldOK, HeldOK, RunsOK,
     PlaceAsset, AssetOrder, At, files, setup, manager
<1>6. DownloadOK'
  BY RevisionsAssumption DEF ManagerInv, DownloadOK, PublishedIsComplete, SetupOK, WorkerOK,
     Workers, Assets, WorldOK, PlaceAsset, AssetOrder, At, files, setup, manager
<1>7. InstallOK'
  BY RevisionsAssumption DEF ManagerInv, InstallOK, Aside, SetupOK, WorkerOK, Workers, WorldOK,
     HeldOK, PlaceAsset, AssetOrder, At, files, setup, manager
<1>8. Quiet => Quiet'
  BY DEF ManagerInv, Quiet, NoText, RunsOK, PlaceAsset, AssetOrder, At, files, setup, manager
<1> QED BY <1>1, <1>2, <1>3, <1>4, <1>5, <1>6, <1>7, <1>8 DEF ManagerInv, FilesOK, WorldOK,
     PlaceAsset, AssetOrder, At, files, setup, manager

LEMMA RemoveCurrentKeeps ==
  ASSUME ManagerInv, RemoveCurrent
  PROVE  ManagerInv' /\ (Quiet => Quiet')
<1>1. SetupOK'
  BY RevisionsAssumption DEF ManagerInv, SetupOK, WorkerOK, Workers, WorldOK, RemoveCurrent,
     At, Goes, files, setup, manager
<1>2. WorkerOK'
  BY RevisionsAssumption DEF ManagerInv, WorkerOK, Workers, Places, Ops, SetupOK, FilesOK,
     WorldOK, RemoveCurrent, At, Goes, files, setup, manager
<1>3. HeldOK'
  BY RevisionsAssumption DEF ManagerInv, HeldOK, Running, WorkerOK, Workers, Threads, Nobody,
     Worker, RemoveCurrent, At, Goes, files, setup, manager
<1>4. RunsOK'
  BY RevisionsAssumption DEF ManagerInv, RunsOK, Completed, FilesOK, WorkerOK, Workers,
     WorldOK, HeldOK, RemoveCurrent, At, Goes, files, setup, manager
<1>5. TextsOK'
  BY RevisionsAssumption DEF ManagerInv, TextsOK, CompletedLeavesNone, Completed, NoText,
     OneDataset, ErasedTextsStayErased, WorkerOK, Workers, FilesOK, WorldOK, HeldOK, RunsOK,
     RemoveCurrent, At, Goes, files, setup, manager
<1>6. DownloadOK'
  BY RevisionsAssumption DEF ManagerInv, DownloadOK, PublishedIsComplete, SetupOK, WorkerOK,
     Workers, Assets, WorldOK, RemoveCurrent, At, Goes, files, setup, manager
<1>7. InstallOK'
  BY RevisionsAssumption DEF ManagerInv, InstallOK, Aside, SetupOK, WorkerOK, Workers, WorldOK,
     HeldOK, RemoveCurrent, At, Goes, files, setup, manager
<1>8. Quiet => Quiet'
  BY DEF ManagerInv, Quiet, NoText, RunsOK, RemoveCurrent, At, Goes, files, setup, manager
<1> QED BY <1>1, <1>2, <1>3, <1>4, <1>5, <1>6, <1>7, <1>8 DEF ManagerInv, FilesOK, WorldOK,
     RemoveCurrent, At, Goes, files, setup, manager

LEMMA NameRevisionKeeps ==
  ASSUME ManagerInv, NameRevision
  PROVE  ManagerInv' /\ (Quiet => Quiet')
<1>1. FilesOK'
  BY RevisionsAssumption DEF ManagerInv, FilesOK, Models, Completed, Default, Base, Runs,
     WorkerOK, Workers, WorldOK, NameRevision, Ends, CleansUp, Idle, At, files, setup, manager
<1>2. SetupOK'
  BY RevisionsAssumption DEF ManagerInv, SetupOK, WorkerOK, Workers, WorldOK, NameRevision,
     Ends, CleansUp, Idle, At, files, setup, manager
<1>3. WorkerOK'
  BY IdleIsWorker DEF WorkerOK, NameRevision, Ends, CleansUp, At
<1>4. HeldOK'
  BY RevisionsAssumption DEF ManagerInv, HeldOK, Running, WorkerOK, Workers, Threads, Nobody,
     Worker, NameRevision, Ends, CleansUp, Idle, At, files, setup, manager
<1>5. RunsOK'
  BY RevisionsAssumption DEF ManagerInv, RunsOK, Completed, FilesOK, WorkerOK, Workers,
     WorldOK, HeldOK, NameRevision, Ends, CleansUp, Idle, At, files, setup, manager
<1>6. TextsOK'
  BY RevisionsAssumption DEF ManagerInv, TextsOK, CompletedLeavesNone, Completed, NoText,
     OneDataset, ErasedTextsStayErased, WorkerOK, Workers, FilesOK, WorldOK, HeldOK, RunsOK,
     NameRevision, Ends, CleansUp, Idle, At, files, setup, manager
<1>7. DownloadOK'
  BY RevisionsAssumption DEF ManagerInv, DownloadOK, PublishedIsComplete, SetupOK, WorkerOK,
     Workers, Assets, WorldOK, NameRevision, Ends, CleansUp, Idle, At, files, setup, manager
<1>8. InstallOK'
  BY RevisionsAssumption DEF ManagerInv, InstallOK, Aside, SetupOK, WorkerOK, Workers, WorldOK,
     HeldOK, NameRevision, Ends, CleansUp, Idle, At, files, setup, manager
<1>9. Quiet => Quiet'
  BY DEF ManagerInv, Quiet, NoText, RunsOK, NameRevision, Ends, CleansUp, Idle, At, files, setup,
     manager
<1> QED BY <1>1, <1>2, <1>3, <1>4, <1>5, <1>6, <1>7, <1>8, <1>9 DEF ManagerInv, WorldOK,
     NameRevision, Ends, CleansUp, Idle, At, files, setup, manager

LEMMA RenameFailsKeeps ==
  ASSUME ManagerInv, RenameFails
  PROVE  ManagerInv' /\ (Quiet => Quiet')
<1>1. FilesOK'
  BY RevisionsAssumption DEF ManagerInv, FilesOK, Models, Completed, Default, Base, Runs,
     WorkerOK, Workers, WorldOK, RenameFails, Stops, Ends, CleansUp, Idle, At, Fault, files,
     setup, manager
<1>2. WorkerOK'
  BY IdleIsWorker DEF WorkerOK, RenameFails, Stops, Ends, CleansUp, At, Fault
<1>3. WorldOK'
  BY RevisionsAssumption DEF ManagerInv, WorldOK, RenameFails, Stops, Ends, CleansUp, Idle, At,
     Fault, files, setup, manager
<1>4. HeldOK'
  BY RevisionsAssumption DEF ManagerInv, HeldOK, Running, WorkerOK, Workers, Threads, Nobody,
     Worker, RenameFails, Stops, Ends, CleansUp, Idle, At, Fault, files, setup, manager
<1>5. RunsOK'
  BY RevisionsAssumption DEF ManagerInv, RunsOK, Completed, FilesOK, WorkerOK, Workers,
     WorldOK, HeldOK, RenameFails, Stops, Ends, CleansUp, Idle, At, Fault, files, setup, manager
<1>6. TextsOK'
  BY RevisionsAssumption DEF ManagerInv, TextsOK, CompletedLeavesNone, Completed, NoText,
     OneDataset, ErasedTextsStayErased, WorkerOK, Workers, FilesOK, WorldOK, HeldOK, RunsOK,
     RenameFails, Stops, Ends, CleansUp, Idle, At, Fault, files, setup, manager
<1>7. DownloadOK'
  BY RevisionsAssumption DEF ManagerInv, DownloadOK, PublishedIsComplete, SetupOK, WorkerOK,
     Workers, Assets, WorldOK, RenameFails, Stops, Ends, CleansUp, Idle, At, Fault, files, setup,
     manager
<1>8. InstallOK'
  BY RevisionsAssumption DEF ManagerInv, InstallOK, Aside, SetupOK, WorkerOK, Workers, WorldOK,
     HeldOK, RenameFails, Stops, Ends, CleansUp, Idle, At, Fault, files, setup, manager
<1>9. Quiet => Quiet'
  BY DEF ManagerInv, Quiet, NoText, RunsOK, RenameFails, Stops, Ends, CleansUp, Idle, At, Fault,
     files, setup, manager
<1> QED BY <1>1, <1>2, <1>3, <1>4, <1>5, <1>6, <1>7, <1>8, <1>9 DEF ManagerInv, SetupOK,
     RenameFails, Stops, Ends, CleansUp, Idle, At, Fault, files, setup, manager

LEMMA RegistersKeeps ==
  ASSUME ManagerInv, Registers
  PROVE  ManagerInv' /\ (Quiet => Quiet')
<1>1. FilesOK'
  BY RevisionsAssumption DEF ManagerInv, FilesOK, Models, Completed, Default, Base, Runs,
     WorkerOK, Workers, WorldOK, Registers, Ends, CleansUp, Idle, At, files, setup, manager
<1>2. WorkerOK'
  BY IdleIsWorker DEF WorkerOK, Registers, Ends, CleansUp, At
<1>3. HeldOK'
  BY RevisionsAssumption DEF ManagerInv, HeldOK, Running, WorkerOK, Workers, Threads, Nobody,
     Worker, Registers, Ends, CleansUp, Idle, At, files, setup, manager
<1>4. RunsOK'
  BY RevisionsAssumption DEF ManagerInv, RunsOK, Completed, FilesOK, WorkerOK, Workers,
     WorldOK, HeldOK, Registers, Ends, CleansUp, Idle, At, files, setup, manager
<1>5. TextsOK'
  BY RevisionsAssumption DEF ManagerInv, TextsOK, CompletedLeavesNone, Completed, NoText,
     OneDataset, ErasedTextsStayErased, WorkerOK, Workers, FilesOK, WorldOK, HeldOK, RunsOK,
     Registers, Ends, CleansUp, Idle, At, files, setup, manager
<1>6. DownloadOK'
  BY RevisionsAssumption DEF ManagerInv, DownloadOK, PublishedIsComplete, SetupOK, WorkerOK,
     Workers, Assets, WorldOK, Registers, Ends, CleansUp, Idle, At, files, setup, manager
<1>7. InstallOK'
  BY RevisionsAssumption DEF ManagerInv, InstallOK, Aside, SetupOK, WorkerOK, Workers, WorldOK,
     HeldOK, Registers, Ends, CleansUp, Idle, At, files, setup, manager
<1>8. Quiet => Quiet'
  BY DEF ManagerInv, Quiet, NoText, RunsOK, Registers, Ends, CleansUp, Idle, At, files, setup,
     manager
<1> QED BY <1>1, <1>2, <1>3, <1>4, <1>5, <1>6, <1>7, <1>8 DEF ManagerInv, SetupOK, WorldOK,
     Registers, Ends, CleansUp, Idle, At, files, setup, manager

\* An installation: the old directory stands aside until the new one is named.
LEMMA InstallBeginKeeps ==
  ASSUME ManagerInv, InstallBegin
  PROVE  ManagerInv' /\ (Quiet => Quiet')
<1>1. /\ worker.op = "install" /\ worker.at = "begin" /\ worker.run = 0
      /\ \/ trainers[world.release] = "ours" /\ worker' = [worker EXCEPT !.at = "reselect"]
         \/ worker' = [worker EXCEPT !.at = "unpack"]
      /\ UNCHANGED <<up, busy, mutex, cancelling, process, offered, world>>
      /\ UNCHANGED <<plain, adapters, models, history, records, erased>>
      /\ UNCHANGED <<current, assets, selected, trainers>>
  BY DEF ManagerInv, RunsOK, InstallBegin, At, Goes, files, setup
<1>2. /\ WorkerOK' /\ worker'.op = "install" /\ worker'.run = 0 /\ worker'.parent = worker.parent
      /\ worker'.at \in {"reselect", "unpack"}
      /\ worker'.at = "reselect" => trainers[world.release] = "ours"
  BY <1>1 DEF ManagerInv, WorkerOK, Workers, Places
<1> QED BY <1>1, <1>2 DEF ManagerInv, FilesOK, SetupOK, WorldOK, HeldOK, RunsOK, Completed,
           TextsOK, CompletedLeavesNone, NoText, OneDataset, ErasedTextsStayErased, DownloadOK,
           PublishedIsComplete, InstallOK, Aside, Quiet


LEMMA UnpackKeeps ==
  ASSUME ManagerInv, Unpack
  PROVE  ManagerInv' /\ (Quiet => Quiet')
<1>1. SetupOK'
  BY DEF ManagerInv, SetupOK, WorldOK, TrainerStates, Unpack
<1>2. WorkerOK'
  BY RevisionsAssumption DEF ManagerInv, WorkerOK, Workers, Places, Ops, SetupOK, FilesOK,
     WorldOK, Unpack, At, files, setup, manager
<1>3. HeldOK'
  BY RevisionsAssumption DEF ManagerInv, HeldOK, Running, WorkerOK, Workers, Threads, Nobody,
     Worker, Unpack, At, files, setup, manager
<1>4. RunsOK'
  BY RevisionsAssumption DEF ManagerInv, RunsOK, Completed, FilesOK, WorkerOK, Workers,
     WorldOK, HeldOK, Unpack, At, files, setup, manager
<1>5. TextsOK'
  BY RevisionsAssumption DEF ManagerInv, TextsOK, CompletedLeavesNone, Completed, NoText,
     OneDataset, ErasedTextsStayErased, WorkerOK, Workers, FilesOK, WorldOK, HeldOK, RunsOK,
     Unpack, At, files, setup, manager
<1>6. DownloadOK'
  BY RevisionsAssumption DEF ManagerInv, DownloadOK, PublishedIsComplete, SetupOK, WorkerOK,
     Workers, Assets, WorldOK, Unpack, At, files, setup, manager
<1>7. InstallOK'
  BY RevisionsAssumption DEF ManagerInv, InstallOK, Aside, SetupOK, WorkerOK, Workers, WorldOK,
     HeldOK, Unpack, At, files, setup, manager
<1>8. Quiet => Quiet'
  BY DEF ManagerInv, Quiet, NoText, RunsOK, Unpack, At, files, setup, manager
<1> QED BY <1>1, <1>2, <1>3, <1>4, <1>5, <1>6, <1>7, <1>8 DEF ManagerInv, FilesOK, WorldOK,
     Unpack, At, files, setup, manager

LEMMA SwapKeeps ==
  ASSUME ManagerInv, Swap
  PROVE  ManagerInv' /\ (Quiet => Quiet')
<1>1. SetupOK'
  BY DEF ManagerInv, SetupOK, WorldOK, TrainerStates, Swap
<1>2. WorkerOK'
  BY RevisionsAssumption DEF ManagerInv, WorkerOK, Workers, Places, Ops, SetupOK, FilesOK,
     WorldOK, Swap, At, Goes, files, setup, manager
<1>3. HeldOK'
  BY RevisionsAssumption DEF ManagerInv, HeldOK, Running, WorkerOK, Workers, Threads, Nobody,
     Worker, Swap, At, Goes, files, setup, manager
<1>4. RunsOK'
  BY RevisionsAssumption DEF ManagerInv, RunsOK, Completed, FilesOK, WorkerOK, Workers,
     WorldOK, HeldOK, Swap, At, Goes, files, setup, manager
<1>5. TextsOK'
  BY RevisionsAssumption DEF ManagerInv, TextsOK, CompletedLeavesNone, Completed, NoText,
     OneDataset, ErasedTextsStayErased, WorkerOK, Workers, FilesOK, WorldOK, HeldOK, RunsOK, Swap,
     At, Goes, files, setup, manager
<1>6. DownloadOK'
  BY RevisionsAssumption DEF ManagerInv, DownloadOK, PublishedIsComplete, SetupOK, WorkerOK,
     Workers, Assets, WorldOK, Swap, At, Goes, files, setup, manager
<1>7. InstallOK'
  BY RevisionsAssumption DEF ManagerInv, InstallOK, Aside, SetupOK, WorkerOK, Workers, WorldOK,
     HeldOK, Swap, At, Goes, files, setup, manager
<1>8. Quiet => Quiet'
  BY DEF ManagerInv, Quiet, NoText, RunsOK, Swap, At, Goes, files, setup, manager
<1> QED BY <1>1, <1>2, <1>3, <1>4, <1>5, <1>6, <1>7, <1>8 DEF ManagerInv, FilesOK, WorldOK,
     Swap, At, Goes, files, setup, manager

LEMMA SelectKeeps ==
  ASSUME ManagerInv, Select
  PROVE  ManagerInv' /\ (Quiet => Quiet')
<1>1. SetupOK'
  BY RevisionsAssumption DEF ManagerInv, SetupOK, WorkerOK, Workers, WorldOK, Select, At, Goes,
     files, setup, manager
<1>2. WorkerOK'
  BY RevisionsAssumption DEF ManagerInv, WorkerOK, Workers, Places, Ops, SetupOK, FilesOK,
     WorldOK, Select, At, Goes, files, setup, manager
<1>3. HeldOK'
  BY RevisionsAssumption DEF ManagerInv, HeldOK, Running, WorkerOK, Workers, Threads, Nobody,
     Worker, Select, At, Goes, files, setup, manager
<1>4. RunsOK'
  BY RevisionsAssumption DEF ManagerInv, RunsOK, Completed, FilesOK, WorkerOK, Workers,
     WorldOK, HeldOK, Select, At, Goes, files, setup, manager
<1>5. TextsOK'
  BY RevisionsAssumption DEF ManagerInv, TextsOK, CompletedLeavesNone, Completed, NoText,
     OneDataset, ErasedTextsStayErased, WorkerOK, Workers, FilesOK, WorldOK, HeldOK, RunsOK,
     Select, At, Goes, files, setup, manager
<1>6. DownloadOK'
  BY RevisionsAssumption DEF ManagerInv, DownloadOK, PublishedIsComplete, SetupOK, WorkerOK,
     Workers, Assets, WorldOK, Select, At, Goes, files, setup, manager
<1>7. InstallOK'
  BY RevisionsAssumption DEF ManagerInv, InstallOK, Aside, SetupOK, WorkerOK, Workers, WorldOK,
     HeldOK, Select, At, Goes, files, setup, manager
<1>8. Quiet => Quiet'
  BY DEF ManagerInv, Quiet, NoText, RunsOK, Select, At, Goes, files, setup, manager
<1> QED BY <1>1, <1>2, <1>3, <1>4, <1>5, <1>6, <1>7, <1>8 DEF ManagerInv, FilesOK, WorldOK,
     Select, At, Goes, files, setup, manager

LEMMA RollsBackKeeps ==
  ASSUME ManagerInv, RollsBack
  PROVE  ManagerInv' /\ (Quiet => Quiet')
<1>1. FilesOK'
  BY RevisionsAssumption DEF ManagerInv, FilesOK, Models, Completed, Default, Base, Runs,
     WorkerOK, Workers, WorldOK, RollsBack, SetAside, Ends, CleansUp, Idle, At, Fault, files,
     setup, manager
<1>2. SetupOK'
  BY RevisionsAssumption DEF ManagerInv, SetupOK, WorkerOK, Workers, WorldOK, RollsBack,
     SetAside, Ends, CleansUp, Idle, At, Fault, files, setup, manager
<1>3. WorkerOK'
  BY IdleIsWorker DEF WorkerOK, RollsBack, SetAside, Ends, CleansUp, At, Fault
<1>4. WorldOK'
  BY RevisionsAssumption DEF ManagerInv, WorldOK, RollsBack, SetAside, Ends, CleansUp, Idle, At,
     Fault, files, setup, manager
<1>5. HeldOK'
  BY RevisionsAssumption DEF ManagerInv, HeldOK, Running, WorkerOK, Workers, Threads, Nobody,
     Worker, RollsBack, SetAside, Ends, CleansUp, Idle, At, Fault, files, setup, manager
<1>6. RunsOK'
  BY RevisionsAssumption DEF ManagerInv, RunsOK, Completed, FilesOK, WorkerOK, Workers,
     WorldOK, HeldOK, RollsBack, SetAside, Ends, CleansUp, Idle, At, Fault, files, setup, manager
<1>7. TextsOK'
  BY RevisionsAssumption DEF ManagerInv, TextsOK, CompletedLeavesNone, Completed, NoText,
     OneDataset, ErasedTextsStayErased, WorkerOK, Workers, FilesOK, WorldOK, HeldOK, RunsOK,
     RollsBack, SetAside, Ends, CleansUp, Idle, At, Fault, files, setup, manager
<1>8. DownloadOK'
  BY RevisionsAssumption DEF ManagerInv, DownloadOK, PublishedIsComplete, SetupOK, WorkerOK,
     Workers, Assets, WorldOK, RollsBack, SetAside, Ends, CleansUp, Idle, At, Fault, files, setup,
     manager
<1>9. InstallOK'
  BY RevisionsAssumption DEF ManagerInv, InstallOK, Aside, SetupOK, WorkerOK, Workers, WorldOK,
     HeldOK, RollsBack, SetAside, Ends, CleansUp, Idle, At, Fault, files, setup, manager
<1>10. Quiet => Quiet'
  BY DEF ManagerInv, Quiet, NoText, RunsOK, RollsBack, SetAside, Ends, CleansUp, Idle, At, Fault,
     files, setup, manager
<1> QED BY <1>1, <1>2, <1>3, <1>4, <1>5, <1>6, <1>7, <1>8, <1>9, <1>10 DEF ManagerInv,
     RollsBack, SetAside, Ends, CleansUp, Idle, At, Fault, files, setup, manager

LEMMA PruneKeeps ==
  ASSUME ManagerInv, Prune
  PROVE  ManagerInv' /\ (Quiet => Quiet')
<1>1. FilesOK'
  BY RevisionsAssumption DEF ManagerInv, FilesOK, Models, Completed, Default, Base, Runs,
     WorkerOK, Workers, WorldOK, Prune, Pruned, Ends, CleansUp, Idle, At, files, setup, manager
<1>2. SetupOK'
  <2>1. PICK rest \in SUBSET Releases : trainers' = Pruned(world.release, rest)
    BY DEF Prune
  <2>2. trainers' \in [Releases -> TrainerStates]
    BY <2>1 DEF ManagerInv, SetupOK, TrainerStates, Pruned
  <2> QED BY <2>2 DEF ManagerInv, SetupOK, Prune
<1>3. WorkerOK'
  BY IdleIsWorker DEF WorkerOK, Prune, Pruned, Ends, CleansUp, At
<1>4. HeldOK'
  BY RevisionsAssumption DEF ManagerInv, HeldOK, Running, WorkerOK, Workers, Threads, Nobody,
     Worker, Prune, Pruned, Ends, CleansUp, Idle, At, files, setup, manager
<1>5. RunsOK'
  BY RevisionsAssumption DEF ManagerInv, RunsOK, Completed, FilesOK, WorkerOK, Workers,
     WorldOK, HeldOK, Prune, Pruned, Ends, CleansUp, Idle, At, files, setup, manager
<1>6. TextsOK'
  BY RevisionsAssumption DEF ManagerInv, TextsOK, CompletedLeavesNone, Completed, NoText,
     OneDataset, ErasedTextsStayErased, WorkerOK, Workers, FilesOK, WorldOK, HeldOK, RunsOK,
     Prune, Pruned, Ends, CleansUp, Idle, At, files, setup, manager
<1>7. DownloadOK'
  BY RevisionsAssumption DEF ManagerInv, DownloadOK, PublishedIsComplete, SetupOK, WorkerOK,
     Workers, Assets, WorldOK, Prune, Pruned, Ends, CleansUp, Idle, At, files, setup, manager
<1>8. InstallOK'
  BY RevisionsAssumption DEF ManagerInv, InstallOK, Aside, SetupOK, WorkerOK, Workers, WorldOK,
     HeldOK, Prune, Pruned, Ends, CleansUp, Idle, At, files, setup, manager
<1>9. Quiet => Quiet'
  BY DEF ManagerInv, Quiet, NoText, RunsOK, Prune, Pruned, Ends, CleansUp, Idle, At, files, setup,
     manager
<1> QED BY <1>1, <1>2, <1>3, <1>4, <1>5, <1>6, <1>7, <1>8, <1>9 DEF ManagerInv, WorldOK, Prune,
     Pruned, Ends, CleansUp, Idle, At, files, setup, manager

\* The threads of the window export and discard models and erase texts.
LEMMA ExportBeginsKeeps ==
  ASSUME ManagerInv, NEW t \in Threads, ExportBegins(t), ~busy, Alive
  PROVE  ManagerInv' /\ (Quiet => Quiet')
<1>1. HeldOK'
  BY RevisionsAssumption DEF ManagerInv, HeldOK, Running, WorkerOK, Workers, Threads, Nobody,
     Worker, ExportBegins, Alive, files, setup, manager
<1>2. Quiet => Quiet'
  BY DEF ManagerInv, Quiet, NoText, RunsOK, ExportBegins, Alive, files, setup, manager
<1> QED BY <1>1, <1>2 DEF ManagerInv, FilesOK, SetupOK, WorkerOK, WorldOK, RunsOK, TextsOK,
           CompletedLeavesNone, DownloadOK, InstallOK, Completed, NoText, OneDataset,
           ErasedTextsStayErased, PublishedIsComplete, Aside, ExportBegins, Alive, files, setup,
           manager

LEMMA ExportEndsKeeps ==
  ASSUME ManagerInv, NEW t \in Threads, NEW m \in Models, ExportEnds(t, m), mutex = t
  PROVE  ManagerInv' /\ (Quiet => Quiet')
<1>1. FilesOK'
  BY RevisionsAssumption DEF ManagerInv, FilesOK, Models, Completed, Default, Base, Runs,
     WorkerOK, Workers, WorldOK, ExportEnds, files, setup, manager
<1>2. HeldOK'
  BY RevisionsAssumption DEF ManagerInv, HeldOK, Running, WorkerOK, Workers, Threads, Nobody,
     Worker, ExportEnds, files, setup, manager
<1>3. Quiet => Quiet'
  BY DEF ManagerInv, Quiet, NoText, RunsOK, ExportEnds, files, setup, manager
<1> QED BY <1>1, <1>2, <1>3 DEF ManagerInv, SetupOK, WorkerOK, WorldOK, RunsOK, TextsOK,
           CompletedLeavesNone, DownloadOK, InstallOK, Completed, NoText, OneDataset,
           ErasedTextsStayErased, PublishedIsComplete, Aside, ExportEnds, files, setup, manager

LEMMA ExportFailsKeeps ==
  ASSUME ManagerInv, NEW t \in Threads, ExportFails(t), mutex = t
  PROVE  ManagerInv' /\ (Quiet => Quiet')
<1>1. WorldOK'
  BY RevisionsAssumption DEF ManagerInv, WorldOK, ExportFails, Fault, files, setup, manager
<1>2. HeldOK'
  BY RevisionsAssumption DEF ManagerInv, HeldOK, Running, WorkerOK, Workers, Threads, Nobody,
     Worker, ExportFails, Fault, files, setup, manager
<1>3. RunsOK'
  BY RevisionsAssumption DEF ManagerInv, RunsOK, Completed, FilesOK, WorkerOK, Workers,
     WorldOK, HeldOK, ExportFails, Fault, files, setup, manager
<1>4. TextsOK'
  BY RevisionsAssumption DEF ManagerInv, TextsOK, CompletedLeavesNone, Completed, NoText,
     OneDataset, ErasedTextsStayErased, WorkerOK, Workers, FilesOK, WorldOK, HeldOK, RunsOK,
     ExportFails, Fault, files, setup, manager
<1>5. InstallOK'
  BY RevisionsAssumption DEF ManagerInv, InstallOK, Aside, SetupOK, WorkerOK, Workers, WorldOK,
     HeldOK, ExportFails, Fault, files, setup, manager
<1>6. Quiet => Quiet'
  BY DEF ManagerInv, Quiet, NoText, RunsOK, ExportFails, Fault, files, setup, manager
<1> QED BY <1>1, <1>2, <1>3, <1>4, <1>5, <1>6 DEF ManagerInv, FilesOK, SetupOK, WorkerOK,
     DownloadOK, PublishedIsComplete, ExportFails, Fault, files, setup, manager

LEMMA DiscardKeeps ==
  ASSUME ManagerInv, NEW m \in Models, Discard(m)
  PROVE  ManagerInv' /\ (Quiet => Quiet')
<1>1. FilesOK'
  BY DefaultIsNoRun DEF ManagerInv, FilesOK, Completed, Discard
<1>2. Quiet => Quiet'
  BY DEF ManagerInv, Quiet, NoText, RunsOK, Discard, files, setup, manager
<1> QED BY <1>1, <1>2 DEF ManagerInv, SetupOK, WorkerOK, WorldOK, HeldOK, RunsOK, TextsOK,
           CompletedLeavesNone, DownloadOK, InstallOK, Completed, NoText, OneDataset,
           ErasedTextsStayErased, PublishedIsComplete, Aside, Discard, files, setup, manager

LEMMA PruneModelsKeeps ==
  ASSUME ManagerInv, NEW m \in Models, PruneModels(m)
  PROVE  ManagerInv' /\ (Quiet => Quiet')
<1>1. FilesOK'
  BY DefaultIsNoRun DEF ManagerInv, FilesOK, Completed, PruneModels, Obsolete
<1>2. Quiet => Quiet'
  BY DEF ManagerInv, Quiet, NoText, RunsOK, PruneModels, Obsolete, files, setup, manager
<1> QED BY <1>1, <1>2 DEF ManagerInv, SetupOK, WorkerOK, WorldOK, HeldOK, RunsOK, TextsOK,
           CompletedLeavesNone, DownloadOK, InstallOK, Completed, NoText, OneDataset,
           ErasedTextsStayErased, PublishedIsComplete, Aside, PruneModels, Obsolete, files, setup,
           manager

LEMMA CleanUpKeeps ==
  ASSUME ManagerInv, CleanUp
  PROVE  ManagerInv' /\ (Quiet => Quiet')
<1>1. FilesOK'
  BY RevisionsAssumption DEF ManagerInv, FilesOK, Models, Completed, Default, Base, Runs,
     WorkerOK, Workers, WorldOK, CleanUp, Resting, Fault, files, setup, manager
<1>2. WorldOK'
  BY RevisionsAssumption DEF ManagerInv, WorldOK, CleanUp, Resting, Fault, files, setup, manager
<1>3. RunsOK'
  BY RevisionsAssumption DEF ManagerInv, RunsOK, Completed, FilesOK, WorkerOK, Workers,
     WorldOK, HeldOK, CleanUp, Resting, Fault, files, setup, manager
<1>4. TextsOK'
  BY RevisionsAssumption DEF ManagerInv, TextsOK, CompletedLeavesNone, Completed, NoText,
     OneDataset, ErasedTextsStayErased, WorkerOK, Workers, FilesOK, WorldOK, HeldOK, RunsOK,
     CleanUp, Resting, Fault, files, setup, manager
<1>5. InstallOK'
  BY RevisionsAssumption DEF ManagerInv, InstallOK, Aside, SetupOK, WorkerOK, Workers, WorldOK,
     HeldOK, CleanUp, Resting, Fault, files, setup, manager
<1>6. Quiet => Quiet'
  BY DEF ManagerInv, Quiet, NoText, RunsOK, CleanUp, Resting, Fault, files, setup, manager
<1> QED BY <1>1, <1>2, <1>3, <1>4, <1>5, <1>6 DEF ManagerInv, SetupOK, WorkerOK, HeldOK,
     DownloadOK, PublishedIsComplete, CleanUp, Resting, Fault, files, setup, manager

LEMMA ResetDataKeeps ==
  ASSUME ManagerInv, ResetData
  PROVE  ManagerInv' /\ (Quiet => Quiet')
<1>1. FilesOK'
  BY RevisionsAssumption DEF ManagerInv, FilesOK, Models, Completed, Default, Base, Runs,
     WorkerOK, Workers, WorldOK, ResetData, Resting, Fault, files, setup, manager
<1>2. WorldOK'
  BY RevisionsAssumption DEF ManagerInv, WorldOK, ResetData, Resting, Fault, files, setup, manager
<1>3. RunsOK'
  BY RevisionsAssumption DEF ManagerInv, RunsOK, Completed, FilesOK, WorkerOK, Workers,
     WorldOK, HeldOK, ResetData, Resting, Fault, files, setup, manager
<1>4. TextsOK'
  BY RevisionsAssumption DEF ManagerInv, TextsOK, CompletedLeavesNone, Completed, NoText,
     OneDataset, ErasedTextsStayErased, WorkerOK, Workers, FilesOK, WorldOK, HeldOK, RunsOK,
     ResetData, Resting, Fault, files, setup, manager
<1>5. InstallOK'
  BY RevisionsAssumption DEF ManagerInv, InstallOK, Aside, SetupOK, WorkerOK, Workers, WorldOK,
     HeldOK, ResetData, Resting, Fault, files, setup, manager
<1>6. Quiet => Quiet'
  BY DEF ManagerInv, Quiet, NoText, RunsOK, ResetData, Resting, Fault, files, setup, manager
<1> QED BY <1>1, <1>2, <1>3, <1>4, <1>5, <1>6 DEF ManagerInv, SetupOK, WorkerOK, HeldOK,
     DownloadOK, PublishedIsComplete, ResetData, Resting, Fault, files, setup, manager

LEMMA FaultKeeps ==
  ASSUME ManagerInv, Fault, UNCHANGED <<up, files, setup, manager>>
  PROVE  ManagerInv' /\ (Quiet => Quiet')
<1>1. WorldOK'
  BY RevisionsAssumption DEF ManagerInv, WorldOK, Fault, files, setup, manager
<1>2. RunsOK'
  BY RevisionsAssumption DEF ManagerInv, RunsOK, Completed, FilesOK, WorkerOK, Workers,
     WorldOK, HeldOK, Fault, files, setup, manager
<1>3. TextsOK'
  BY RevisionsAssumption DEF ManagerInv, TextsOK, CompletedLeavesNone, Completed, NoText,
     OneDataset, ErasedTextsStayErased, WorkerOK, Workers, FilesOK, WorldOK, HeldOK, RunsOK,
     Fault, files, setup, manager
<1>4. InstallOK'
  BY RevisionsAssumption DEF ManagerInv, InstallOK, Aside, SetupOK, WorkerOK, Workers, WorldOK,
     HeldOK, Fault, files, setup, manager
<1>5. Quiet => Quiet'
  BY DEF ManagerInv, Quiet, NoText, RunsOK, Fault, files, setup, manager
<1> QED BY <1>1, <1>2, <1>3, <1>4, <1>5 DEF ManagerInv, FilesOK, SetupOK, WorkerOK, HeldOK,
     DownloadOK, PublishedIsComplete, Fault, files, setup, manager

\* Records come and go.
LEMMA CommitKeeps ==
  ASSUME ManagerInv, Commit
  PROVE  ManagerInv' /\ (Quiet => Quiet')
<1>1. FilesOK'
  BY RevisionsAssumption DEF ManagerInv, FilesOK, Models, Completed, Default, Base, Runs,
     WorkerOK, Workers, WorldOK, Commit, files, setup, manager
<1>2. TextsOK'
  BY RevisionsAssumption DEF ManagerInv, TextsOK, CompletedLeavesNone, Completed, NoText,
     OneDataset, ErasedTextsStayErased, WorkerOK, Workers, FilesOK, WorldOK, HeldOK, RunsOK,
     Commit, files, setup, manager
<1>3. Quiet => Quiet'
  BY DEF ManagerInv, Quiet, NoText, RunsOK, Commit, files, setup, manager
<1> QED BY <1>1, <1>2, <1>3 DEF ManagerInv, SetupOK, WorkerOK, WorldOK, HeldOK, RunsOK,
     DownloadOK, InstallOK, Completed, PublishedIsComplete, Aside, Commit, files, setup, manager

LEMMA DeleteRecordKeeps ==
  ASSUME ManagerInv, NEW r \in Records, DeleteRecord(r)
  PROVE  ManagerInv' /\ (Quiet => Quiet')
<1>1. FilesOK'
  BY RevisionsAssumption DEF ManagerInv, FilesOK, Models, Completed, Default, Base, Runs,
     WorkerOK, Workers, WorldOK, DeleteRecord, files, setup, manager
<1>2. TextsOK'
  BY RevisionsAssumption DEF ManagerInv, TextsOK, CompletedLeavesNone, Completed, NoText,
     OneDataset, ErasedTextsStayErased, WorkerOK, Workers, FilesOK, WorldOK, HeldOK, RunsOK,
     DeleteRecord, files, setup, manager
<1>3. Quiet => Quiet'
  BY DEF ManagerInv, Quiet, NoText, RunsOK, DeleteRecord, files, setup, manager
<1> QED BY <1>1, <1>2, <1>3 DEF ManagerInv, SetupOK, WorkerOK, WorldOK, HeldOK, RunsOK,
     DownloadOK, InstallOK, Completed, PublishedIsComplete, Aside, DeleteRecord, files, setup,
     manager

\* The service dies and starts again, with what is on the disk.
LEMMA KilledKeeps ==
  ASSUME ManagerInv, Killed
  PROVE  ManagerInv' /\ (Quiet => Quiet')
<1>1. WorldOK'
  <2>1. world.kills - 1 \in Nat
    BY DEF ManagerInv, WorldOK, Killed
  <2> QED BY <2>1 DEF ManagerInv, WorldOK, Killed
<1>2. HeldOK'
  BY RevisionsAssumption DEF ManagerInv, HeldOK, Running, WorkerOK, Workers, Threads, Nobody,
     Worker, Killed, Alive, files, setup, manager
<1>3. RunsOK'
  BY RevisionsAssumption DEF ManagerInv, RunsOK, Completed, FilesOK, WorkerOK, Workers,
     WorldOK, HeldOK, Killed, Alive, files, setup, manager
<1>4. TextsOK'
  BY RevisionsAssumption DEF ManagerInv, TextsOK, CompletedLeavesNone, Completed, NoText,
     OneDataset, ErasedTextsStayErased, WorkerOK, Workers, FilesOK, WorldOK, HeldOK, RunsOK,
     Killed, Alive, files, setup, manager
<1>5. InstallOK'
  BY RevisionsAssumption DEF ManagerInv, InstallOK, Aside, SetupOK, WorkerOK, Workers, WorldOK,
     HeldOK, Killed, Alive, files, setup, manager
<1>6. Quiet => Quiet'
  BY DEF ManagerInv, Quiet, NoText, RunsOK, Killed, Alive, files, setup, manager
<1> QED BY <1>1, <1>2, <1>3, <1>4, <1>5, <1>6 DEF ManagerInv, FilesOK, SetupOK, WorkerOK,
     DownloadOK, PublishedIsComplete, Killed, Alive, files, setup, manager

LEMMA RestartsKeeps ==
  ASSUME ManagerInv, Restarts
  PROVE  ManagerInv'
<1>1. /\ up = "killed" /\ up' = "running" /\ busy' = TRUE /\ mutex' = Nobody
      /\ cancelling' = FALSE /\ offered' = 0
      /\ worker'.at = "begin" /\ worker'.op = "register" /\ worker'.run = 0 /\ worker'.parent = 0
      /\ UNCHANGED <<plain, adapters, models, history, records, erased, process>>
      /\ UNCHANGED <<current, assets, selected, trainers>>
  BY DEF Restarts, Idle, files, setup
<1>2. WorkerOK'
  BY IdleIsWorker DEF Restarts, WorkerOK, Workers, Places, Ops
<1>3. WorldOK' /\ world'.killed = world.killed /\ world'.run = world.run
  <2>1. PICK revision \in Revisions, release \in Releases :
          world' = [world EXCEPT !.revision = revision, !.release = release]
    BY DEF Restarts
  <2> QED BY <1>1, <2>1 DEF ManagerInv, WorldOK
<1>4. world.killed /\ world.run \in Nat
  BY <1>1, RunsAssumption DEF ManagerInv, WorldOK
<1>5. RunsOK' /\ TextsOK'
  <2>1. Completed' = Completed
    BY <1>1 DEF Completed
  <2>2. RunsOK'
    BY <1>1, <1>3, <1>4, <2>1 DEF ManagerInv, RunsOK
  <2>3. TextsOK'
    BY <1>1, <2>1
       DEF ManagerInv, TextsOK, CompletedLeavesNone, NoText, OneDataset, ErasedTextsStayErased
  <2> QED BY <2>2, <2>3
<1> QED BY <1>1, <1>2, <1>3, <1>4, <1>5 DEF ManagerInv, FilesOK, SetupOK, HeldOK, Completed,
           DownloadOK, PublishedIsComplete, InstallOK, Aside


-----------------------------------------------------------------------------
(***************************************************************************)
(* The window.  One thread at a time changes the core; its task says how   *)
(* much of it is done.                                                     *)
(***************************************************************************)
Choices == [model : Models, device : Devices]
ChoicesOK ==
  /\ core \in Choices /\ active \in Choices /\ settings \in Choices
  /\ core.model \in models /\ settings.model \in models
Steps == {"idle", "check", "export", "reload", "save", "adopt", "prune", "yes", "no"}
Tasks == [at : Steps, what : {"none", "prepare", "apply", "device"},
          model : Models \union {NoModel}, device : Devices \union {"none"}, fresh : BOOLEAN]
TasksOK ==
  /\ task \in [Threads -> Tasks]
  /\ \A t \in Threads :
       /\ task[t].what \in {"prepare", "apply"} => task[t].model \in Models
       /\ task[t].what = "device" => task[t].device \in Devices
       /\ task[t].what = "prepare" => task[t].at \in {"check", "export", "yes", "no"}
       /\ task[t].what = "device" => task[t].at \in {"reload", "save", "adopt"}
       /\ task[t].at \in {"check", "export", "reload", "save", "adopt", "prune"} =>
            task[t].what # "none"
ExportsOK == \A t \in Threads : task[t].at = "export" => mutex = t

\* One thread at a time changes the core, and how far it has come.
Busy(t) == task[t].at # "idle"
AppliesOK ==
  /\ \A t \in Threads :
       /\ task[t].at = "save"  => core = Changed(t, active)
       /\ task[t].at = "adopt" => core = Changed(t, active) /\ settings = core
       /\ task[t].at = "prune" => core = active /\ core.model = task[t].model
  /\ (\A t \in Threads : task[t].at # "adopt") => active = settings
ScreensOK ==
  /\ screen \in {"page", "picker", "lora", "password", "closed"}
  /\ Busy("ui") => /\ screen \in {"page", "lora"} /\ task["ui"].what \in {"apply", "device"}
                   /\ task["ui"].at \notin {"yes", "no"}
  /\ Busy("restore") => /\ screen \in {"picker", "closed"}
                        /\ task["restore"].what \in {"prepare", "apply"}
  /\ screen = "closed" => task["restore"].at \in {"idle", "yes", "no"}
PickerOK ==
  /\ picker \in [prepared : Models \union {NoModel}, fresh : BOOLEAN]
  /\ picker.prepared # NoModel => screen = "picker"
  /\ picker.fresh => picker.prepared \notin {core.model, settings.model, NoModel, Default}
  /\ task["restore"].what = "apply" => ~picker.fresh
  /\ task["restore"].what = "prepare" => picker.prepared = NoModel
  /\ task["restore"].what = "prepare" /\ task["restore"].fresh =>
       task["restore"].model \notin {core.model, settings.model, Default}
StarterOK ==
  /\ starter \in [at : {"no", "waits"}, parent : 0..MaxRuns, stabilize : BOOLEAN]
  /\ starter.at = "waits" => screen # "password"
  /\ screen = "password" \/ starter.at = "waits" => Quiet

WindowInv ==
  ChoicesOK /\ TasksOK /\ ExportsOK /\ AppliesOK /\ ScreensOK /\ PickerOK /\ StarterOK

\* The step of a thread's task.
LEMMA TaskMoves ==
  ASSUME TasksOK, NEW t \in Threads, NEW at \in Steps, TaskGoes(t, at)
  PROVE  /\ task' \in [Threads -> Tasks]
         /\ task'[t].at = at /\ task'[t].what = task[t].what /\ task'[t].model = task[t].model
         /\ task'[t].device = task[t].device /\ task'[t].fresh = task[t].fresh
         /\ \A u \in Threads : u # t => task'[u] = task[u]
BY DEF TasksOK, Tasks, TaskGoes

\* The task of a thread that has none.
LEMMA NoTaskIsTask ==
  /\ NoTask \in Tasks /\ NoTask.at = "idle" /\ NoTask.what = "none"
BY DEF NoTask, Task, Tasks, Steps

\* Its end: the UI thread forgets it, the other one waits with its result.
LEMMA TaskReturns ==
  ASSUME TasksOK, NEW t \in Threads, NEW result \in {"yes", "no"}, Returns(t, result)
  PROVE  /\ task' \in [Threads -> Tasks]
         /\ t = "ui" => task'[t] = NoTask
         /\ t = "restore" =>
              /\ task'[t].at = result /\ task'[t].what = task[t].what
              /\ task'[t].model = task[t].model /\ task'[t].device = task[t].device
              /\ task'[t].fresh = task[t].fresh
         /\ \A u \in Threads : u # t => task'[u] = task[u]
BY NoTaskIsTask DEF TasksOK, Returns, Tasks, Steps, Threads

\* Only one thread has a task.
LEMMA OneTask ==
  ASSUME ScreensOK, NEW t \in Threads, NEW u \in Threads, Busy(t), Busy(u)
  PROVE  t = u
BY DEF ScreensOK, Threads

\* What goes on behind the window.
LEMMA WindowStays ==
  ASSUME WindowInv, UNCHANGED window, models \subseteq models', mutex' = mutex, Quiet => Quiet'
  PROVE  WindowInv'
<1>1. ChoicesOK' /\ TasksOK' /\ ExportsOK' /\ AppliesOK' /\ ScreensOK' /\ PickerOK'
  BY DEF WindowInv, ChoicesOK, TasksOK, ExportsOK, AppliesOK, Changed, ScreensOK, Busy, PickerOK,
     window
<1>2. StarterOK'
  BY DEF WindowInv, StarterOK, window
<1> QED BY <1>1, <1>2 DEF WindowInv

\* Steps of the window alone leave the manager as it is.
LEMMA ManagerStays ==
  ASSUME ManagerInv, UNCHANGED training
  PROVE  ManagerInv' /\ (Quiet => Quiet')
<1>1. FilesOK' /\ SetupOK' /\ WorkerOK' /\ WorldOK' /\ HeldOK' /\ RunsOK'
  BY DEF ManagerInv, FilesOK, SetupOK, WorkerOK, WorldOK, HeldOK, RunsOK, Completed, training,
     files,
     setup, manager
<1>2. TextsOK' /\ DownloadOK' /\ InstallOK' /\ (Quiet => Quiet')
  BY DEF ManagerInv, TextsOK, CompletedLeavesNone, Completed, NoText, OneDataset,
     ErasedTextsStayErased, DownloadOK, PublishedIsComplete, InstallOK, Aside, Quiet, training,
     files, setup, manager
<1> QED BY <1>1, <1>2 DEF ManagerInv

\* Only what the picker has brought, and nothing runs or names, is discarded.
LEMMA DiscardPreparedKeeps ==
  ASSUME ManagerInv, WindowInv, DiscardPrepared
  PROVE  /\ ManagerInv' /\ (Quiet => Quiet') /\ models' \subseteq models /\ mutex' = mutex
         /\ core.model \in models' /\ settings.model \in models'
BY DiscardKeeps, ManagerStays DEF WindowInv, PickerOK, DiscardPrepared, ChoicesOK, Discard,
   manager, training, files

\* The picker, the page and the LoRA dialog.
LEMMA ShowPickerKeeps ==
  ASSUME ManagerInv, WindowInv, ShowPicker
  PROVE  ManagerInv' /\ WindowInv'
<1>0. ManagerInv' /\ (Quiet => Quiet')
  BY DEF ManagerInv, FilesOK, SetupOK, WorkerOK, WorldOK, HeldOK, RunsOK, TextsOK,
     CompletedLeavesNone, DownloadOK, InstallOK, Completed, NoText, OneDataset,
     ErasedTextsStayErased, PublishedIsComplete, Aside, Quiet, ShowPicker, Clicked, Restoring,
     training, files, setup, manager
<1>1. ScreensOK'
  BY DEF ManagerInv, WindowInv, ScreensOK, TasksOK, Busy, ShowPicker, Clicked, Restoring,
     training, files, setup, manager, window
<1>2. PickerOK'
  BY DEF ManagerInv, WindowInv, PickerOK, TasksOK, ScreensOK, ChoicesOK, Choices, Busy,
     ShowPicker, Clicked, Restoring, training, files, setup, manager, window, FilesOK
<1>3. StarterOK'
  BY <1>0 DEF ManagerInv, WindowInv, StarterOK, Quiet, ShowPicker, Clicked, Restoring,
     training, files, setup, manager, window, HeldOK
<1> QED BY <1>0, <1>1, <1>2, <1>3 DEF WindowInv, ChoicesOK, TasksOK, ExportsOK, AppliesOK,
     Changed, ShowPicker, Clicked, Restoring, training, files, setup, manager, window

LEMMA ApplyPreparedKeeps ==
  ASSUME ManagerInv, WindowInv, ApplyPrepared
  PROVE  ManagerInv' /\ WindowInv'
<1>0. ManagerInv' /\ (Quiet => Quiet')
  BY DEF ManagerInv, FilesOK, SetupOK, WorkerOK, WorldOK, HeldOK, RunsOK, TextsOK,
     CompletedLeavesNone, DownloadOK, InstallOK, Completed, NoText, OneDataset,
     ErasedTextsStayErased, PublishedIsComplete, Aside, Quiet, ApplyPrepared, Clicked, Restores,
     Restoring, Task, NotFresh, training, files, setup, manager
<1>1. TasksOK'
  BY DEF WindowInv, PickerOK, ApplyPrepared, Restores, TasksOK, Tasks, Steps, Task, Threads
<1>2. ExportsOK'
  BY NoTaskIsTask DEF ManagerInv, WindowInv, ExportsOK, TasksOK, ApplyPrepared, Clicked,
     Restores, Restoring, Task, NotFresh, training, files, setup, manager, window
<1>3. AppliesOK'
  BY NoTaskIsTask DEF ManagerInv, WindowInv, AppliesOK, TasksOK, Changed, ScreensOK, Busy,
     ApplyPrepared, Clicked, Restores, Restoring, Task, NotFresh, training, files, setup, manager,
     window
<1>4. ScreensOK'
  BY NoTaskIsTask DEF ManagerInv, WindowInv, ScreensOK, TasksOK, Busy, ApplyPrepared, Clicked,
     Restores, Restoring, Task, NotFresh, training, files, setup, manager, window
<1>5. PickerOK'
  BY DEF ApplyPrepared, Restores, WindowInv, TasksOK, Task, Threads, NotFresh, PickerOK
<1> QED BY <1>0, <1>1, <1>2, <1>3, <1>4, <1>5 DEF WindowInv, ChoicesOK, StarterOK, Quiet,
     NoText, ApplyPrepared, Clicked, Restores, Restoring, Task, NotFresh, training, files, setup,
     manager, window

LEMMA PrepareKeeps ==
  ASSUME ManagerInv, WindowInv, NEW m \in Models, Prepare(m)
  PROVE  ManagerInv' /\ WindowInv'
<1>0. ManagerInv' /\ (Quiet => Quiet')
  BY DEF ManagerInv, FilesOK, SetupOK, WorkerOK, WorldOK, HeldOK, RunsOK, TextsOK,
     CompletedLeavesNone, DownloadOK, InstallOK, Completed, NoText, OneDataset,
     ErasedTextsStayErased, PublishedIsComplete, Aside, Quiet, Prepare, Clicked, Restores,
     Restoring, Task, training, files, setup, manager
<1>1. TasksOK'
  BY NoTaskIsTask DEF ManagerInv, WindowInv, TasksOK, Tasks, Steps, Prepare, Clicked, Restores,
     Restoring, Task, training, files, setup, manager, window
<1>2. ExportsOK'
  BY NoTaskIsTask DEF ManagerInv, WindowInv, ExportsOK, TasksOK, Prepare, Clicked, Restores,
     Restoring, Task, training, files, setup, manager, window
<1>3. AppliesOK'
  BY NoTaskIsTask DEF ManagerInv, WindowInv, AppliesOK, TasksOK, Changed, ScreensOK, Busy,
     Prepare, Clicked, Restores, Restoring, Task, training, files, setup, manager, window
<1>4. ScreensOK'
  BY NoTaskIsTask DEF ManagerInv, WindowInv, ScreensOK, TasksOK, Busy, Prepare, Clicked,
     Restores, Restoring, Task, training, files, setup, manager, window
<1>5. PickerOK'
  BY NoTaskIsTask DEF ManagerInv, WindowInv, PickerOK, TasksOK, ScreensOK, ChoicesOK, Choices,
     Busy, Prepare, Clicked, Restores, Restoring, Task, training, files, setup, manager, window,
     FilesOK
<1> QED BY <1>0, <1>1, <1>2, <1>3, <1>4, <1>5 DEF WindowInv, ChoicesOK, StarterOK, Quiet,
     NoText, Prepare, Clicked, Restores, Restoring, Task, training, files, setup, manager, window

LEMMA ClosePickerKeeps ==
  ASSUME ManagerInv, WindowInv, ClosePicker
  PROVE  ManagerInv' /\ WindowInv'
<1>0. ManagerInv' /\ (Quiet => Quiet')
  BY DiscardPreparedKeeps DEF ClosePicker
<1>1. ChoicesOK'
  BY DiscardPreparedKeeps DEF WindowInv, ChoicesOK, ClosePicker
<1>2. ScreensOK'
  BY DEF ManagerInv, WindowInv, ScreensOK, TasksOK, Busy, ClosePicker, Clicked, Restoring,
     DiscardPrepared, Discard, NotPrepared, Picker, training, files, setup, manager, window
<1>3. PickerOK'
  BY DEF ManagerInv, WindowInv, PickerOK, TasksOK, ScreensOK, ChoicesOK, Choices, Busy,
     ClosePicker, Clicked, Restoring, DiscardPrepared, Discard, NotPrepared, Picker, training,
     files, setup, manager, window, FilesOK
<1>4. StarterOK'
  BY <1>0 DEF ManagerInv, WindowInv, StarterOK, Quiet, ClosePicker, Clicked, Restoring,
     DiscardPrepared, Discard, NotPrepared, Picker, training, files, setup, manager, window,
     HeldOK
<1> QED BY <1>0, <1>1, <1>2, <1>3, <1>4 DEF WindowInv, TasksOK, ExportsOK, AppliesOK, Changed,
     ClosePicker, Clicked, Restoring, DiscardPrepared, Discard, NotPrepared, Picker, training,
     files, setup, manager, window

LEMMA RestoreFinishedKeeps ==
  ASSUME ManagerInv, WindowInv, RestoreFinished
  PROVE  ManagerInv' /\ WindowInv'
<1> DEFINE did == task["restore"]
<1>0. ManagerInv' /\ (Quiet => Quiet') /\ models' = models /\ mutex' = mutex
  BY ManagerStays DEF RestoreFinished, training, files, manager
<1>1. /\ did \in Tasks /\ did.at \in {"yes", "no"} /\ screen = "picker"
      /\ did.what \in {"prepare", "apply"} /\ did.model \in Models
      /\ UNCHANGED <<core, active, settings, starter>>
  BY DEF WindowInv, TasksOK, ScreensOK, Busy, Threads, RestoreFinished
<1>2. TasksOK' /\ task'["restore"] = NoTask /\ task'["ui"] = task["ui"]
  BY NoTaskIsTask DEF WindowInv, TasksOK, Threads, RestoreFinished
<1>3. ChoicesOK' /\ ExportsOK' /\ AppliesOK'
  BY <1>0, <1>1, <1>2, NoTaskIsTask
    DEF WindowInv, ChoicesOK, ExportsOK, AppliesOK, Changed, Threads
<1>4. CASE did.at = "no"
  <2>1. picker' = picker /\ screen' = "picker"
    BY <1>1, <1>4 DEF RestoreFinished
  <2> QED BY <1>0, <1>1, <1>2, <1>3, <2>1, NoTaskIsTask
        DEF WindowInv, ScreensOK, Busy, PickerOK, StarterOK
<1>5. CASE did.at = "yes" /\ did.what = "apply"
  <2>1. picker' = [prepared |-> NoModel, fresh |-> FALSE] /\ screen' = "page"
    BY <1>5 DEF RestoreFinished, NotPrepared, Picker
  <2> QED BY <1>0, <1>1, <1>2, <1>3, <2>1, NoTaskIsTask
        DEF WindowInv, ScreensOK, Busy, PickerOK, StarterOK
<1>6. CASE did.at = "yes" /\ did.what = "prepare"
  <2>1. picker' = [prepared |-> did.model, fresh |-> did.fresh] /\ screen' = "picker"
    BY <1>1, <1>6 DEF RestoreFinished, Picker
  <2>2. did.model # NoModel /\ did.fresh \in BOOLEAN
    BY <1>1, RunsAssumption DEF Tasks, Models, Runs, Default, Base, NoModel
  <2>3. PickerOK'
    BY <1>1, <1>2, <1>6, <2>1, <2>2, NoTaskIsTask DEF WindowInv, PickerOK
  <2> QED BY <1>0, <1>1, <1>2, <1>3, <2>1, <2>3, NoTaskIsTask
        DEF WindowInv, ScreensOK, Busy, StarterOK
<1> QED BY <1>1, <1>4, <1>5, <1>6

LEMMA SaveModelPathKeeps ==
  ASSUME ManagerInv, WindowInv, NEW m \in Models, SaveModelPath(m)
  PROVE  ManagerInv' /\ WindowInv'
<1>0. ManagerInv' /\ (Quiet => Quiet')
  BY DEF ManagerInv, FilesOK, SetupOK, WorkerOK, WorldOK, HeldOK, RunsOK, TextsOK,
     CompletedLeavesNone, DownloadOK, InstallOK, Completed, NoText, OneDataset,
     ErasedTextsStayErased, PublishedIsComplete, Aside, Quiet, SaveModelPath, Clicked, Task,
     training, files, setup, manager
<1>1. TasksOK'
  BY NoTaskIsTask DEF ManagerInv, WindowInv, TasksOK, Tasks, Steps, SaveModelPath, Clicked,
     Task, training, files, setup, manager, window
<1>2. ExportsOK'
  BY NoTaskIsTask DEF ManagerInv, WindowInv, ExportsOK, TasksOK, SaveModelPath, Clicked, Task,
     training, files, setup, manager, window
<1>3. AppliesOK'
  BY NoTaskIsTask DEF ManagerInv, WindowInv, AppliesOK, TasksOK, Changed, ScreensOK, Busy,
     SaveModelPath, Clicked, Task, training, files, setup, manager, window
<1>4. ScreensOK'
  BY NoTaskIsTask DEF ManagerInv, WindowInv, ScreensOK, TasksOK, Busy, SaveModelPath, Clicked,
     Task, training, files, setup, manager, window
<1>5. PickerOK'
  BY NoTaskIsTask DEF ManagerInv, WindowInv, PickerOK, TasksOK, ScreensOK, ChoicesOK, Choices,
     Busy, SaveModelPath, Clicked, Task, training, files, setup, manager, window, FilesOK
<1> QED BY <1>0, <1>1, <1>2, <1>3, <1>4, <1>5 DEF WindowInv, ChoicesOK, StarterOK, Quiet,
     NoText, SaveModelPath, Clicked, Task, training, files, setup, manager, window

LEMMA ApplyInferenceKeeps ==
  ASSUME ManagerInv, WindowInv, NEW d \in Devices, ApplyInference(d)
  PROVE  ManagerInv' /\ WindowInv'
<1>0. ManagerInv' /\ (Quiet => Quiet')
  BY DEF ManagerInv, FilesOK, SetupOK, WorkerOK, WorldOK, HeldOK, RunsOK, TextsOK,
     CompletedLeavesNone, DownloadOK, InstallOK, Completed, NoText, OneDataset,
     ErasedTextsStayErased, PublishedIsComplete, Aside, Quiet, ApplyInference, Clicked, Task,
     training, files, setup, manager
<1>1. TasksOK'
  BY NoTaskIsTask DEF ManagerInv, WindowInv, TasksOK, Tasks, Steps, ApplyInference, Clicked,
     Task, training, files, setup, manager, window
<1>2. ExportsOK'
  BY NoTaskIsTask DEF ManagerInv, WindowInv, ExportsOK, TasksOK, ApplyInference, Clicked, Task,
     training, files, setup, manager, window
<1>3. AppliesOK'
  BY NoTaskIsTask DEF ManagerInv, WindowInv, AppliesOK, TasksOK, Changed, ScreensOK, Busy,
     ApplyInference, Clicked, Task, training, files, setup, manager, window
<1>4. ScreensOK'
  BY NoTaskIsTask DEF ManagerInv, WindowInv, ScreensOK, TasksOK, Busy, ApplyInference, Clicked,
     Task, training, files, setup, manager, window
<1>5. PickerOK'
  BY NoTaskIsTask DEF ManagerInv, WindowInv, PickerOK, TasksOK, ScreensOK, ChoicesOK, Choices,
     Busy, ApplyInference, Clicked, Task, training, files, setup, manager, window, FilesOK
<1> QED BY <1>0, <1>1, <1>2, <1>3, <1>4, <1>5 DEF WindowInv, ChoicesOK, StarterOK, Quiet,
     NoText, ApplyInference, Clicked, Task, training, files, setup, manager, window

LEMMA ShowLoraKeeps ==
  ASSUME ManagerInv, WindowInv, ShowLora
  PROVE  ManagerInv' /\ WindowInv'
<1>0. ManagerInv' /\ (Quiet => Quiet')
  BY ManagerStays, LaunchKeeps DEF ShowLora
<1>1. ScreensOK'
  BY DEF ManagerInv, WindowInv, ScreensOK, TasksOK, Busy, ShowLora, Clicked, Restoring, Launch,
     Launches, training, files, setup, manager, window
<1>2. PickerOK'
  BY DEF ManagerInv, WindowInv, PickerOK, TasksOK, ScreensOK, ChoicesOK, Choices, Busy,
     ShowLora, Clicked, Restoring, Launch, Launches, training, files, setup, manager, window,
     FilesOK
<1>3. StarterOK'
  BY <1>0 DEF ManagerInv, WindowInv, StarterOK, Quiet, ShowLora, Clicked, Restoring, Launch,
     Launches, training, files, setup, manager, window, HeldOK
<1> QED BY <1>0, <1>1, <1>2, <1>3 DEF WindowInv, ChoicesOK, TasksOK, ExportsOK, AppliesOK,
     Changed, ShowLora, Clicked, Restoring, Launch, Launches, training, files, setup, manager,
     window

LEMMA CloseLoraKeeps ==
  ASSUME ManagerInv, WindowInv, CloseLora
  PROVE  ManagerInv' /\ WindowInv'
<1>0. ManagerInv' /\ (Quiet => Quiet')
  BY DEF ManagerInv, FilesOK, SetupOK, WorkerOK, WorldOK, HeldOK, RunsOK, TextsOK,
     CompletedLeavesNone, DownloadOK, InstallOK, Completed, NoText, OneDataset,
     ErasedTextsStayErased, PublishedIsComplete, Aside, Quiet, CloseLora, Clicked, training,
     files, setup, manager
<1>1. ScreensOK'
  BY DEF ManagerInv, WindowInv, ScreensOK, TasksOK, Busy, CloseLora, Clicked, training, files,
     setup, manager, window
<1>2. PickerOK'
  BY DEF ManagerInv, WindowInv, PickerOK, TasksOK, ScreensOK, ChoicesOK, Choices, Busy,
     CloseLora, Clicked, training, files, setup, manager, window, FilesOK
<1>3. StarterOK'
  BY <1>0 DEF ManagerInv, WindowInv, StarterOK, Quiet, CloseLora, Clicked, training, files,
     setup, manager, window, HeldOK
<1> QED BY <1>0, <1>1, <1>2, <1>3 DEF WindowInv, ChoicesOK, TasksOK, ExportsOK, AppliesOK,
     Changed, CloseLora, Clicked, training, files, setup, manager, window

LEMMA LoraActionKeeps ==
  ASSUME ManagerInv, WindowInv, NEW op \in {"download", "install"}, LoraAction(op)
  PROVE  ManagerInv' /\ WindowInv'
<1>0. ManagerInv' /\ (Quiet => Quiet')
  BY LaunchKeeps DEF LoraAction
<1>1. StarterOK'
  BY <1>0 DEF ManagerInv, WindowInv, StarterOK, Quiet, LoraAction, Clicked, Launch, Launches,
     training, files, setup, manager, window, HeldOK
<1> QED BY <1>0, <1>1 DEF WindowInv, ChoicesOK, TasksOK, ExportsOK, AppliesOK, ScreensOK,
     PickerOK, Changed, Busy, LoraAction, Clicked, Launch, Launches, training, files, setup,
     manager, window

LEMMA CancelLoraKeeps ==
  ASSUME ManagerInv, WindowInv, CancelLora
  PROVE  ManagerInv' /\ WindowInv'
<1>0. ManagerInv' /\ (Quiet => Quiet')
  BY CancelKeeps DEF CancelLora
<1>1. StarterOK'
  BY <1>0 DEF ManagerInv, WindowInv, StarterOK, Quiet, CancelLora, Clicked, Cancel, training,
     files, setup, manager, window, HeldOK
<1> QED BY <1>0, <1>1 DEF WindowInv, ChoicesOK, TasksOK, ExportsOK, AppliesOK, ScreensOK,
     PickerOK, Changed, Busy, CancelLora, Clicked, Cancel, training, files, setup, manager, window

LEMMA AskPasswordKeeps ==
  ASSUME ManagerInv, WindowInv, AskPassword
  PROVE  ManagerInv' /\ WindowInv'
<1>0. ManagerInv' /\ (Quiet => Quiet')
  BY CleanUpKeeps DEF AskPassword, AsksClean
<1>1. ScreensOK'
  BY DEF ManagerInv, WindowInv, ScreensOK, TasksOK, Busy, AskPassword, Clicked, AsksClean,
     CleanUp, training, files, setup, manager, window
<1>2. PickerOK'
  BY DEF ManagerInv, WindowInv, PickerOK, TasksOK, ScreensOK, ChoicesOK, Choices, Busy,
     AskPassword, Clicked, AsksClean, CleanUp, training, files, setup, manager, window, FilesOK
<1>3. StarterOK'
  <2>1. NoText' /\ worker' = worker /\ starter' = starter /\ starter.at = "no" /\ mutex = Nobody
        /\ ~busy
    BY DEF AskPassword, AsksClean, CleanUp, Resting, NoText, manager
  <2>2. worker.op # "train"
    BY <2>1 DEF ManagerInv, HeldOK
  <2> QED BY <2>1, <2>2 DEF WindowInv, StarterOK, Quiet
<1> QED BY <1>0, <1>1, <1>2, <1>3 DEF WindowInv, ChoicesOK, TasksOK, ExportsOK, AppliesOK,
     Changed, AskPassword, Clicked, AsksClean, CleanUp, training, files, setup, manager, window

LEMMA NotCleanKeeps ==
  ASSUME ManagerInv, WindowInv, NotClean
  PROVE  ManagerInv' /\ WindowInv'
<1>0. ManagerInv' /\ (Quiet => Quiet')
  BY CleanUpKeeps DEF NotClean
<1>1. StarterOK'
  BY <1>0 DEF ManagerInv, WindowInv, StarterOK, Quiet, NotClean, Clicked, CleanUp, training,
     files, setup, manager, window, HeldOK
<1> QED BY <1>0, <1>1 DEF WindowInv, ChoicesOK, TasksOK, ExportsOK, AppliesOK, ScreensOK,
     PickerOK, Changed, Busy, NotClean, Clicked, CleanUp, training, files, setup, manager, window

LEMMA ConfirmPasswordKeeps ==
  ASSUME ManagerInv, WindowInv, NEW p \in Completed \union {0}, NEW s \in BOOLEAN,
         ConfirmPassword(p, s)
  PROVE  ManagerInv' /\ WindowInv'
<1>0. ManagerInv' /\ (Quiet => Quiet')
  BY DEF ManagerInv, FilesOK, SetupOK, WorkerOK, WorldOK, HeldOK, RunsOK, TextsOK,
     CompletedLeavesNone, DownloadOK, InstallOK, Completed, NoText, OneDataset,
     ErasedTextsStayErased, PublishedIsComplete, Aside, Quiet, ConfirmPassword, Clicked, training,
     files, setup, manager
<1>1. ScreensOK'
  BY DEF ManagerInv, WindowInv, ScreensOK, TasksOK, Busy, ConfirmPassword, Clicked, training,
     files, setup, manager, window
<1>2. PickerOK'
  BY DEF ManagerInv, WindowInv, PickerOK, TasksOK, ScreensOK, ChoicesOK, Choices, Busy,
     ConfirmPassword, Clicked, training, files, setup, manager, window, FilesOK
<1>3. StarterOK'
  BY DefaultIsNoRun, RunsAssumption, <1>0 DEF ManagerInv, Runs, WindowInv, StarterOK,
     ConfirmPassword
<1> QED BY <1>0, <1>1, <1>2, <1>3 DEF WindowInv, ChoicesOK, TasksOK, ExportsOK, AppliesOK,
     Changed, ConfirmPassword, Clicked, training, files, setup, manager, window

LEMMA ForgetPasswordKeeps ==
  ASSUME ManagerInv, WindowInv, ForgetPassword
  PROVE  ManagerInv' /\ WindowInv'
<1>0. ManagerInv' /\ (Quiet => Quiet')
  BY ResetDataKeeps DEF ForgetPassword
<1>1. ScreensOK'
  BY DEF ManagerInv, WindowInv, ScreensOK, TasksOK, Busy, ForgetPassword, Clicked, ResetData,
     training, files, setup, manager, window
<1>2. PickerOK'
  BY DEF ManagerInv, WindowInv, PickerOK, TasksOK, ScreensOK, ChoicesOK, Choices, Busy,
     ForgetPassword, Clicked, ResetData, training, files, setup, manager, window, FilesOK
<1>3. StarterOK'
  BY <1>0 DEF ManagerInv, WindowInv, StarterOK, Quiet, ForgetPassword, Clicked, ResetData,
     training, files, setup, manager, window, HeldOK
<1> QED BY <1>0, <1>1, <1>2, <1>3 DEF WindowInv, ChoicesOK, TasksOK, ExportsOK, AppliesOK,
     Changed, ForgetPassword, Clicked, ResetData, training, files, setup, manager, window

LEMMA DeleteItemKeeps ==
  ASSUME ManagerInv, WindowInv, NEW r \in Records, DeleteItem(r)
  PROVE  ManagerInv' /\ WindowInv'
<1>0. ManagerInv' /\ (Quiet => Quiet')
  BY DeleteRecordKeeps DEF DeleteItem
<1>1. StarterOK'
  BY <1>0 DEF ManagerInv, WindowInv, StarterOK, Quiet, DeleteItem, Clicked, DeleteRecord,
     training, files, setup, manager, window, HeldOK
<1> QED BY <1>0, <1>1 DEF WindowInv, ChoicesOK, TasksOK, ExportsOK, AppliesOK, ScreensOK,
     PickerOK, Changed, Busy, DeleteItem, Clicked, DeleteRecord, training, files, setup, manager,
     window

\* A training starts only when no text is left from another.
LEMMA StartedKeeps ==
  ASSUME ManagerInv, WindowInv, Started
  PROVE  ManagerInv' /\ WindowInv'
<1>0. /\ StartTraining(starter.parent, starter.stabilize) /\ starter' = NoStart
      /\ UNCHANGED <<core, active, settings, task, screen, picker>>
      /\ starter.at = "waits" /\ NoText
      /\ starter.parent \in 0..MaxRuns /\ starter.stabilize \in BOOLEAN
  BY DEF WindowInv, StarterOK, Quiet, Started
<1>1. ManagerInv'
  BY <1>0, StartTrainingKeeps
<1>2. models' = models /\ mutex' = mutex
  BY <1>0 DEF StartTraining, files
<1>3. starter' = [at |-> "no", parent |-> 0, stabilize |-> FALSE] /\ 0 \in 0..MaxRuns
  BY <1>0, RunsAssumption DEF NoStart
<1>4. StarterOK'
  BY <1>0, <1>3 DEF WindowInv, StarterOK
<1>5. ChoicesOK' /\ TasksOK' /\ ExportsOK' /\ AppliesOK' /\ ScreensOK' /\ PickerOK'
  BY <1>0, <1>2 DEF WindowInv, ChoicesOK, TasksOK, ExportsOK, AppliesOK, Changed, ScreensOK, Busy,
     PickerOK
<1> QED BY <1>1, <1>4, <1>5 DEF WindowInv

LEMMA NotStartedKeeps ==
  ASSUME ManagerInv, WindowInv, NotStarted
  PROVE  ManagerInv' /\ WindowInv'
<1>0. ManagerInv' /\ (Quiet => Quiet')
  BY DEF ManagerInv, FilesOK, SetupOK, WorkerOK, WorldOK, HeldOK, RunsOK, TextsOK,
     CompletedLeavesNone, DownloadOK, InstallOK, Completed, NoText, OneDataset,
     ErasedTextsStayErased, PublishedIsComplete, Aside, Quiet, NotStarted, NoStart, training,
     files, setup, manager
<1>1. StarterOK'
  BY RunsAssumption DEF NotStarted, NoStart, WindowInv, StarterOK
<1> QED BY <1>0, <1>1 DEF WindowInv, ChoicesOK, TasksOK, ExportsOK, AppliesOK, ScreensOK,
     PickerOK, Changed, Busy, NotStarted, NoStart, training, files, setup, manager, window

\* The end of the service.
LEMMA QuitKeeps ==
  ASSUME ManagerInv, WindowInv, Quit
  PROVE  ManagerInv' /\ WindowInv'
<1>0. ManagerInv' /\ (Quiet => Quiet')
  BY DEF ManagerInv, FilesOK, SetupOK, WorkerOK, WorldOK, HeldOK, RunsOK, TextsOK,
     CompletedLeavesNone, DownloadOK, InstallOK, Completed, NoText, OneDataset,
     ErasedTextsStayErased, PublishedIsComplete, Aside, Quiet, Quit, training, files, setup,
     manager
<1>1. StarterOK'
  BY <1>0 DEF ManagerInv, WindowInv, StarterOK, Quiet, Quit, training, files, setup, manager,
     window, HeldOK
<1> QED BY <1>0, <1>1 DEF WindowInv, ChoicesOK, TasksOK, ExportsOK, AppliesOK, ScreensOK,
     PickerOK, Changed, Busy, Quit, training, files, setup, manager, window

LEMMA StopKeeps ==
  ASSUME ManagerInv, WindowInv, Stop
  PROVE  ManagerInv' /\ WindowInv'
<1>0. ManagerInv' /\ (Quiet => Quiet')
  BY DEF ManagerInv, FilesOK, SetupOK, WorkerOK, WorldOK, HeldOK, RunsOK, TextsOK,
     CompletedLeavesNone, DownloadOK, InstallOK, Completed, NoText, OneDataset,
     ErasedTextsStayErased, PublishedIsComplete, Aside, Quiet, Stop, training, files, setup,
     manager
<1>1. StarterOK'
  BY <1>0 DEF ManagerInv, WindowInv, StarterOK, Quiet, Stop, training, files, setup, manager,
     window, HeldOK
<1> QED BY <1>0, <1>1 DEF WindowInv, ChoicesOK, TasksOK, ExportsOK, AppliesOK, ScreensOK,
     PickerOK, Changed, Busy, Stop, training, files, setup, manager, window

LEMMA DestroyKeeps ==
  ASSUME ManagerInv, WindowInv, Destroy
  PROVE  ManagerInv' /\ WindowInv'
<1>0. ManagerInv' /\ (Quiet => Quiet')
  BY DiscardPreparedKeeps DEF Destroy
<1>1. ChoicesOK'
  BY DiscardPreparedKeeps DEF WindowInv, ChoicesOK, Destroy
<1>2. ScreensOK'
  BY DEF ManagerInv, WindowInv, ScreensOK, TasksOK, Busy, Destroy, DiscardPrepared, Discard,
     NotPrepared, Picker, training, files, setup, manager, window
<1>3. PickerOK'
  BY DEF ManagerInv, WindowInv, PickerOK, TasksOK, ScreensOK, ChoicesOK, Choices, Busy,
     Destroy, DiscardPrepared, Discard, NotPrepared, Picker, training, files, setup, manager,
     window, FilesOK
<1>4. StarterOK'
  BY <1>0 DEF ManagerInv, WindowInv, StarterOK, Quiet, Destroy, DiscardPrepared, Discard,
     NotPrepared, Picker, training, files, setup, manager, window, HeldOK
<1> QED BY <1>0, <1>1, <1>2, <1>3, <1>4 DEF WindowInv, TasksOK, ExportsOK, AppliesOK, Changed,
           Destroy, DiscardPrepared, Discard, NotPrepared, Picker, training, files, setup,
           manager, window

LEMMA CancelOperationKeeps ==
  ASSUME ManagerInv, WindowInv, CancelOperation
  PROVE  ManagerInv' /\ WindowInv'
<1>0. ManagerInv' /\ (Quiet => Quiet')
  BY CancelKeeps DEF CancelOperation, CancelsAtExit
<1>1. StarterOK'
  BY <1>0 DEF ManagerInv, WindowInv, StarterOK, Quiet, CancelOperation, CancelsAtExit, Cancel,
     training, files, setup, manager, window, HeldOK
<1> QED BY <1>0, <1>1 DEF WindowInv, ChoicesOK, TasksOK, ExportsOK, AppliesOK, ScreensOK,
     PickerOK, Changed, Busy, CancelOperation, CancelsAtExit, Cancel, training, files, setup,
     manager, window

\* What a thread knows while it works: it alone does, and nothing is to be adopted
\* but what it saved itself.
LEMMA OnlyOneWorks ==
  ASSUME WindowInv, NEW t \in Threads, Busy(t)
  PROVE  /\ task[t] \in Tasks
         /\ t = "ui" => task[t].what \in {"apply", "device"}
         /\ t = "restore" => task[t].what \in {"prepare", "apply"}
         /\ task[t].at # "adopt" => active = settings
         /\ \A u \in Threads : u # t => task[u].at = "idle"
         /\ t = "ui" => picker.prepared = NoModel /\ ~picker.fresh
         /\ t = "restore" /\ task[t].what # "prepare" => ~picker.fresh
BY OneTask DEF WindowInv, Busy, AppliesOK, TasksOK, ScreensOK, PickerOK

\* A thread goes on, or ends, and the core and the settings stay.
LEMMA ThreadGoesOn ==
  ASSUME WindowInv, NEW t \in Threads, task[t].at \notin {"idle", "adopt", "yes", "no"},
         UNCHANGED <<core, active, settings, screen, picker, starter>>,
         \/ \E at \in {"reload", "export"} :
              /\ TaskGoes(t, at) /\ (at = "reload" => task[t].what = "apply")
              /\ (at = "export" => mutex' = t /\ task[t].what # "device")
         \/ \E result \in {"yes", "no"} : Returns(t, result),
         core.model \in models', settings.model \in models', mutex' \in {mutex, t, Nobody},
         task[t].at # "export" => mutex' = mutex \/ mutex = Nobody,
         task[t].at = "export" => mutex = t,
         Quiet => Quiet'
  PROVE  WindowInv'
<1>1. /\ task[t] \in Tasks /\ active = settings
      /\ t = "ui" => task[t].what \in {"apply", "device"}
      /\ t = "restore" => task[t].what \in {"prepare", "apply"}
      /\ \A u \in Threads : u # t => task[u].at = "idle"
  BY OnlyOneWorks DEF Busy
<1>2. /\ task' \in [Threads -> Tasks]
      /\ \/ /\ task'[t].at \in {"reload", "export"}
            /\ task'[t].at = "reload" => task[t].what = "apply"
            /\ task'[t].at = "export" => mutex' = t /\ task[t].what # "device"
         \/ t = "restore" /\ task'[t].at \in {"yes", "no"}
         \/ t = "ui" /\ task'[t] = NoTask
      /\ \/ t = "ui" /\ task'[t] = NoTask
         \/ /\ task'[t].what = task[t].what /\ task'[t].model = task[t].model
            /\ task'[t].device = task[t].device /\ task'[t].fresh = task[t].fresh
      /\ \A u \in Threads : u # t => task'[u] = task[u]
  BY TaskMoves, TaskReturns DEF WindowInv, Steps, Threads
<1>3. ChoicesOK' /\ StarterOK'
  BY DEF WindowInv, ChoicesOK, StarterOK
<1>4. TasksOK'
  BY <1>2, NoTaskIsTask, <1>1 DEF WindowInv, TasksOK, Threads
<1>5. ExportsOK'
  BY <1>1, <1>2, NoTaskIsTask DEF WindowInv, ExportsOK
<1>6. AppliesOK'
  BY <1>1, <1>2, NoTaskIsTask DEF WindowInv, AppliesOK, Changed
<1>7. ScreensOK'
  BY <1>1, <1>2, NoTaskIsTask DEF WindowInv, ScreensOK, Busy, Threads
<1>8. PickerOK'
  BY <1>1, <1>2, NoTaskIsTask DEF WindowInv, PickerOK, Threads
<1> QED BY <1>3, <1>4, <1>5, <1>6, <1>7, <1>8 DEF WindowInv

\* The calls of a thread, step by step.
LEMMA FileThereKeeps ==
  ASSUME ManagerInv, WindowInv, NEW t \in Threads, FileThere(t) \/ NotExportable(t)
  PROVE  ManagerInv' /\ WindowInv'
<1>1. /\ ManagerInv' /\ (Quiet => Quiet') /\ models' = models /\ mutex' = mutex
      /\ UNCHANGED <<core, active, settings, screen, picker, starter>> /\ task[t].at = "check"
  BY ManagerStays DEF FileThere, NotExportable, Does, training, files, manager
<1>2. \/ TaskGoes(t, "reload") /\ task[t].what # "prepare"
      \/ \E result \in {"yes", "no"} : Returns(t, result)
  BY DEF FileThere, NotExportable
<1>3. task[t].what # "prepare" => task[t].what = "apply"
  BY <1>1 DEF WindowInv, TasksOK, Tasks
<1>4. core.model \in models' /\ settings.model \in models'
  BY <1>1 DEF WindowInv, ChoicesOK
<1> QED BY <1>1, <1>2, <1>3, <1>4, ThreadGoesOn

LEMMA ExportFileKeeps ==
  ASSUME ManagerInv, WindowInv, NEW t \in Threads, ExportFile(t)
  PROVE  ManagerInv' /\ WindowInv'
BY ExportBeginsKeeps, ThreadGoesOn DEF ExportFile, Exportable, Does, ExportBegins, files,
   WindowInv, ChoicesOK, TasksOK

LEMMA FileExportedKeeps ==
  ASSUME ManagerInv, WindowInv, NEW t \in Threads, FileExported(t)
  PROVE  ManagerInv' /\ WindowInv'
BY ExportEndsKeeps, ThreadGoesOn DEF FileExported, Does, WindowInv, TasksOK, Tasks,
   ExportsOK, ChoicesOK, ExportEnds

LEMMA FileNotExportedKeeps ==
  ASSUME ManagerInv, WindowInv, NEW t \in Threads, FileNotExported(t)
  PROVE  ManagerInv' /\ WindowInv'
BY ExportFailsKeeps, ThreadGoesOn DEF FileNotExported, Does, WindowInv, ExportsOK,
   ChoicesOK, ExportFails, files

LEMMA ReplaceFailsKeeps ==
  ASSUME ManagerInv, WindowInv, NEW t \in Threads, ReplaceFails(t) \/ SaveFails(t)
  PROVE  ManagerInv' /\ WindowInv'
BY FaultKeeps, ManagerStays, ThreadGoesOn DEF ReplaceFails, SaveFails, Does, training,
   WindowInv, ChoicesOK, files, manager

\* A thread that changes the core knows what is running now.
LEMMA OnlyOneApplies ==
  ASSUME WindowInv, NEW t \in Threads, task[t].at \in {"reload", "save", "adopt", "prune"}
  PROVE  /\ task[t].what \in {"apply", "device"} /\ (t = "restore" => task[t].what = "apply")
         /\ task[t].what = "apply" => task[t].model \in Models
         /\ task[t].what = "device" => task[t].device \in Devices
         /\ task[t].at # "adopt" => active = settings
         /\ \A u \in Threads : u # t => task[u].at = "idle"
         /\ ~picker.fresh
BY OnlyOneWorks DEF Busy, WindowInv, TasksOK, Threads

\* The core is replaced, then the settings, then what the next change starts from.
LEMMA ReplaceCoreKeeps ==
  ASSUME ManagerInv, WindowInv, NEW t \in Threads, ReplaceCore(t)
  PROVE  ManagerInv' /\ WindowInv'
<1>1. /\ task[t].at = "reload" /\ TaskGoes(t, "save") /\ core' = Changed(t, active)
      /\ core'.model \in models
      /\ UNCHANGED <<training, active, settings, screen, picker, starter>>
  BY DEF ReplaceCore, Does
<1>2. ManagerInv' /\ (Quiet => Quiet') /\ models' = models /\ mutex' = mutex
  BY <1>1, ManagerStays DEF training, files, manager
<1>3. /\ active = settings /\ ~picker.fresh
      /\ task[t].what \in {"apply", "device"} /\ (t = "restore" => task[t].what = "apply")
      /\ task[t].what = "apply" => task[t].model \in Models
      /\ task[t].what = "device" => task[t].device \in Devices
      /\ \A u \in Threads : u # t => task[u].at = "idle"
  BY <1>1, OnlyOneApplies
<1>4. /\ task' \in [Threads -> Tasks] /\ task'[t].at = "save" /\ task'[t].what = task[t].what
      /\ task'[t].model = task[t].model /\ task'[t].device = task[t].device
      /\ task'[t].fresh = task[t].fresh
      /\ \A u \in Threads : u # t => task'[u] = task[u]
  BY <1>1, TaskMoves DEF WindowInv, Steps
<1>5. core' \in Choices
  BY <1>1, <1>3 DEF WindowInv, ChoicesOK, Choices, Changed
<1>6. ChoicesOK' /\ StarterOK'
  BY <1>1, <1>2, <1>5 DEF WindowInv, ChoicesOK, StarterOK
<1>7. TasksOK' /\ ExportsOK'
  BY <1>1, <1>2, <1>3, <1>4 DEF WindowInv, TasksOK, ExportsOK
<1>8. AppliesOK'
  BY <1>1, <1>4, <1>3 DEF Changed, WindowInv, AppliesOK
<1>9. ScreensOK'
  BY <1>1, <1>3, <1>4 DEF WindowInv, ScreensOK, Busy, Threads
<1>10. PickerOK'
  BY <1>1, <1>3, <1>4 DEF WindowInv, TasksOK, Threads, PickerOK
<1> QED BY <1>2, <1>6, <1>7, <1>8, <1>9, <1>10 DEF WindowInv

LEMMA SaveKeeps ==
  ASSUME ManagerInv, WindowInv, NEW t \in Threads, Save(t)
  PROVE  ManagerInv' /\ WindowInv'
<1>1. /\ task[t].at = "save" /\ TaskGoes(t, "adopt") /\ settings' = Changed(t, settings)
      /\ UNCHANGED <<training, core, active, screen, picker, starter>>
  BY DEF Save, Does
<1>2. ManagerInv' /\ (Quiet => Quiet') /\ models' = models /\ mutex' = mutex
  BY <1>1, ManagerStays DEF training, files, manager
<1>3. /\ active = settings /\ ~picker.fresh
      /\ task[t].what \in {"apply", "device"} /\ (t = "restore" => task[t].what = "apply")
      /\ \A u \in Threads : u # t => task[u].at = "idle"
  BY <1>1, OnlyOneApplies
<1>4. /\ task' \in [Threads -> Tasks] /\ task'[t].at = "adopt" /\ task'[t].what = task[t].what
      /\ task'[t].model = task[t].model /\ task'[t].device = task[t].device
      /\ task'[t].fresh = task[t].fresh
      /\ \A u \in Threads : u # t => task'[u] = task[u]
  BY <1>1, TaskMoves DEF WindowInv, Steps
<1>5. core = Changed(t, active) /\ settings' = core
  BY <1>1, <1>3 DEF WindowInv, AppliesOK
<1>6. ChoicesOK' /\ StarterOK'
  BY <1>1, <1>2, <1>5 DEF WindowInv, ChoicesOK, StarterOK
<1>7. TasksOK' /\ ExportsOK'
  BY <1>1, <1>2, <1>3, <1>4 DEF WindowInv, TasksOK, ExportsOK
<1>8. AppliesOK'
  BY <1>1, <1>4, <1>5, <1>3 DEF Changed, WindowInv, AppliesOK
<1>9. ScreensOK'
  BY <1>1, <1>3, <1>4 DEF WindowInv, ScreensOK, Busy, Threads
<1>10. PickerOK'
  BY <1>1, <1>3, <1>4 DEF WindowInv, TasksOK, Threads, PickerOK
<1> QED BY <1>2, <1>6, <1>7, <1>8, <1>9, <1>10 DEF WindowInv

LEMMA AdoptKeeps ==
  ASSUME ManagerInv, WindowInv, NEW t \in Threads, Adopt(t)
  PROVE  ManagerInv' /\ WindowInv' /\ core' = active' /\ active' = settings'
<1>1. /\ task[t].at = "adopt" /\ active' = Changed(t, active)
      /\ \/ task[t].what = "device" /\ Returns(t, "yes")
         \/ task[t].what # "device" /\ TaskGoes(t, "prune")
      /\ UNCHANGED <<training, core, settings, screen, picker, starter>>
  BY DEF Adopt, Adopted, Does
<1>2. ManagerInv' /\ (Quiet => Quiet') /\ models' = models /\ mutex' = mutex
  BY <1>1, ManagerStays DEF training, files, manager
<1>3. /\ task[t].what \in {"apply", "device"} /\ (t = "restore" => task[t].what = "apply")
      /\ task[t].what = "apply" => task[t].model \in Models
      /\ \A u \in Threads : u # t => task[u].at = "idle"
  BY <1>1, OnlyOneApplies
<1>4. core = Changed(t, active) /\ settings = core /\ active' = core
  BY <1>1 DEF WindowInv, AppliesOK
<1>5. /\ task' \in [Threads -> Tasks]
      /\ \/ t = "ui" /\ task'[t] = NoTask
         \/ /\ task'[t].at = "prune" /\ task'[t].what = "apply" /\ task[t].what = "apply"
            /\ task'[t].model = task[t].model /\ task'[t].fresh = task[t].fresh
      /\ \A u \in Threads : u # t => task'[u] = task[u]
  BY <1>1, <1>3, TaskReturns, TaskMoves DEF WindowInv, Threads, Steps
<1>6. task[t].what = "apply" => core.model = task[t].model
  BY <1>4 DEF WindowInv, ChoicesOK, Choices, Changed
<1>7. ChoicesOK' /\ StarterOK'
  BY <1>1, <1>2, <1>4 DEF WindowInv, ChoicesOK, StarterOK
<1>8. TasksOK' /\ ExportsOK'
  BY <1>1, <1>2, <1>3, <1>5, NoTaskIsTask DEF WindowInv, TasksOK, ExportsOK
<1>9. AppliesOK'
  BY <1>1, <1>4, <1>3, <1>5, NoTaskIsTask, <1>6 DEF AppliesOK
<1>10. ScreensOK' /\ PickerOK'
  BY <1>1, <1>3, <1>5, NoTaskIsTask DEF WindowInv, ScreensOK, Busy, PickerOK, Threads
<1> QED BY <1>1, <1>2, <1>4, <1>7, <1>8, <1>9, <1>10 DEF WindowInv

LEMMA PruneOthersKeeps ==
  ASSUME ManagerInv, WindowInv, NEW t \in Threads, PruneOthers(t)
  PROVE  ManagerInv' /\ WindowInv' /\ core' = active' /\ active' = settings'
<1>1. /\ task[t].at = "prune" /\ PruneModels(task[t].model) /\ Returns(t, "yes")
      /\ UNCHANGED <<core, active, settings, screen, picker, starter>>
  BY DEF PruneOthers, Does
<1>2. core = active /\ active = settings /\ core.model = task[t].model
  BY <1>1, OnlyOneWorks DEF Busy, WindowInv, AppliesOK
<1>3. task[t].model \in Models
  BY <1>2 DEF WindowInv, ChoicesOK, Choices
<1>4. ManagerInv' /\ (Quiet => Quiet')
  BY <1>1, <1>3, PruneModelsKeeps
<1>5. mutex' = mutex /\ core.model \in models' /\ settings.model \in models'
  BY <1>1, <1>2 DEF WindowInv, ChoicesOK, PruneModels, Obsolete, manager
<1>6. WindowInv'
  BY <1>1, <1>4, <1>5, ThreadGoesOn
<1> QED BY <1>1, <1>2, <1>4, <1>6

\* A crash, and the start after it.
LEMMA CrashKeeps ==
  ASSUME ManagerInv, WindowInv, Crash
  PROVE  ManagerInv' /\ WindowInv'
BY KilledKeeps, WindowStays DEF Crash, Killed, files

\* The new service runs the model of the settings, or the default one.
LEMMA RestartKeeps ==
  ASSUME ManagerInv, WindowInv, Restart
  PROVE  ManagerInv' /\ WindowInv'
<1>1. ManagerInv' /\ models' = models
  BY RestartsKeeps DEF Restart, Restarts, files
<1>2. PICK model \in models : /\ core' = Choice(model, settings.device)
                              /\ model = IF settings.model \in models THEN settings.model
                                                                      ELSE Default
  BY DEF ManagerInv, FilesOK, Restart
<1>3. /\ active' = core' /\ settings' = settings /\ starter' = NoStart /\ screen' = "page"
      /\ picker' = [prepared |-> NoModel, fresh |-> FALSE]
      /\ \A t \in Threads : task'[t] = NoTask
      /\ task' \in [Threads -> Tasks]
  BY NoTaskIsTask DEF Restart, NotPrepared, Picker
<1>4. model \in Models /\ settings \in Choices /\ settings.model \in models
  BY DEF ManagerInv, FilesOK, WindowInv, ChoicesOK
<1>5. core' = settings
  BY <1>2, <1>4 DEF Choice, Choices
<1>6. ChoicesOK' /\ TasksOK' /\ ExportsOK' /\ AppliesOK'
  BY <1>1, <1>3, <1>4, <1>5, NoTaskIsTask DEF ChoicesOK, TasksOK, ExportsOK, AppliesOK
<1>7. ScreensOK' /\ PickerOK' /\ StarterOK'
  BY <1>3, NoTaskIsTask, RunsAssumption
    DEF ScreensOK, Busy, PickerOK, StarterOK, NoStart, Threads
<1> QED BY <1>1, <1>6, <1>7 DEF WindowInv

\* The operation, the trainer and their failures.
LEMMA OperationKeeps ==
  ASSUME ManagerInv, WindowInv,
         Operation \/ Trainer \/ ((Throws \/ RenameFails \/ RollsBack) /\ UNCHANGED window)
           \/ (Commit /\ UNCHANGED window)
  PROVE  ManagerInv' /\ WindowInv'
<1>0. UNCHANGED window
  BY DEF Operation, Trainer
<1>1. CASE Cancelled \/ TrainBegin \/ TrainRefused \/ WriteDataset \/ Train \/ RemoveDataset
             \/ Stabilize \/ Export \/ Complete \/ NotCompleted \/ Offer
  <2>1. ManagerInv' /\ (Quiet => Quiet')
    BY <1>1, CancelledKeeps, TrainBeginKeeps, TrainRefusedKeeps, WriteDatasetKeeps, TrainKeeps,
       RemoveDatasetKeeps, CompleteKeeps, NotCompletedKeeps, OfferKeeps
  <2>2. models' = models /\ mutex' = mutex
    BY <1>1 DEF Cancelled, Stops, TrainBegin, TrainRefused, WriteDataset, Train, RemoveDataset,
       Stabilize, Export, Starts, Complete, NotCompleted, Offer, files
  <2> QED BY <1>0, <2>1, <2>2, WindowStays
<1>2. CASE DownloadBegin \/ RemoveAsset \/ PlaceAsset \/ RemoveCurrent \/ NameRevision
             \/ Registers \/ InstallBegin \/ Unpack \/ Swap \/ Select \/ Prune
  <2>1. ManagerInv' /\ (Quiet => Quiet')
    BY <1>2, DownloadBeginKeeps, RemoveAssetKeeps, PlaceAssetKeeps, RemoveCurrentKeeps,
       NameRevisionKeeps, RegistersKeeps, InstallBeginKeeps, UnpackKeeps, SwapKeeps, SelectKeeps,
       PruneKeeps
  <2>2. models' = models /\ mutex' = mutex
    BY <1>2 DEF DownloadBegin, RemoveAsset, PlaceAsset, RemoveCurrent, NameRevision, Registers,
       InstallBegin, Unpack, Swap, Select, Prune, files
  <2> QED BY <1>0, <2>1, <2>2, WindowStays
<1>3. CASE Trained \/ Stabilized \/ Exported
  BY <1>3, TrainedKeeps, StabilizedKeeps, ExportedKeeps, <1>0, WindowStays DEF Trained,
     Stabilized, Exported
<1>4. CASE Throws \/ RenameFails \/ RollsBack \/ Commit
  <2>1. ManagerInv' /\ (Quiet => Quiet')
    BY <1>4, ThrowsKeeps, RenameFailsKeeps, RollsBackKeeps, CommitKeeps
  <2>2. models' = models /\ mutex' = mutex
    BY <1>4 DEF Throws, RenameFails, RollsBack, Stops, Commit, manager
  <2> QED BY <1>0, <2>1, <2>2, WindowStays
<1> QED BY <1>1, <1>2, <1>3, <1>4 DEF Operation, Trainer

\* All that happens while the service runs.
LEMMA ModelStepKeeps ==
  ASSUME ManagerInv, WindowInv, ModelStep
  PROVE  ManagerInv' /\ WindowInv'
<1>1. CASE Window
  BY <1>1, ShowPickerKeeps, ApplyPreparedKeeps, ClosePickerKeeps, PrepareKeeps,
     SaveModelPathKeeps, ApplyInferenceKeeps, ShowLoraKeeps, CloseLoraKeeps, CancelLoraKeeps,
     LoraActionKeeps, AskPasswordKeeps, NotCleanKeeps, ForgetPasswordKeeps, DeleteItemKeeps,
     ConfirmPasswordKeeps
    DEF Window
<1>2. CASE Operation \/ Trainer \/ (Commit /\ UNCHANGED window)
  BY <1>2, OperationKeeps
<1>3. CASE Failure
  BY OperationKeeps, FileNotExportedKeeps, ReplaceFailsKeeps, <1>3 DEF TaskFails, Failure
<1>4. CASE \E t \in Threads : Works(t)
  BY <1>4, FileThereKeeps, ExportFileKeeps, FileExportedKeeps, ReplaceCoreKeeps, SaveKeeps,
     AdoptKeeps, PruneOthersKeeps
    DEF Works
<1>5. CASE RestoreFinished \/ Started \/ NotStarted
  BY <1>5, RestoreFinishedKeeps, StartedKeeps, NotStartedKeeps
<1> QED BY <1>1, <1>2, <1>3, <1>4, <1>5 DEF ModelStep

\* Steps of the updates leave the rest alone.
LEMMA WindowNothing ==
  ASSUME ManagerInv, WindowInv, UNCHANGED vars
  PROVE  ManagerInv' /\ WindowInv'
BY ManagerStays, WindowStays DEF vars, training, files, manager

-----------------------------------------------------------------------------
(***************************************************************************)
(* The invariant as a whole, and what follows from it.                     *)
(***************************************************************************)
SettingsInv == ManagerInv /\ WindowInv /\ PageInv

\* Every use begins in the invariant.
LEMMA InitKeeps == Init => SettingsInv
<1> SUFFICES ASSUME NEW use \in Uses, ModelInit(use), PageInit(use.page)
             PROVE  SettingsInv
  BY DEF Init
<1>1. PICK n \in 0..MaxRuns : use.trained = 1..n
  BY UsesAssumption
<1>2. use.trained \subseteq Runs /\ Cardinality(use.trained) = n
  <2>1. n \in Nat /\ 1 \in Int /\ n \in Int
    BY RunsAssumption
  <2>2. Cardinality(1..n) = IF 1 > n THEN 0 ELSE n - 1 + 1
    BY <2>1, FS_Interval
  <2> QED BY <1>1, <2>1, <2>2, RunsAssumption DEF Runs
<1>3. /\ use.records \subseteq Records /\ use.current \in Revisions \union {0}
      /\ use.selected \in Releases \union {0} /\ use.trainer \in {"other", "ours"}
      /\ use.faults \in Nat /\ use.kills \in Nat
  BY UsesAssumption
<1>4. Completed = use.trained
  <2>1. history = {Run(r, 0, 1) : r \in use.trained}
    BY DEF ModelInit
  <2>2. \A r \in use.trained : Run(r, 0, 1).run = r
    BY DEF Run
  <2> QED BY <2>1, <2>2 DEF Completed
<1>5. FilesOK
  BY <1>2, RunsAssumption, RevisionsAssumption, <1>3 DEF Run, ModelInit, FilesOK, Models
<1>6. SetupOK
  BY <1>3 DEF TrainerStates, ModelInit, SetupOK
<1>7. WorkerOK /\ WorldOK
  BY <1>1, <1>2, <1>3, IdleIsWorker, RunsAssumption, RevisionsAssumption
    DEF ModelInit, WorkerOK, WorldOK
<1>8. HeldOK
  BY DEF ModelInit, HeldOK, Idle, Worker
<1>9. RunsOK
  <2>1. /\ world.run = n /\ worker = Idle /\ offered = 0 /\ adapters = use.trained
        /\ n \in Nat /\ \A r \in Completed : r <= n
    BY <1>1, <1>2, <1>4, RunsAssumption DEF ModelInit
  <2> QED BY <1>4, <2>1 DEF RunsOK, Idle
<1>10. TextsOK /\ NoText
  BY <1>2, <1>4 DEF ModelInit, TextsOK, CompletedLeavesNone, NoText, OneDataset,
     ErasedTextsStayErased, Idle
<1>11. DownloadOK /\ InstallOK
  BY <1>3, RevisionsAssumption
    DEF ModelInit, DownloadOK, PublishedIsComplete, InstallOK, Aside, Idle
<1>12. WindowInv
  <2>1. core \in Choices /\ active = core /\ settings = core /\ core.model = Default
    BY DevicesAssumption DEF ModelInit, Choice, Choices, Models
  <2>2. \A t \in Threads : task[t] = NoTask
    BY DEF ModelInit
  <2>3. task \in [Threads -> Tasks]
    BY NoTaskIsTask DEF ModelInit
  <2>4. ChoicesOK /\ TasksOK /\ ExportsOK /\ AppliesOK
    BY <2>1, <2>2, <2>3, NoTaskIsTask DEF ModelInit, ChoicesOK, TasksOK, ExportsOK, AppliesOK
  <2>5. ScreensOK /\ PickerOK /\ StarterOK
    BY <2>2, NoTaskIsTask, RunsAssumption
      DEF ModelInit, ScreensOK, Busy, PickerOK, NotPrepared, Picker, StarterOK, NoStart, Threads
  <2> QED BY <2>4, <2>5 DEF WindowInv
<1>13. PageInv
  <2>1. /\ use.page.installed \in Builds /\ use.page.saved \in Nat
        /\ use.page.offers \in [Channels -> Manifests \union {Unpublished}]
        /\ use.page.next \in Seq(Manifests) /\ use.page.notices \in BOOLEAN
        /\ use.page.clicks \in Nat /\ use.page.faults \in Nat
    BY PagesAssumption
  <2>2. SiteOK /\ SavedOK
    BY <2>1 DEF PageInit, SiteOK, SavedOK, NotInstalling
  <2>3. Failed \in Found /\ ~Installable(Failed)
    BY DEF Failed, Finding, Found, Installable
  <2>4. /\ checker = NotChecking /\ page = NewPage /\ inbox = <<>> /\ installer = NotInstalling
        /\ transfer = NoTransfer /\ asked = NotAsked
    BY DEF PageInit
  <2>6. PageOK /\ InboxOK
    BY <2>4 DEF PageOK, NewPage, NoRows, NoSetup, InboxOK
  <2>7. CheckerOK
    BY <2>3, <2>4 DEF CheckerOK, NotChecking
  <2>8. InstallerOK /\ TransferOK /\ AskedOK
    BY <2>4 DEF InstallerOK, NotInstalling, NoSetup, TransferOK, NoTransfer, AskedOK, NotAsked,
       NewPage, NoChannel
  <2>5. NewerOK
    BY <2>3 DEF PageInit, NewerOK, AllNewer, Newer, NewPage, NoRows, NotChecking
  <2> QED BY <2>2, <2>5, <2>6, <2>7, <2>8 DEF PageInv
<1> QED BY <1>5, <1>6, <1>7, <1>8, <1>9, <1>10, <1>11, <1>12, <1>13 DEF SettingsInv, ManagerInv

\* Every step keeps it.
LEMMA NextKeeps ==
  ASSUME SettingsInv, [Next]_everything
  PROVE  SettingsInv'
<1>1. CASE ModelStep /\ UNCHANGED updates
  BY <1>1, ModelStepKeeps, PageNothing DEF SettingsInv
<1>2. CASE PageStep /\ UNCHANGED vars
  BY <1>2, PageStepKeeps, WindowNothing DEF SettingsInv
<1>3. CASE Leave
  BY <1>3, QuitKeeps, UnsubscribeKeeps DEF Leave, SettingsInv
<1>4. CASE CloseWindow
  BY <1>4, DestroyKeeps, PageClosesKeeps DEF CloseWindow, SettingsInv
<1>5. CASE StopUpdates /\ UNCHANGED vars
  BY <1>5, CancelTransferKeeps, WindowNothing DEF StopUpdates, SettingsInv
<1>6. CASE StopTraining \/ Exit
  BY <1>6, CancelOperationKeeps, StopKeeps, PageNothing DEF StopTraining, Exit, SettingsInv
<1>7. CASE Die
  BY <1>7, CrashKeeps, PageNothing DEF Die, SettingsInv
<1>8. CASE Reopen
  BY <1>8, RestartKeeps, ReopenedKeeps DEF Reopen, SettingsInv
<1>9. CASE UNCHANGED everything
  BY <1>9, WindowNothing, PageNothing DEF everything, SettingsInv
<1> QED BY <1>1, <1>2, <1>3, <1>4, <1>5, <1>6, <1>7, <1>8, <1>9 DEF Next, Leaving

\* The invariant of the settings window, its manager and its updates always
\* holds.
THEOREM SettingsAlwaysHold == Spec => []SettingsInv
<1>1. SettingsInv /\ [Next]_everything => SettingsInv'
  BY NextKeeps
<1> QED BY InitKeeps, <1>1, PTL DEF Spec

\* No two processes of the trainer at once.
LEMMA OneTrainerHolds == ManagerInv => OneTrainer
<1> SUFFICES ASSUME ManagerInv PROVE OneTrainer
  OBVIOUS
<1>1. process \subseteq {mutex} \/ process \subseteq {Worker}
  BY DEF ManagerInv, HeldOK, Threads, Nobody
<1>2. PICK x : process \subseteq {x}
  BY <1>1
<1>3. IsFiniteSet({x}) /\ Cardinality({x}) = 1
  BY FS_Singleton
<1>4. Cardinality(process) <= 1
  BY <1>2, <1>3, FS_Subset
<1>5. process \intersect Threads # {} => ~busy
  BY DEF ManagerInv, HeldOK, Threads, Nobody
<1> QED BY <1>4, <1>5 DEF OneTrainer

\* What the threads and the processes share is well formed, and the trainer is
\* run by one of them at a time, never while an operation changes what it reads
\* (lora_training_manager.cpp, settings_window.cpp).
THEOREM SettingsBookkeeping == Spec => []Bookkeeping
<1>1. SettingsInv => ModelTypeOK
  <2>1. SettingsInv => \A t \in Threads : task[t].model \in Models \union {NoModel}
    BY DEF SettingsInv, WindowInv, TasksOK, Tasks
  <2>2. SettingsInv => picker.prepared \in Models \union {NoModel}
    BY DEF SettingsInv, WindowInv, PickerOK
  <2> QED BY <2>1, <2>2
        DEF ModelTypeOK, SettingsInv, ManagerInv, FilesOK, WorldOK, HeldOK, RunsOK
<1>2. SettingsInv => UpdateTypeOK
  BY DEF UpdateTypeOK, SettingsInv, PageInv, PageOK, CheckerOK, InstallerOK, TransferOK, InboxOK
<1>3. SettingsInv => Bookkeeping
  BY <1>1, <1>2, OneTrainerHolds DEF SettingsInv, Bookkeeping
<1> QED BY <1>3, SettingsAlwaysHold, PTL

\* A training that has completed left none of its texts on the disk; what any
\* other has left is gone when the next one's password is asked for, never are the
\* texts of two there at once, and none that was erased comes back
\* (lora_training_manager.cpp, training_data_cleanup.cpp).
THEOREM TextsAlwaysGo == Spec => []TextsGo
<1>1. SettingsInv => TextsGo
  <2> SUFFICES ASSUME SettingsInv PROVE TextsGo
    OBVIOUS
  <2>1. CompletedLeavesNone /\ OneDataset /\ ErasedTextsStayErased
    BY DEF SettingsInv, ManagerInv, TextsOK
  <2>2. NoneBeforeNext
    BY DEF SettingsInv, WindowInv, StarterOK, Quiet, NoText, ManagerInv, TextsOK,
       CompletedLeavesNone, Completed, NoneBeforeNext, At
  <2> QED BY <2>1, <2>2 DEF TextsGo
<1> QED BY <1>1, SettingsAlwaysHold, PTL

\* The models that run and that the settings name, the revision and the trainer
\* that are selected are there in full, and the setup that is run is the one
\* that was asked for and newer (lora_training_manager.cpp,
\* update_installer.cpp).
THEOREM NamedIsAlwaysThere == Spec => []NamedIsThere
<1>1. SettingsInv => ModelsStay
  BY DEF SettingsInv, WindowInv, ChoicesOK, ModelsStay
<1>2. SettingsInv => PublishedIsComplete /\ TrainerStays
  BY DEF SettingsInv, ManagerInv, DownloadOK, InstallOK, Aside, TrainerStays, TrainerThere
<1>3. SettingsInv => UpdatesAsAsked
  BY DEF SettingsInv, PageInv, SavedOK, AskedOK, InstallerOK, UpdatesAsAsked, NoneUnasked,
     SetupIsOffered
<1> QED BY <1>1, <1>2, <1>3, SettingsAlwaysHold, PTL DEF NamedIsThere

\* A change that is reported as made is what the core runs, and what the
\* settings and the next change say (main.cpp, service_settings).
THEOREM AppliedIsAlwaysRunning == Spec => AppliedIsRunning
<1>1. SettingsInv =>
        [\A t \in Threads :
           (Adopt(t) \/ PruneOthers(t)) => core' = active' /\ active' = settings']_vars
  BY AdoptKeeps, PruneOthersKeeps DEF SettingsInv
<1> QED BY <1>1, SettingsAlwaysHold, PTL DEF AppliedIsRunning
=============================================================================
