------------------------------- MODULE Updates -------------------------------
(* The update entity of one node: the version it says is installed, the one   *)
(* it offers and whether an upgrade is under way.  The first comes from the   *)
(* polls of a refresh, the second from the release check of ReleaseCheck that *)
(* ends it, and both are published together, while the node is upgraded       *)
(* through the entity or by other means.                                      *)
EXTENDS ReleaseCheck

VARIABLES
  running,   \* the version the node runs
  upgrade,   \* the version it is being upgraded to, or None
  read,      \* what the refresh in flight has read of the node
  node       \* the node in coordinator.data.nodes

nodeVars == <<running, upgrade, read, node>>
uvars == <<vars, nodeVars>>

Unread == [none |-> TRUE]

\* version and stage of a NodeData.  The stage is awaited after the version;
\* "other" is said of it when it cannot be read or the node is offline, too.
Offline == [version |-> None, stage |-> "other"]
Stages == {"upgrading", "other"}
Shown == [version : Release, stage : Stages] \cup {Offline}
Awaited == [version : Release, stage : {"awaited"}]

-----------------------------------------------------------------------------
(* TalosUpdateEntity.                                                         *)

InstalledVersion == node.version

\* Without a target, nothing newer is known.  (A definition just before the
\* one it resembles is a seeded fault, as in Coordinator.)
LatestOfData == IF latest # None THEN latest ELSE InstalledVersion
LatestVersion == IF target # None THEN target ELSE InstalledVersion

InProgress == node.stage = "upgrading"

\* Home Assistant shows the entity on while the latest version is the newer.
Offered == InstalledVersion # None /\ LatestVersion > InstalledVersion

-----------------------------------------------------------------------------
(* The node.                                                                  *)

Upgraded(version) ==
  /\ upgrade = None
  /\ version # running
  /\ upgrade' = version
  /\ UNCHANGED <<vars, running, read, node>>

\* The user installs what is offered.
Install == Offered /\ ~InProgress /\ Upgraded(LatestVersion)

\* The node is upgraded, or downgraded, by other means.
UpgradeElsewhere == \E version \in Release : Upgraded(version)

UpgradeEnds ==
  /\ upgrade # None
  /\ running' \in {upgrade, running}
  /\ upgrade' = None
  /\ UNCHANGED <<vars, read, node>>

-----------------------------------------------------------------------------
(* The refresh polls the node, checks for a release and publishes both.       *)

PollVersion ==
  /\ pc = "idle"
  /\ read = Unread
  /\ read' = [version |-> running, stage |-> "awaited"]
  /\ UNCHANGED <<vars, running, upgrade, node>>

PollFails ==
  /\ pc = "idle"
  /\ read = Unread
  /\ read' = Offline
  /\ UNCHANGED <<vars, running, upgrade, node>>

Stage == IF upgrade # None THEN "upgrading" ELSE "other"

StatusRead(stage) ==
  /\ read \in Awaited
  /\ read' = [read EXCEPT !.stage = stage]
  /\ UNCHANGED <<vars, running, upgrade, node>>

MachineStatus == StatusRead(Stage)
StatusFails == StatusRead("other")

\* The polls of the refresh have ended.
VersionPolled == read # Unread
Polled == read \in Shown

\* A refresh that was polled is published with the check's answer.
NodePublished ==
  /\ Polled
  /\ node' = read
  /\ read' = Unread
  /\ UNCHANGED <<running, upgrade>>

\* The check is reached after the polls, and does not end the refresh yet.
CheckBegins == Polled /\ BeginFetch /\ UNCHANGED nodeVars

\* A refresh is given up: before the polls when it breaks, after when refused.
GivenUp ==
  /\ \/ RefreshRefused /\ Polled
     \/ RefreshBreaks /\ read = Unread
  /\ read' = Unread
  /\ UNCHANGED <<running, upgrade, node>>

\* The new coordinator knows nothing of the node.
NodeForgotten ==
  /\ read' = Unread
  /\ node' = Offline
  /\ UNCHANGED <<running, upgrade>>

-----------------------------------------------------------------------------
UInit ==
  /\ Init
  /\ running \in Release
  /\ upgrade = None
  /\ read = Unread
  /\ node = Offline

Surroundings == (NewRelease \/ Tick) /\ UNCHANGED nodeVars

UNext ==
  \/ Surroundings
  \/ Reload /\ NodeForgotten
  \/ Install
  \/ UpgradeElsewhere
  \/ UpgradeEnds
  \/ PollVersion
  \/ PollFails
  \/ MachineStatus
  \/ StatusFails
  \/ AnswerFromCache /\ NodePublished
  \/ CheckBegins
  \/ FetchSucceeds /\ NodePublished
  \/ FetchUntagged /\ NodePublished
  \/ FetchFails /\ NodePublished
  \/ GivenUp

USpec == UInit /\ [][UNext]_uvars

\* ReleaseCheck's fairness, and every call of a poll ends.  An upgrade may last
\* for ever.
UFairness ==
  /\ WF_uvars(Tick /\ UNCHANGED nodeVars)
  /\ WF_uvars(polling /\ (PollVersion \/ PollFails))
  /\ WF_uvars(MachineStatus \/ StatusFails)
  /\ WF_uvars(polling /\ (CheckBegins \/ (AnswerFromCache /\ NodePublished)))
  /\ WF_uvars(FetchEnds /\ NodePublished)

ULiveSpec == USpec /\ UFairness

-----------------------------------------------------------------------------
(* Properties.                                                                *)

\* Every variable of the node holds a value of the program's type; what is
\* published has been polled to its end.
NodeTypeOK ==
  /\ running \in Release
  /\ upgrade \in Release \cup {None}
  /\ read \in Shown \cup Awaited \cup {Unread}
  /\ node \in Shown

\* What keeps the entity from the truth.
NodeDisturbance ==
  \/ Disturbance
  \/ Install
  \/ UpgradeElsewhere
  \/ UpgradeEnds
  \/ PollFails
  \/ StatusFails

\* What a poll reads that is not disturbed.
Truth == [version |-> running,
          stage |-> IF upgrade # None THEN "upgrading" ELSE "other"]

\* The entity says what is so, and neither the refresh in flight nor the cache
\* holds anything else.
Settled ==
  /\ polling
  /\ node = Truth
  /\ target = TargetVersion(upstream)
  /\ read \in {Unread, [Truth EXCEPT !.stage = "awaited"], Truth}
  /\ Throttled => latestVersion = upstream

\* The steps by which ShownIsTrue comes about: undisturbed, a refresh that read
\* the truth and asks GitHub, or whose cache is not behind, settles the entity,
\* and nothing unsettles it, neither the cache that later refreshes answer from
\* nor the stage that is read after the version.
SettlesUndisturbed ==
  [][~NodeDisturbance =>
       /\ /\ read = Truth /\ read' = Unread
          /\ pc = "idle" => latestVersion = upstream
          => Settled'
       /\ Settled => Settled']_uvars

\* update.py:64-81: once nothing of that happens any more, the entity of a
\* polling entry comes to offer an update exactly when the node runs less than
\* the newest release, or than the pin, and to be in progress exactly when it
\* is being upgraded, whatever was read and offered before.
ShownIsTrue ==
  <>[][~NodeDisturbance]_uvars
    => <>[](polling => /\ Offered <=> running < TargetVersion(upstream)
                       /\ InProgress <=> upgrade # None)
=============================================================================
