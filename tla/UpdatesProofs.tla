---------------------------- MODULE UpdatesProofs ----------------------------
(* Proofs about Updates: the polls and the update entity leave the release    *)
(* check as it is, so that what is proved of ReleaseCheck holds of both, and  *)
(* what is published of a node has its type.                                  *)
EXTENDS Updates, ReleaseCheckProofs

\* A step of the polls, of the node or of the user leaves the release check
\* alone, and any other is one of its steps.
LEMMA CheckStep == [UNext]_uvars => [Next]_vars
<1> SUFFICES ASSUME [UNext]_uvars PROVE Next \/ UNCHANGED vars
  OBVIOUS
<1>1. CASE \/ Install \/ UpgradeElsewhere \/ UpgradeEnds \/ PollVersion
           \/ PollFails \/ MachineStatus \/ StatusFails
  BY <1>1 DEF Install, UpgradeElsewhere, Upgraded, UpgradeEnds, PollVersion,
              PollFails, MachineStatus, StatusFails, StatusRead
<1>2. CASE UNCHANGED uvars
  BY <1>2 DEF uvars
<1> QED
  BY <1>1, <1>2 DEF UNext, Surroundings, CheckBegins, GivenUp, Next

\* The polls, the node and the entity add to the release check and change
\* nothing of it (coordinator.py:120-159).
THEOREM KeepsReleaseCheck == USpec => Spec
<1>1. UInit => Init
  BY DEF UInit
<1> QED
  BY <1>1, CheckStep, PTL DEF USpec, Spec

\* coordinator.py:332-348: so the published version is fresh enough.
THEOREM FreshEnoughWithNode == USpec => []FreshEnough
BY KeepsReleaseCheck, FreshEnoughHolds, PTL

-----------------------------------------------------------------------------
(* Types.                                                                     *)

\* Readings that are not published do not look like ones that are.
LEMMA ReadingsApart ==
  /\ Offline \in Shown
  /\ \A r \in Awaited, s \in Stages : [r EXCEPT !.stage = s] \in Shown
BY DEF Offline, Shown, Awaited, Stages

\* An upgrade that begins is to a release.
LEMMA UpgradeType ==
  ASSUME TypeOK, NodeTypeOK, Install \/ UpgradeElsewhere
  PROVE  \E version \in Release : Upgraded(version)
<1>1. CASE UpgradeElsewhere
  BY <1>1 DEF UpgradeElsewhere
<1>2. CASE Install
  <2>1. target # None
    BY <1>2, TimesAssumption
    DEF Install, Offered, LatestVersion, InstalledVersion, NodeTypeOK, Shown,
        Offline, Release, None
  <2> QED
    BY <1>2, <2>1 DEF Install, LatestVersion, TypeOK
<1> QED
  BY <1>1, <1>2

LEMMA NodeTypeStep ==
  TypeOK /\ NodeTypeOK /\ [UNext]_uvars => NodeTypeOK'
<1> SUFFICES ASSUME TypeOK, NodeTypeOK, [UNext]_uvars PROVE NodeTypeOK'
  OBVIOUS
<1> USE DEF NodeTypeOK
<1>1. CASE Install \/ UpgradeElsewhere
  <2>1. PICK version \in Release : Upgraded(version)
    BY <1>1, UpgradeType
  <2> QED
    BY <2>1 DEF Upgraded
<1>2. CASE UpgradeEnds
  BY <1>2 DEF UpgradeEnds
<1>3. CASE PollVersion
  BY <1>3 DEF PollVersion, Awaited
<1>4. CASE PollFails
  BY <1>4, ReadingsApart DEF PollFails
<1>5. CASE MachineStatus \/ StatusFails
  <2>1. PICK stage \in Stages : StatusRead(stage)
    BY <1>5 DEF MachineStatus, StatusFails, Stage, Stages
  <2> QED
    BY <2>1, ReadingsApart DEF StatusRead
<1>6. CASE NodePublished
  BY <1>6 DEF NodePublished, Polled
<1>7. CASE NodeForgotten
  BY <1>7, ReadingsApart DEF NodeForgotten
<1>8. CASE GivenUp
  BY <1>8 DEF GivenUp
<1>9. CASE UNCHANGED nodeVars
  BY <1>9 DEF nodeVars
<1> QED
  BY <1>1, <1>2, <1>3, <1>4, <1>5, <1>6, <1>7, <1>8, <1>9
  DEF UNext, Surroundings, CheckBegins, uvars

\* coordinator.py:219-261: what is published of a node was polled to its end.
THEOREM NodeTypeCorrect == USpec => []NodeTypeOK
<1>1. USpec => []TypeOK
  BY KeepsReleaseCheck, TypeCorrect, PTL
<1>2. UInit => NodeTypeOK
  BY ReadingsApart DEF UInit, NodeTypeOK
<1> QED
  BY <1>1, <1>2, NodeTypeStep, PTL DEF USpec

-----------------------------------------------------------------------------
(* How the entity comes to the truth.                                         *)

\* A step that disturbs nothing is one of these.
Undisturbed ==
  \/ Tick /\ UNCHANGED nodeVars
  \/ PollVersion
  \/ MachineStatus
  \/ AnswerFromCache /\ NodePublished
  \/ CheckBegins
  \/ FetchSucceeds /\ NodePublished

LEMMA UndisturbedSteps == UNext /\ ~NodeDisturbance => Undisturbed
BY DEF UNext, NodeDisturbance, Disturbance, Undisturbed, Surroundings, GivenUp

\* What such a step leaves alone.
LEMMA WorldKept ==
  ASSUME Undisturbed
  PROVE  /\ UNCHANGED <<upstream, pin, running, upgrade>>
         /\ Truth' = Truth /\ TargetVersion(upstream)' = TargetVersion(upstream)
<1>1. UNCHANGED <<upstream, pin, running, upgrade>>
  BY DEF Undisturbed, Tick, PollVersion, MachineStatus, StatusRead,
         AnswerFromCache, Publishes, NodePublished, CheckBegins, BeginFetch,
         FetchSucceeds, vars, entryVars, nodeVars
<1> QED
  BY <1>1 DEF Truth, TargetVersion

\* Readings are told apart by their stage.
LEMMA StagesApart ==
  /\ \A r \in Awaited : r.stage = "awaited" /\ r # Unread
  /\ \A r \in Shown : r.stage # "awaited" /\ r # Unread
<1>1. ASSUME NEW v, NEW s PROVE [version |-> v, stage |-> s] # Unread
  BY DEF Unread
<1>2. \A r \in Awaited : r = [version |-> r.version, stage |-> r.stage]
  BY DEF Awaited
<1>3. \A r \in Shown : r = [version |-> r.version, stage |-> r.stage]
  BY DEF Shown, Offline
<1>4. \A r \in Shown : r.stage # "awaited"
  BY DEF Shown, Offline, Stages
<1>5. \A r \in Awaited : r.stage = "awaited"
  BY DEF Awaited
<1> QED
  BY <1>1, <1>2, <1>3, <1>4, <1>5

\* Nothing that is read of the truth looks like nothing, and the version alone
\* not like all of it.
LEMMA TruthApart ==
  /\ Unread # Truth
  /\ Unread # [Truth EXCEPT !.stage = "awaited"]
  /\ Truth.stage # "awaited"
  /\ [Truth EXCEPT !.stage = "awaited"].stage = "awaited"
  /\ [Truth EXCEPT !.stage = "awaited"] =
       [version |-> running, stage |-> "awaited"]
BY DEF Unread, Truth

\* A refresh that read the truth, and whose check is not behind, settles the
\* entity when it is published.
LEMMA TruthSettles ==
  ASSUME Undisturbed, read = Truth, read' = Unread,
         pc = "idle" => latestVersion = upstream
  PROVE  Settled'
<1>1. CASE AnswerFromCache /\ NodePublished
  BY <1>1, WorldKept
  DEF AnswerFromCache, Publishes, NodePublished, Settled, cacheVars, Throttled,
      TargetVersion
<1>2. CASE FetchSucceeds /\ NodePublished
  BY <1>2, WorldKept
  DEF FetchSucceeds, Publishes, NodePublished, Settled, TargetVersion
<1>3. UNCHANGED nodeVars => read' # Unread
  BY TruthApart DEF nodeVars
<1>4. ~PollVersion /\ ~MachineStatus
  BY TruthApart DEF PollVersion, MachineStatus, StatusRead, Awaited
<1> QED
  BY <1>1, <1>2, <1>3, <1>4 DEF Undisturbed, CheckBegins

\* Of an undisturbed step nothing unsettles the entity.
LEMMA SettledKept ==
  ASSUME TypeOK, Undisturbed, Settled
  PROVE  Settled'
<1> USE WorldKept, TimesAssumption
<1>1. CASE Tick /\ UNCHANGED nodeVars
  <2>1. Throttled' => Throttled
    BY <1>1 DEF Tick, Throttled, Older, TypeOK, Never
  <2> QED
    BY <1>1, <2>1 DEF Tick, nodeVars, dataVars, entryVars, Settled
<1>2. CASE PollVersion
  BY <1>2, TruthApart
  DEF PollVersion, Settled, vars, entryVars, cacheVars, dataVars, Throttled
<1>3. CASE MachineStatus
  <2>1. read = [Truth EXCEPT !.stage = "awaited"]
    BY <1>3, TruthApart, StagesApart DEF MachineStatus, StatusRead, Settled
  <2>2. read' = Truth
    BY <1>3, <2>1, TruthApart DEF MachineStatus, StatusRead, Stage, Truth
  <2> QED
    BY <1>3, <2>2
    DEF MachineStatus, StatusRead, Settled, vars, entryVars, cacheVars,
        dataVars, Throttled
<1>4. CASE CheckBegins
  BY <1>4
  DEF CheckBegins, BeginFetch, nodeVars, entryVars, cacheVars, dataVars,
      Settled, Throttled
<1>5. CASE NodePublished /\ (AnswerFromCache \/ FetchSucceeds)
  <2>1. read = Truth
    BY <1>5, TruthApart, StagesApart DEF NodePublished, Polled, Settled
  <2>2. pc = "idle" => latestVersion = upstream
    BY <1>5 DEF AnswerFromCache, FetchSucceeds, Settled
  <2> QED
    BY <1>5, <2>1, <2>2, TruthSettles DEF NodePublished
<1> QED
  BY <1>1, <1>2, <1>3, <1>4, <1>5 DEF Undisturbed

\* update.py:64-81, for any releases and times: the entity comes to the truth
\* by these steps and nothing undisturbed takes it away; what only TLC checks
\* of ShownIsTrue is that the steps are taken.
THEOREM SettlesUndisturbedHolds == USpec => SettlesUndisturbed
<1> DEFINE Settles ==
      ~NodeDisturbance =>
        /\ /\ read = Truth /\ read' = Unread
           /\ pc = "idle" => latestVersion = upstream
           => Settled'
        /\ Settled => Settled'
<1>1. TypeOK /\ [UNext]_uvars => [Settles]_uvars
  <2> SUFFICES ASSUME TypeOK, UNext, ~NodeDisturbance PROVE Settles
    OBVIOUS
  <2>1. Undisturbed
    BY UndisturbedSteps
  <2> QED
    BY <2>1, TruthSettles, SettledKept
<1>2. USpec => []TypeOK
  BY KeepsReleaseCheck, TypeCorrect, PTL
<1> QED
  BY <1>1, <1>2, PTL DEF USpec, SettlesUndisturbed

\* update.py:64-81: and a settled entity offers an update exactly when the node
\* runs less than the newest release or the pin, and is in progress exactly
\* when the node is being upgraded.
THEOREM SettledIsTrue ==
  ASSUME TypeOK, NodeTypeOK, Settled
  PROVE  /\ Offered <=> running < TargetVersion(upstream)
         /\ InProgress <=> upgrade # None
<1>1. node.version = running /\ (node.stage = "upgrading" <=> upgrade # None)
  BY DEF Settled, Truth
<1>2. running # None /\ target # None /\ target = TargetVersion(upstream)
  BY TimesAssumption DEF Settled, TargetVersion, TypeOK, NodeTypeOK, Release, None
<1> QED
  BY <1>1, <1>2 DEF Offered, InProgress, InstalledVersion, LatestVersion
=============================================================================
