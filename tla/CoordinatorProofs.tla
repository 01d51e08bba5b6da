------------------------- MODULE CoordinatorProofs -------------------------
(* Proofs about Coordinator, for any set of addresses, any endpoint and any   *)
(* endpoints of the talosconfig.  The safety properties are not inductive by  *)
(* themselves: what makes a prune right was settled two awaits earlier, when  *)
(* the node list arrived.  IInv below carries those facts across the awaits.  *)
EXTENDS Coordinator, TLAPS

-----------------------------------------------------------------------------
(* The inductive invariant.                                                   *)

\* The history variable covers every address that no machine is listed under.
UnlistedCovers == Address \ Listable \subseteq unlisted

\* The entry is loaded from the first publication to the unload, and before
\* it nothing is known or shown.
EntryCoherent ==
  /\ pc = "off" => ~loaded
  /\ pc = "idle" => loaded
  /\ ~loaded => known = {} /\ data = NothingShown

\* While the polls run, an address missing from a complete list was no machine's
\* when the list was made.
ListIsCluster ==
  pc = "poll" /\ discoveryComplete => Address \ nodes \subseteq unlisted

\* An assembled node map has a status for every node, and after a complete
\* discovery the registry holds no other node.
MapAssembled ==
  pc = "fetch" =>
    /\ \A a \in nodes : answer[a] \in {"online", "offline"}
    /\ discoveryComplete => devices \subseteq nodes

\* What is shown is known, and what is known has entities or lost them.
KnownAccounted ==
  /\ Shown \subseteq known
  /\ known \subseteq entities \cup removed

\* From the update of the issue on, it is up only for a certificate near its
\* end.
IssueCoherent == (pc = "fetch" \/ loaded) /\ certIssue => certNear

IInv ==
  /\ TypeOK
  /\ UnlistedCovers
  /\ EntryCoherent
  /\ ListIsCluster
  /\ MapAssembled
  /\ NoOrphanDevice
  /\ KnownAccounted
  /\ IssueCoherent

-----------------------------------------------------------------------------
(* Lemmas.                                                                    *)

\* A fallback list is a non-empty set of addresses.
LEMMA FallbackType == FallbackNodes \in SUBSET Address /\ FallbackNodes # {}
BY EndpointAssumption, CredEndpointsAssumption DEF FallbackNodes

\* What can be listed are addresses, and changes only with the cluster.
LEMMA ListableType == TypeOK => Listable \subseteq Address
BY DEF TypeOK, Listable

LEMMA ListableKept == chosen' = chosen => Listable' = Listable
BY DEF Listable

\* Publication shows exactly the listed nodes.
LEMMA NodeMapShows ==
  ASSUME TypeOK, \A a \in nodes : answer[a] \in {"online", "offline"}
  PROVE  /\ NodeMap \in [Address -> Statuses]
         /\ {a \in Address : NodeMap[a] # "absent"} = nodes
<1>1. nodes \subseteq Address
  BY DEF TypeOK
<1>2. \A a \in Address : NodeMap[a] = IF a \in nodes THEN answer[a] ELSE "absent"
  BY DEF NodeMap
<1>3. NodeMap \in [Address -> Statuses]
  BY <1>1 DEF NodeMap, Statuses
<1>4. {a \in Address : NodeMap[a] # "absent"} = nodes
  BY <1>1, <1>2
<1> QED
  BY <1>3, <1>4

\* The program's states at the start satisfy the invariant.
LEMMA InitInv == Init => IInv
<1> SUFFICES ASSUME Init PROVE IInv
  OBVIOUS
<1>1. TypeOK
  BY DEF Init, TypeOK, NothingShown, NothingAsked, Answers, Statuses
<1>2. Shown = {}
  BY DEF Init, Shown, NothingShown
<1> QED
  BY <1>1, <1>2 DEF Init, IInv, UnlistedCovers, EntryCoherent, ListIsCluster,
                    MapAssembled, NoOrphanDevice, KnownAccounted, IssueCoherent

\* However a call ends, a poll comes to one of the answers.
LEMMA PollSteps ==
  ASSUME (\E a \in Address : PollAnswers(a)) \/ PollFails
  PROVE  \E a \in Address, r \in Answers : PollEnds(a, r)
<1>1. \A e \in UnaryEndings : Polled(e) \in Answers
  BY DEF Polled, Answers
<1>2. "online" \in Answers
  BY DEF Answers
<1> QED
  BY <1>1, <1>2 DEF PollAnswers, PollFails

\* Every step keeps every variable in its type.
LEMMA TypeStep == IInv /\ [Next]_vars => TypeOK'
<1> SUFFICES ASSUME IInv, [Next]_vars PROVE TypeOK'
  OBVIOUS
<1> TypeOK
  BY DEF IInv
<1> USE DEF TypeOK, vars, clusterVars, viewVars, refreshVars, haVars
<1>1. CASE MembersChange
  <2>1. /\ UNCHANGED <<certNear, pc, loaded, success, suspended, data, nodes,
                       discoveryComplete, answer, certIssue, known, entities,
                       devices, removed>>
        /\ unlisted' = unlisted \cup (Address \ Listable')
    BY <1>1 DEF MembersChange
  <2>2. chosen' \in [Machine -> Address \cup {NotListed}]
    BY <1>1, IPv4Assumption DEF MembersChange
  <2> QED
    BY <2>1, <2>2
<1>2. CASE CertNears
  BY <1>2 DEF CertNears
<1>3. CASE Setup
  BY <1>3 DEF Setup
<1>4. CASE Unload \/ SetupEnds
  BY <1>4 DEF Unload, SetupEnds, Discard, NothingAsked, NothingShown,
              Answers, Statuses
<1>5. CASE StartScheduled \/ StartRequested
  BY <1>5 DEF StartScheduled, StartRequested, BeginRefresh
<1>6. CASE Discovered \/ DiscoveryFails
  BY <1>6, FallbackType, ListableType
  DEF Discovered, DiscoveryFails, Listed, FromCluster, NothingAsked, Answers
<1>7. CASE \E a \in Address, r \in Answers : PollEnds(a, r)
  BY <1>7 DEF PollEnds
<1>8. CASE AuthFails
  BY <1>8 DEF AuthFails, NothingAsked, Answers
<1>9. CASE Assemble
  BY <1>9 DEF Assemble, Pruned, StaleDevices, IssueRaised
<1>10. CASE Publish
  <2>1. data' \in [Address -> Statuses]
    BY <1>10, NodeMapShows DEF Publish, IInv, MapAssembled
  <2> QED
    BY <1>10, <2>1 DEF Publish, NewNodes, NothingAsked, Answers
<1>11. CASE DiscoveryBreaks
  BY <1>4, <1>11 DEF DiscoveryBreaks
<1>12. CASE UNCHANGED vars
  BY <1>12
<1>13. ASSUME NEW a \in Address, DeleteDevice(a) PROVE TypeOK'
  BY <1>13 DEF DeleteDevice
<1> QED
  BY <1>1, <1>2, <1>3, <1>4, <1>5, <1>6, <1>7, <1>8, <1>9, <1>10, <1>11,
     <1>12, <1>13, PollSteps
  DEF Next, SetupFails

\* Every step keeps the rest of the invariant.
LEMMA InvStep == IInv /\ [Next]_vars => IInv'
<1> SUFFICES ASSUME IInv, [Next]_vars PROVE IInv'
  OBVIOUS
<1>0. TypeOK'
  BY TypeStep
<1> USE DEF IInv, UnlistedCovers, EntryCoherent, ListIsCluster, MapAssembled,
            NoOrphanDevice, KnownAccounted, IssueCoherent, Shown, Listable,
            vars, clusterVars, viewVars, refreshVars, haVars
<1>1. CASE MembersChange
  BY <1>0, <1>1 DEF MembersChange
<1>3. ASSUME NEW a \in Address, DeleteDevice(a) PROVE IInv'
  BY <1>0, <1>3 DEF DeleteDevice
<1>4. CASE CertNears
  BY <1>0, <1>4 DEF CertNears
<1>5. CASE Setup
  BY <1>0, <1>5 DEF Setup
<1>6. CASE Unload \/ SetupEnds
  <2>1. Shown' = {}
    BY <1>6 DEF Unload, SetupEnds, Discard, NothingShown
  <2> QED
    BY <1>0, <1>6, <2>1 DEF Unload, SetupEnds, Discard
<1>7. CASE StartScheduled \/ StartRequested
  BY <1>0, <1>7 DEF StartScheduled, StartRequested, BeginRefresh
<1>8. CASE Discovered \/ DiscoveryFails
  \* A complete list is all that can be listed: what it lacks is in unlisted.
  <2>1. discoveryComplete' => nodes' = Listable
    BY <1>8 DEF Discovered, DiscoveryFails, Listed, FromCluster
  <2>2. ListIsCluster'
    BY <1>8, <2>1 DEF Discovered, DiscoveryFails, Listed
  <2> QED
    BY <1>0, <1>8, <2>2 DEF Discovered, DiscoveryFails, Listed
<1>9. ASSUME NEW a \in Address, NEW r \in Answers, PollEnds(a, r) PROVE IInv'
  BY <1>0, <1>9 DEF PollEnds
<1>10. CASE AuthFails
  BY <1>0, <1>10 DEF AuthFails
<1>11. CASE Assemble
  \* All polled and none rejected leaves two answers; the prune leaves no
  \* device outside the list, and counts what it takes from the known nodes.
  <2>1. \A a \in nodes : answer[a] \in {"online", "offline"}
    BY <1>11 DEF Assemble, AllPolled, Rejected, TypeOK, Answers
  <2>2. discoveryComplete => devices' \subseteq nodes
    BY <1>11 DEF Assemble, Pruned, StaleDevices
  <2>3. known' \subseteq entities' \cup removed'
    BY <1>11 DEF Assemble
  <2> QED
    BY <1>0, <1>11, <2>1, <2>2, <2>3 DEF Assemble, IssueRaised
<1>12. CASE Publish
  <2>1. Shown' = nodes
    BY <1>12, NodeMapShows DEF Publish
  <2>2. KnownAccounted'
    BY <1>12, <2>1 DEF Publish, NewNodes
  <2>3. NoOrphanDevice'
    BY <1>12, <2>1 DEF Publish, NewNodes
  <2> QED
    BY <1>0, <1>12, <2>1, <2>2, <2>3 DEF Publish
<1>13. CASE DiscoveryBreaks
  <2>1. CASE SetupEnds
    BY <1>6, <2>1
  <2>2. CASE loaded /\ ~SetupEnds
    <3>1. /\ pc' = "idle" /\ ~success' /\ loaded'
          /\ UNCHANGED <<chosen, certNear, data, certIssue, known, entities,
                         devices, unlisted, removed>>
      BY <1>13, <2>2 DEF DiscoveryBreaks
    <3>2. /\ (UnlistedCovers /\ EntryCoherent /\ ListIsCluster /\ MapAssembled)'
          /\ NoOrphanDevice' /\ IssueCoherent'
      BY <2>2, <3>1
    <3>3. KnownAccounted'
      BY <3>1
    <3> QED
      BY <1>0, <3>2, <3>3
  <2> QED
    BY <1>13, <2>1, <2>2 DEF DiscoveryBreaks
<1>14. CASE UNCHANGED vars
  BY <1>0, <1>14
<1> QED
  BY <1>1, <1>3, <1>4, <1>5, <1>6, <1>7, <1>8, <1>9, <1>10, <1>11, <1>12,
     <1>13, <1>14, PollSteps
  DEF Next, SetupFails

\* The invariant holds in every reachable state.
THEOREM Invariance == Spec => []IInv
BY InitInv, InvStep, PTL DEF Spec

-----------------------------------------------------------------------------
(* The properties.                                                            *)

\* coordinator.py, entity.py: every variable keeps its type; in particular no
\* unfinished or refused poll is ever published as a status.
THEOREM TypeCorrect == Spec => []TypeOK
<1>1. IInv => TypeOK
  BY DEF IInv
<1> QED
  BY Invariance, <1>1, PTL

\* coordinator.py:199-217: once a refresh that discovered the cluster has been
\* published, the registry holds no device of any other node.
THEOREM NoOrphanDeviceHolds == Spec => []NoOrphanDevice
<1>1. IInv => NoOrphanDevice
  BY DEF IInv
<1> QED
  BY Invariance, <1>1, PTL

\* entity.py:94-115: a published node lacks its entities only if they were
\* removed with its device after they had been added.
THEOREM ShownHasEntitiesHolds == Spec => []ShownHasEntities
<1>1. IInv => ShownHasEntities
  BY DEF IInv, KnownAccounted, ShownHasEntities
<1> QED
  BY Invariance, <1>1, PTL

\* coordinator.py:161-183: a loaded entry's issue is about its certificate.
THEOREM NoFalseCertIssueHolds == Spec => []NoFalseCertIssue
<1>1. IInv => NoFalseCertIssue
  BY DEF IInv, IssueCoherent, NoFalseCertIssue
<1> QED
  BY Invariance, <1>1, PTL

\* coordinator.py:149-150, 185-217: the refresh removes a device only if its
\* address was, at some time since the refresh began, none that discovery takes
\* of any machine, whatever changes, fails or is deleted between its awaits.
THEOREM PruneIsJustifiedHolds == Spec => PruneIsJustified
<1>1. IInv /\ [Next]_vars
        => [pc = "poll" /\ pc' # "poll"
              => (devices \ devices') \subseteq unlisted]_vars
  <2> SUFFICES ASSUME IInv, Next, pc = "poll", pc' # "poll"
               PROVE  (devices \ devices') \subseteq unlisted
    OBVIOUS
  <2>1. Assemble \/ AuthFails \/ SetupFails \/ Unload
    BY DEF Next, MembersChange, DeleteDevice, CertNears, Setup, StartScheduled,
           StartRequested, BeginRefresh, Discovered, DiscoveryFails, Listed,
           DiscoveryBreaks, PollAnswers, PollFails, PollEnds, Publish
  <2>2. CASE Assemble
    BY <2>2 DEF Assemble, Pruned, StaleDevices, IInv, ListIsCluster, TypeOK
  <2>3. CASE AuthFails \/ SetupFails \/ Unload
    BY <2>3 DEF AuthFails, SetupFails, SetupEnds, Unload, haVars
  <2> QED
    BY <2>1, <2>2, <2>3
<1> QED
  BY Invariance, <1>1, PTL DEF Spec, PruneIsJustified

\* coordinator.py:130-134, 185-192: a refresh that is refused, or that ends
\* with an error nobody expects, leaves the published map, the devices, the
\* entities and the issue as they were.
THEOREM RejectionChangesNothingHolds == Spec => RejectionChangesNothing
<1>1. [Next]_vars
        => [success /\ ~success' => UNCHANGED <<data, haVars, certIssue>>]_vars
  <2> SUFFICES ASSUME Next, success, ~success'
               PROVE  UNCHANGED <<data, haVars, certIssue>>
    OBVIOUS
  <2>1. AuthFails \/ (DiscoveryBreaks /\ ~SetupEnds)
    BY DEF Next, MembersChange, DeleteDevice, CertNears, Setup, Unload, Discard,
           StartScheduled, StartRequested, BeginRefresh, Discovered,
           DiscoveryFails, Listed, PollAnswers, PollFails, PollEnds, SetupFails,
           SetupEnds, Assemble, Publish, viewVars
  <2> QED
    BY <2>1 DEF AuthFails, DiscoveryBreaks, haVars
<1> QED
  BY <1>1, PTL DEF Spec, RejectionChangesNothing

-----------------------------------------------------------------------------
(* How the view settles.                                                      *)

\* A step that disturbs nothing is one of these.
Undisturbed ==
  \/ \E a \in Address : DeleteDevice(a)
  \/ CertNears
  \/ Setup
  \/ BeginRefresh
  \/ Discovered
  \/ \E a \in Address : PollAnswers(a)
  \/ AuthFails
  \/ SetupFails
  \/ Assemble
  \/ Publish

LEMMA UndisturbedSteps == Next /\ ~Disturbance => Undisturbed
BY DEF Next, Disturbance, Undisturbed, StartScheduled, StartRequested

\* Undisturbed, a discovery that can list any member puts the refresh on
\* course.
LEMMA DiscoveryOnCourse ==
  ASSUME IInv, Undisturbed, Listable # {}, pc = "discover", pc' # "discover"
  PROVE  OnCourse'
<1>1. Discovered
  BY DEF Undisturbed, DeleteDevice, CertNears, Setup, BeginRefresh,
         PollAnswers, PollEnds, AuthFails, SetupFails, Assemble, Publish
<1>2. /\ pc' = "poll" /\ nodes' = Listable /\ Listable' = Listable
      /\ discoveryComplete' /\ answer' = NothingAsked
  BY <1>1, ListableKept DEF Discovered, Listed, FromCluster, clusterVars
<1>3. Listable \subseteq Address
  BY ListableType DEF IInv
<1> QED
  BY <1>2, <1>3 DEF OnCourse, NothingAsked

\* No poll of a refresh on course was refused.
LEMMA NotRejected == OnCourse => ~Rejected
BY DEF OnCourse, Rejected

\* A refresh on course stays so until it is published, and is published as the
\* cluster is.
LEMMA CourseKept ==
  ASSUME IInv, Undisturbed, OnCourse
  PROVE  OnCourse' \/ (Settled' /\ pc' = "idle")
<1> USE DEF OnCourse
<1>1. ASSUME NEW a \in Address, DeleteDevice(a) PROVE OnCourse'
  BY <1>1, ListableKept DEF DeleteDevice, clusterVars, viewVars, refreshVars
<1>2. CASE CertNears
  BY <1>2, ListableKept DEF CertNears, viewVars, refreshVars, haVars
<1>3. ASSUME NEW a \in Address, PollAnswers(a) PROVE OnCourse'
  <2>1. /\ answer' = [answer EXCEPT ![a] = "online"] /\ pc = "poll"
        /\ UNCHANGED <<Listable, pc, nodes, discoveryComplete, devices>>
    BY <1>3, ListableKept DEF PollAnswers, PollEnds, clusterVars, haVars
  <2> QED
    BY <2>1 DEF IInv, TypeOK
<1>4. CASE Assemble
  <2>1. /\ pc' = "fetch" /\ devices' = devices \ (devices \ nodes)
        /\ UNCHANGED <<Listable, nodes, discoveryComplete, answer>>
    BY <1>4, ListableKept
    DEF Assemble, Pruned, StaleDevices, clusterVars, refreshVars
  <2> QED
    BY <2>1
<1>5. CASE Publish
  <2>1. /\ pc = "fetch" /\ pc' = "idle" /\ loaded' /\ data' = NodeMap
        /\ devices' = devices \cup NewNodes /\ Listable' = Listable
    BY <1>5, ListableKept DEF Publish, clusterVars
  <2>2. \A a \in nodes : answer[a] = "online"
    BY <2>1 DEF IInv, MapAssembled
  <2>3. {a \in Address : NodeMap[a] # "absent"} = nodes
    BY <2>2, NodeMapShows DEF IInv
  <2>4. \A a \in Listable : NodeMap[a] = "online"
    BY <2>2 DEF NodeMap, IInv, TypeOK
  <2>5. devices' \subseteq Listable
    BY <2>1 DEF NewNodes
  <2>6. Shown' = Listable
    BY <2>1, <2>3 DEF Shown
  <2> QED
    BY <2>1, <2>4, <2>5, <2>6 DEF Settled
<1>6. ~Setup /\ ~BeginRefresh /\ ~Discovered /\ ~AuthFails /\ ~SetupFails
  BY NotRejected
  DEF Setup, BeginRefresh, Discovered, Listed, AuthFails, SetupFails
<1> QED
  BY <1>1, <1>2, <1>3, <1>4, <1>5, <1>6 DEF Undisturbed

\* A settled entry stays so.
LEMMA SettledKept ==
  ASSUME IInv, Undisturbed, Listable # {}, Settled
  PROVE  Settled'
<1>1. CASE OnCourse
  <2>1. OnCourse' \/ (Settled' /\ pc' = "idle")
    BY <1>1, CourseKept
  <2>2. CASE OnCourse' /\ ~Publish
    <3>1. UNCHANGED <<Listable, loaded, data>> /\ devices' \subseteq devices
      BY <1>1, <2>2, NotRejected, ListableKept
      DEF Undisturbed, DeleteDevice, CertNears, Setup, BeginRefresh, Discovered,
          Listed, PollAnswers, PollEnds, AuthFails, SetupFails, Assemble,
          clusterVars, viewVars, haVars
    <3> QED
      BY <2>2, <3>1 DEF Settled, Shown
  <2>3. CASE Publish
    BY <2>1, <2>3 DEF Publish, OnCourse
  <2> QED
    BY <2>1, <2>2, <2>3
<1>2. CASE ~OnCourse
  <2>1. pc \notin {"poll", "fetch", "off"}
    BY <1>2 DEF Settled, IInv, EntryCoherent
  <2>2. UNCHANGED <<Listable, loaded, data>> /\ devices' \subseteq devices
    BY <2>1, ListableKept
    DEF Undisturbed, DeleteDevice, CertNears, Setup, BeginRefresh, Discovered,
        Listed, PollAnswers, PollEnds, AuthFails, SetupFails, Assemble, Publish,
        clusterVars, viewVars, haVars
  <2>3. pc' \in {"poll", "fetch"} => pc = "discover"
    BY <2>1
    DEF Undisturbed, DeleteDevice, CertNears, Setup, BeginRefresh, Discovered,
        Listed, PollAnswers, PollEnds, AuthFails, SetupFails, Assemble, Publish
  <2>4. pc' \in {"poll", "fetch"} => OnCourse'
    BY <2>3, DiscoveryOnCourse
  <2> QED
    BY <2>2, <2>4 DEF Settled, Shown
<1> QED
  BY <1>1, <1>2

\* coordinator.py:106-159, for any addresses: the view settles by these steps
\* and is not unsettled by any that is not a disturbance; what only TLC checks
\* of Converges is that the steps are taken.
THEOREM SettlesUndisturbedHolds == Spec => SettlesUndisturbed
<1> DEFINE Settles ==
      ~Disturbance /\ Listable # {} =>
        /\ pc = "discover" /\ pc' # "discover" => OnCourse'
        /\ OnCourse => OnCourse' \/ (Settled' /\ pc' = "idle")
        /\ Settled => Settled'
<1>1. IInv /\ [Next]_vars => [Settles]_vars
  <2> SUFFICES ASSUME IInv, Next, ~Disturbance, Listable # {}
               PROVE  /\ pc = "discover" /\ pc' # "discover" => OnCourse'
                      /\ OnCourse => OnCourse' \/ (Settled' /\ pc' = "idle")
                      /\ Settled => Settled'
    OBVIOUS
  <2>1. Undisturbed
    BY UndisturbedSteps
  <2> QED
    BY <2>1, DiscoveryOnCourse, CourseKept, SettledKept
<1> QED
  BY Invariance, <1>1, PTL DEF Spec, SettlesUndisturbed
=============================================================================
