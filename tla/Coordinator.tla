---------------------------- MODULE Coordinator ----------------------------
(* One config entry of the integration: the coordinator that refreshes the    *)
(* cluster's node map, the device registry it prunes, the node entities that  *)
(* are added when a refresh is published, and the hook that lets a user       *)
(* delete a device.                                                           *)
(*                                                                            *)
(* A refresh is not atomic.  It awaits the member list, then every node's     *)
(* poll, then the release check; the cluster and the user act in between.     *)
(* `pc` says where the refresh is:                                            *)
(*    off       the entry is not set up, there is no coordinator              *)
(*    discover  awaiting client.discover_nodes                                *)
(*    poll      awaiting asyncio.gather over _poll_node                       *)
(*    fetch     node map assembled, awaiting _maybe_check_latest              *)
(*    idle      no refresh in flight                                          *)
(*                                                                            *)
(* A definition that stands just before the one it resembles (PrunedUngated   *)
(* before Pruned) is a seeded fault: the same code with a plausible mistake,  *)
(* used only to show which property notices it.                               *)
(*                                                                            *)
(* The program knows the cluster only through its Members resource, and a     *)
(* machine only through the address that discover_nodes takes from the        *)
(* machine's entry: the first known IPv4 address, else the first one, and     *)
(* none of an entry without a spec or an IPv4 address (Discovery has the      *)
(* choice).  A machine may therefore be skipped, or come to be listed under   *)
(* another address, without leaving the cluster, and the list counts as       *)
(* complete.  A node, here as in the program, is an address.                  *)
EXTENDS Calls, FiniteSets, Naturals

CONSTANTS
  Machine,        \* machines that are or may come to be in the cluster
  Address,        \* the addresses a node can have
  IPv4,           \* the addresses that each machine's entry may give
  Endpoint,       \* entry.data[CONF_ENDPOINT]
  CredEndpoints   \* endpoints of the talosconfig's context, possibly none

NotListed == "not listed"

ASSUME IPv4Assumption == IPv4 \in [Machine -> SUBSET Address]
ASSUME NotListedAssumption == NotListed \notin Address
ASSUME EndpointAssumption == Endpoint \in Address
ASSUME CredEndpointsAssumption == CredEndpoints \subseteq Address

VARIABLES
  chosen,             \* the address discover_nodes takes from each machine's
                      \* entry, NotListed if it has no entry or skips it
  pc,                 \* where the refresh is
  loaded,             \* the first refresh succeeded, the entry is LOADED
  success,            \* coordinator.last_update_success
  suspended,          \* the interval timer is not armed
  nodes,              \* addresses returned by _discover_nodes
  discoveryComplete,  \* coordinator._discovery_complete
  answer,             \* what each node's poll of this refresh came to
  data,               \* coordinator.data.nodes, "absent" for a missing key
  certNear,           \* the client certificate is within the warning window
  certIssue,          \* the repair issue cert_expiring exists
  known,              \* register_node_entities' set of addresses handled
  entities,           \* nodes whose entities exist
  devices,            \* nodes with a device in the registry (persistent)
  unlisted,           \* history: addresses that were no machine's at some time
                      \* since the current refresh began
  removed             \* history: nodes whose device was removed after their
                      \* entities had been added by this coordinator

clusterVars == <<chosen, certNear>>
refreshVars == <<nodes, discoveryComplete, answer>>
viewVars    == <<loaded, success, suspended, data>>
haVars      == <<known, entities, devices>>
vars == <<clusterVars, pc, viewVars, refreshVars, certIssue, haVars,
          unlisted, removed>>

Answers == {"pending", "online", "offline", "auth"}
Statuses == {"absent", "online", "offline"}

\* The addresses a discovery would list now.
Listable == {chosen[m] : m \in Machine} \ {NotListed}

\* The keys of coordinator.data.nodes.
Shown == {a \in Address : data[a] # "absent"}

\* creds.endpoints or [endpoint]: the node list when discovery gives nothing.
FallbackNodes == IF CredEndpoints = {} THEN {Endpoint} ELSE CredEndpoints

NothingShown == [a \in Address |-> "absent"]
NothingAsked == [a \in Address |-> "pending"]

\* The node map: one NodeData per listed node, offline when its poll failed.
NodeMap == [a \in Address |-> IF a \in nodes THEN answer[a] ELSE "absent"]

\* Devices _prune_stale_devices removes: of this entry, whatever setup added
\* them, with an address that is not in the node map.
StaleOfThisSetup == (devices \cap known) \ nodes
StaleDevices == devices \ nodes

\* What a refresh prunes: nothing unless its node list came from discovery.
PrunedUngated == StaleDevices
Pruned == IF discoveryComplete THEN StaleDevices ELSE {}

\* async_remove_config_entry_device's answer for a node's device.
MayDelete(a) == a \notin Shown

-----------------------------------------------------------------------------
(* The surroundings: the cluster, the clock and the user.                     *)

\* A machine joins or leaves, its entry gets or loses its spec or its IPv4
\* addresses, or lists them in another order.
MembersChange ==
  /\ \E m \in Machine : \E a \in (IPv4[m] \cup {NotListed}) \ {chosen[m]} :
       chosen' = [chosen EXCEPT ![m] = a]
  /\ unlisted' = unlisted \cup (Address \ Listable')
  /\ UNCHANGED <<certNear, pc, viewVars, refreshVars, certIssue, haVars,
                 removed>>

CertNears ==
  /\ ~certNear
  /\ certNear' = TRUE
  /\ UNCHANGED <<chosen, pc, viewVars, refreshVars, certIssue, haVars,
                 unlisted, removed>>

\* Home Assistant asks the hook, and removes the device and its entities.
DeleteDevice(a) ==
  /\ loaded
  /\ a \in devices
  /\ MayDelete(a)
  /\ devices' = devices \ {a}
  /\ entities' = entities \ {a}
  /\ removed' = removed \cup ({a} \cap known)
  /\ UNCHANGED <<clusterVars, pc, viewVars, refreshVars, certIssue, known,
                 unlisted>>

-----------------------------------------------------------------------------
(* The config entry.                                                          *)

\* The coordinator is discarded: the next one starts with these values, and
\* register_node_entities with an empty set.
Discard ==
  /\ loaded' = FALSE
  /\ success' = TRUE
  /\ suspended' = FALSE
  /\ nodes' = {}
  /\ discoveryComplete' = FALSE
  /\ answer' = NothingAsked
  /\ data' = NothingShown
  /\ known' = {}
  /\ removed' = {}

\* async_setup_entry up to the first refresh, with a new coordinator.
Setup ==
  /\ pc = "off"
  /\ pc' = "discover"
  /\ unlisted' = Address \ Listable
  /\ UNCHANGED <<clusterVars, viewVars, refreshVars, certIssue, haVars,
                 removed>>

\* Unload: the entities and the coordinator go, the devices and the issue
\* stay, a refresh in flight is cancelled.  The reload that follows may bring
\* new credentials.
Unload ==
  /\ loaded
  /\ pc' = "off"
  /\ Discard
  /\ entities' = {}
  /\ certNear' \in {certNear, FALSE}
  /\ UNCHANGED <<chosen, certIssue, devices, unlisted>>

-----------------------------------------------------------------------------
(* A refresh, TalosCoordinator._async_update_data.                            *)

BeginRefresh ==
  /\ pc = "idle"
  /\ pc' = "discover"
  /\ unlisted' = Address \ Listable
  /\ UNCHANGED <<clusterVars, viewVars, refreshVars, certIssue, haVars,
                 removed>>

\* The interval timer, which is not re-armed after ConfigEntryAuthFailed.
StartScheduled == ~suspended /\ BeginRefresh

\* async_request_refresh; a request during a refresh is dropped.
StartRequested == BeginRefresh

\* Where the node list came from.
NeverComplete(found) == FALSE
FromCluster(found) == found # {}

\* The node list, and whether it is the cluster's own (_discover_nodes).
Listed(found) ==
  /\ pc = "discover"
  /\ pc' = "poll"
  /\ nodes' = IF found # {} THEN found ELSE FallbackNodes
  /\ discoveryComplete' = FromCluster(found)
  /\ answer' = NothingAsked
  /\ UNCHANGED <<clusterVars, viewVars, certIssue, haVars, unlisted, removed>>

\* A list of nothing counts as a failure, any other one as the cluster's.
Discovered == Listed(Listable)

\* Any TalosError, an authentication error included.
DiscoveryFails ==
  \E r \in {Streamed(e) : e \in StreamEndings} : r \in Errors /\ Listed({})

\* The first refresh ends with an error, and with it the setup.
SetupEnds ==
  /\ ~loaded
  /\ pc' = "off"
  /\ Discard
  /\ certNear' \in {certNear, FALSE}
  /\ UNCHANGED <<chosen, certIssue, entities, devices, unlisted>>

\* Any other error ends the refresh.  Home Assistant keeps the data and goes on
\* polling, or tries the setup again.
DiscoveryBreaks ==
  /\ \E r \in {Streamed(e) : e \in StreamEndings} : r \notin Errors \cup {"answer"}
  /\ pc = "discover"
  /\ \/ SetupEnds
     \/ /\ loaded
        /\ pc' = "idle"
        /\ success' = FALSE
        /\ suspended' = FALSE
        /\ UNCHANGED <<clusterVars, loaded, data, refreshVars, certIssue,
                       haVars, unlisted, removed>>

\* One node's _poll_node ends: it answered, it did not, or it refused us.
PollEnds(a, result) ==
  /\ pc = "poll"
  /\ a \in nodes
  /\ answer[a] = "pending"
  /\ answer' = [answer EXCEPT ![a] = result]
  /\ UNCHANGED <<clusterVars, pc, viewVars, nodes, discoveryComplete,
                 certIssue, haVars, unlisted, removed>>

\* What a poll comes to with the call for the version: only a refusal of the
\* endpoint's own is one; that of a node behind it shows the node offline.
Polled(ending) ==
  CASE Result(ending) = "answer" -> "online"
    [] Result(ending) = "TalosAuthError" -> "auth"
    [] OTHER -> "offline"

PollAnswers(a) == PollEnds(a, "online")
PollFails ==
  \E a \in Address, result \in {Polled(e) : e \in UnaryEndings \ {"message"}} :
    PollEnds(a, result)

\* asyncio.gather ends with the last poll.
FirstPolled == \E a \in nodes : answer[a] # "pending"
AllOnline == \A a \in nodes : answer[a] = "online"
AllPolled == \A a \in nodes : answer[a] # "pending"
Rejected == \E a \in nodes : answer[a] = "auth"

AuthFailsAfterPruning ==
  /\ pc = "poll"
  /\ AllPolled
  /\ Rejected
  /\ loaded
  /\ pc' = "idle"
  /\ success' = FALSE
  /\ suspended' = TRUE
  /\ nodes' = {}
  /\ answer' = NothingAsked
  /\ devices' = devices \ Pruned
  /\ entities' = entities \ Pruned
  /\ removed' = removed \cup (Pruned \cap known)
  /\ UNCHANGED <<clusterVars, loaded, data, discoveryComplete, certIssue,
                 known, unlisted>>

\* ConfigEntryAuthFailed in a later refresh: the old data stays, the timer is
\* not re-armed, reauthentication is asked for.
AuthFails ==
  /\ pc = "poll"
  /\ AllPolled
  /\ Rejected
  /\ loaded
  /\ pc' = "idle"
  /\ success' = FALSE
  /\ suspended' = TRUE
  /\ nodes' = {}
  /\ answer' = NothingAsked
  /\ UNCHANGED <<clusterVars, loaded, data, discoveryComplete, certIssue,
                 haVars, unlisted, removed>>

\* ConfigEntryAuthFailed in the first refresh: the setup fails.
SetupFails ==
  /\ pc = "poll"
  /\ AllPolled
  /\ Rejected
  /\ SetupEnds

\* _update_cert_issue: raised near expiry, cleared otherwise.
IssueNeverCleared == certIssue \/ certNear
IssueRaised == certNear

\* The node map is complete: prune, update the issue, go to the release check.
Assemble ==
  /\ pc = "poll"
  /\ AllPolled
  /\ ~Rejected
  /\ pc' = "fetch"
  /\ devices' = devices \ Pruned
  /\ entities' = entities \ Pruned
  /\ removed' = removed \cup (Pruned \cap known)
  /\ certIssue' = IssueRaised
  /\ UNCHANGED <<clusterVars, viewVars, refreshVars, known, unlisted>>

\* Nodes register_node_entities' _discover adds entities for.
NewAtSetupOnly == IF loaded THEN {} ELSE nodes
NewNodes == nodes \ known

\* TalosData is returned and published; the listeners (or, the first time, the
\* platforms' setup) add the entities of the nodes they do not know.
Publish ==
  LET new == NewNodes
  IN /\ pc = "fetch"
     /\ pc' = "idle"
     /\ loaded' = TRUE
     /\ success' = TRUE
     /\ suspended' = FALSE
     /\ data' = NodeMap
     /\ nodes' = {}
     /\ answer' = NothingAsked
     /\ known' = known \cup nodes
     /\ entities' = entities \cup new
     /\ devices' = devices \cup new
     /\ UNCHANGED <<clusterVars, discoveryComplete, certIssue, unlisted,
                    removed>>

-----------------------------------------------------------------------------
Init ==
  /\ chosen \in [Machine -> Address \cup {NotListed}]
  /\ \A m \in Machine : chosen[m] \in IPv4[m] \cup {NotListed}
  /\ certNear \in BOOLEAN
  /\ pc = "off"
  /\ loaded = FALSE
  /\ success = TRUE
  /\ suspended = FALSE
  /\ nodes = {}
  /\ discoveryComplete = FALSE
  /\ answer = NothingAsked
  /\ data = NothingShown
  /\ known = {}
  /\ removed = {}
  /\ certIssue = FALSE
  /\ entities = {}
  /\ devices = {}
  /\ unlisted = Address \ Listable

Next ==
  \/ MembersChange
  \/ \E a \in Address : DeleteDevice(a)
  \/ CertNears
  \/ Setup
  \/ Unload
  \/ StartScheduled
  \/ StartRequested
  \/ Discovered
  \/ DiscoveryFails
  \/ DiscoveryBreaks
  \/ \E a \in Address : PollAnswers(a)
  \/ PollFails
  \/ AuthFails
  \/ SetupFails
  \/ Assemble
  \/ Publish

Spec == Init /\ [][Next]_vars

\* Every await of a refresh is bounded by a timeout, so each of its steps is
\* taken; the timer fires.  Nothing is assumed of the cluster or of the user,
\* nor that a call ends well.
Fairness ==
  /\ WF_vars(StartScheduled)
  /\ WF_vars(Discovered \/ DiscoveryFails \/ DiscoveryBreaks)
  /\ \A a \in Address :
       WF_vars(\E r \in Answers \ {"pending"} : PollEnds(a, r))
  /\ WF_vars(AuthFails)
  /\ WF_vars(SetupFails)
  /\ WF_vars(Assemble)
  /\ WF_vars(Publish)

LiveSpec == Spec /\ Fairness

-----------------------------------------------------------------------------
(* Properties.                                                                *)

\* Every variable holds a value of the program's type.
TypeOK ==
  /\ chosen \in [Machine -> Address \cup {NotListed}]
  /\ certNear \in BOOLEAN
  /\ pc \in {"off", "discover", "poll", "fetch", "idle"}
  /\ loaded \in BOOLEAN
  /\ success \in BOOLEAN
  /\ suspended \in BOOLEAN
  /\ nodes \subseteq Address
  /\ discoveryComplete \in BOOLEAN
  /\ answer \in [Address -> Answers]
  /\ data \in [Address -> Statuses]
  /\ certIssue \in BOOLEAN
  /\ known \subseteq Address
  /\ entities \subseteq Address
  /\ devices \subseteq Address
  /\ unlisted \subseteq Address
  /\ removed \subseteq Address

\* The refresh removes only devices of addresses under which, at some moment
\* since that refresh began, no machine was to be listed: neither a discovery
\* that failed nor one that came before a change costs a node its device that
\* the Members resource gives throughout.
PruneIsJustified ==
  [][pc = "poll" /\ pc' # "poll" => (devices \ devices') \subseteq unlisted]_vars

\* After a refresh whose discovery was complete, the registry holds no device
\* that the published node map lacks: leftovers of nodes no longer listed, of
\* earlier setups and of fallback endpoints are gone.
NoOrphanDevice ==
  loaded /\ success /\ discoveryComplete /\ pc = "idle" => devices \subseteq Shown

\* A node of the published map has its entities, unless they were added once
\* and went with its device since the entry was set up.
ShownHasEntities ==
  loaded => Shown \subseteq entities \cup removed

\* A refresh that is refused, or breaks, changes nothing a user sees but
\* availability: not the node map, the devices, the entities or the issue.
RejectionChangesNothing ==
  [][success /\ ~success' => UNCHANGED <<data, haVars, certIssue>>]_vars

\* A loaded entry never warns of a certificate that is not near its end: the
\* issue of the old credentials is gone once the new ones are in use.
NoFalseCertIssue == loaded /\ certIssue => certNear

\* A refresh that began ends, whichever calls fail.
RefreshEnds == pc \in {"discover", "poll", "fetch"} ~> pc \in {"idle", "off"}

\* What keeps the view from settling: a change of what can be listed, a failed
\* call or an unload.
Disturbance ==
  \/ MembersChange
  \/ DiscoveryFails
  \/ DiscoveryBreaks
  \/ PollFails
  \/ Unload

\* If from some time on nothing disturbs a loaded entry whose polling is not
\* suspended, the node map comes to show exactly the members that discovery can
\* list by an IPv4 address, each under the one it takes, all online, and no
\* device of another node is left.
Converges ==
  <>[][~Disturbance]_vars /\ <>[](loaded /\ ~suspended /\ Listable # {})
    => <>[](/\ Shown = Listable
            /\ \A a \in Listable : data[a] = "online"
            /\ devices \subseteq Listable)

\* A refresh that has the cluster's list, of which no poll has failed.
OnCourse ==
  /\ pc \in {"poll", "fetch"}
  /\ discoveryComplete /\ nodes = Listable
  /\ \A a \in nodes : answer[a] \in {"pending", "online"}
  /\ pc = "fetch" => devices \subseteq nodes

\* A loaded entry that shows the members that can be listed as they are, and
\* whose refresh in flight, if it has its list, is on course to show the same.
Settled ==
  /\ loaded
  /\ Shown = Listable
  /\ \A a \in Listable : data[a] = "online"
  /\ devices \subseteq Listable
  /\ pc \in {"poll", "fetch"} => OnCourse

\* The steps by which Converges comes about: undisturbed, a discovery puts the
\* refresh on course, a refresh on course ends in nothing but a settled entry,
\* and that stays settled through any later refresh, deletion or request.
SettlesUndisturbed ==
  [][~Disturbance /\ Listable # {} =>
       /\ pc = "discover" /\ pc' # "discover" => OnCourse'
       /\ OnCourse => OnCourse' \/ (Settled' /\ pc' = "idle")
       /\ Settled => Settled']_vars

\* entity.py:101, "Add entities for current nodes and for any that appear
\* later": every node of the published map has its entities.
EveryNodeHasEntities == loaded /\ pc = "idle" => Shown \subseteq entities

\* __init__.py:106, "Allow deleting a device whose Talos node is no longer in
\* the cluster": between refreshes, a device that may be deleted belongs to a
\* node that left the cluster or, at least, was not to be listed at some time
\* since the last refresh began.
DeletableHasLeft ==
  loaded /\ success /\ pc = "idle"
    => \A a \in devices : MayDelete(a) => a \in unlisted
=============================================================================
