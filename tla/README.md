# talos-hass: specifications, model checking and proofs

TLA+ models of the Home Assistant integration in
`custom_components/talos_linux`, the TLC configurations that check them on small
instances and TLAPS proofs of their main properties for every instance.
File names below without a directory are those of the integration.
`PROJECT.json` lists the components, runs, seeded faults, the source lines behind
every definition, the findings, the hazards and the theorems.

## 1. The system

Home Assistant runs everything in one event loop: code runs undisturbed from one
`await` to the next, and anything may happen during an `await`. The integration has
one config entry per Talos cluster. An entry owns a gRPC client (one TLS channel to
one endpoint, which proxies to all nodes) and a coordinator, which polls the cluster
on a timer and publishes a node map. Entities, services, the sidebar panel and the
device registry are fed from that map.

| Component | State it keeps | Operations | What it talks to |
|---|---|---|---|
| Coordinator (`coordinator.py`) | `data`, `_discovery_complete`, `_cpu_prev`, `_latest_version`, `_latest_checked` | refresh: discover, poll all nodes, prune devices, certificate issue, release check, publish | client, device and issue registries, GitHub, listeners |
| Entities (`entity.py` and the platforms) | one `known` set per platform; entities | add entities for new nodes at each publication | coordinator (listener), registries |
| Entry life cycle (`__init__.py`) | `runtime_data`, the listener, `hass.data[DOMAIN]` | setup, unload, reload, delete hook | all others |
| Services (`services.py`) | none of their own; registered once for all entries | refresh, get status, reboot, shutdown, upgrade, apply config, reset | entry state, coordinator data, client |
| Buttons, update entity (`button.py`, `update.py`) | the INSTALL feature, fixed when created | press, install | options, coordinator, client |
| Flows (`config_flow.py`) | the entry they are about; entry data and options | user, reauth, reconfigure, options | parser, client, entries |
| Talosconfig parser (`talosconfig.py`) | none | choose the context, decode, read roles and expiry | - |
| Client (`client.py`) | one channel | reads, `discover_nodes`, writes; every call has a timeout | the cluster |
| Panel (`panel.py`, `websocket_api.py`, `frontend/`) | registration flags; the script's last answer | register, unregister, `talos_linux/get` | entries, coordinator data |
| Diagnostics, translations, generated stubs | none | - | - |

### What is hard, and what makes each part correct

- **A refresh is long and not atomic.** Between the member list and the pruning of
  devices lie the polls of all nodes. Nodes join and leave, a member may be skipped for
  want of an IPv4 address or come to be listed under another one, discovery can fail and
  fall back to the endpoints, one node can refuse the credentials. Correct: a device
  is removed only if discovery would not have listed its address, at some moment since
  the refresh began; nothing is left over after a complete refresh, a refused refresh
  changes nothing, and refreshes always end.
- **Two registrations by difference.** Entities are added for addresses not in
  `known`; devices are removed for addresses not in the map. Correct: a shown node
  has its entities.
- **State that survives what made it.** Devices and the repair issue are persistent
  while coordinators come and go with reloads and new credentials.
- **Counters of machines that reboot or change address**, and answers handled in an
  order other than they were read. Correct: a CPU percentage is a percentage.
- **A cache with a throttle.** Correct: the release offered is bounded in age while
  checks succeed, and the newest is offered in the end.
- **An update entity over a node that changes by itself.** Version and stage are read
  at two moments, the target at a third, and a node is upgraded, or goes down a
  version, by other means. Correct: once things are quiet the entity offers and
  reports what is so.
- **Writes against moving gates.** Options, role, entry state, node map and
  schematic are read at different moments. Correct: no call for a write is made that the
  options and the role do not allow at that moment, and no image is built from data
  older than what is shown.
- **Several entries share services and panel**, and their setups and unloads
  interleave, and a setup may fail at each `await`. Correct: loaded entries have both, and
  nothing stays behind but what a late failure leaves.
- **Flows run next to each other and next to setups.** Correct: one entry per
  cluster, an entry never changes its cluster, what it stores can be used, a stored
  change comes into use, and an issue about the environment goes when it is mended.
- **Nodes are known by an address, and one address moves.** The control plane's
  shared address is listed with its holder's own and cannot be told from it. Correct:
  a node shown under a member's name was read from that member, no two members get
  one address, the control plane is counted once per machine whichever reads fail,
  usages are those of the mounts, and each volume gets its sensor.
- **A call fails in many ways**, below TLS, in gRPC, in a reply's own metadata or in
  the decoding of a resource, and only some of them are errors the callers catch.

The full list, with lines, is `hazards` in `PROJECT.json`. Hazards without a
property say why there.

## 2. Modules

| Module | Models |
|---|---|
| `Calls` | how a client call ends and which error each ending becomes (`_unary`, `_server_stream`, `_map_grpc_error`, `_first`, `_decode_resource`) |
| `Coordinator` | the refresh, the registration of node entities, the device registry, the certificate issue, the delete hook; uses `Calls` |
| `CpuSampling` | `cpu_times` and `_cpu_percent` across refreshes |
| `ReleaseCheck` | `_maybe_check_latest`, `_target_version` and the clock |
| `ReleaseAttempts` | `ReleaseCheck` with a record of when it asks GitHub |
| `Updates` | composes `ReleaseCheck` with the polls of one node and its update entity |
| `WritePolicy` | abstract: what the gating of writes promises |
| `Writes` | services, buttons and update entity; implements `WritePolicy` |
| `Talosconfig` | from the pasted text to credentials and a TLS context |
| `ConfigFlow` | the flows and the entries they store; uses `Talosconfig` |
| `Entries` | composes `ConfigFlow` with setup, unload and reload of several entries and what they share |
| `Discovery` | `discover_nodes`: the address and the role of each member |
| `Mounts` | `_disk_percent` and `_volumes`, with reference definitions |
| `NodePoll` | composes `Discovery` and `Mounts`: what a refresh reads, of which machine, under which name and role it shows it, the control-plane count and the volume sensors |
| `MC...` | small instances for TLC |
| `...Proofs` | theorems |

The modules split the program by the state that is read and written together.
`Entries` and `ConfigFlow` run together because a flow's last step and a setup in
progress meet in `entry.data`. `Coordinator`, `CpuSampling`, `ReleaseCheck` and
`Writes` each take the rest of the integration as an environment that may do
anything its own module allows: `Writes` has a refresh that is asked for, dropped or
given up, and of which it knows only that it reads, loses or omits each node's
schematic; `ReleaseCheck` has a refresh that takes up to `CycleTime`, may be refused
or break, and `Updates` puts the polls of a node in front of it.

**Seeded faults.** A definition that stands just before the one it resembles
(`PrunedUngated` before `Pruned`) is the same code with a plausible mistake. No
action uses it. Putting it in the place of the original must break the property
named with it under `mutants` in `PROJECT.json`: that is how each property is shown
to say something about the code.

**History variables** (`unlisted`, `removed`, `attemptAge`, `gap`, `latestAge`,
`missed`, `hadSince`, `hadNow`, `lost`, `overlooked`, `abandoned`, and the fields
`sameRun`, `fresh`, `from`, `mounts`) record what happened for the properties; no guard
reads them.

### Calls

A call's ending is one of the gRPC statuses the client tells apart, a timeout, a
stream cut off, an error of the operating system or of TLS, or a reply. A reply of a
machine service may hold no message or one with an error of the node behind apid; a
resource may hold YAML that is no mapping, which no reader expects. `Result` and
`Streamed` say what the caller gets. An ending that is no `TalosError`
(`AttributeError`) is caught nowhere before Home Assistant.

### Coordinator

State: the address that `discover_nodes` would take from each machine's entry in the
Members resource (`chosen`) and the certificate's nearness to its end (environment); where the refresh is (`pc`, one value per `await`); its locals
`nodes` and `answer`; the coordinator's `discoveryComplete`, `data` and
`last_update_success`, and whether the interval timer is armed (`suspended`); the
persistent `devices` and `certIssue`; the entities platform's `known` and the
`entities` that exist.

| Action | Code |
|---|---|
| `StartScheduled`, `StartRequested` | the interval timer; `async_request_refresh` |
| `Discovered`, `DiscoveryFails` | `_discover_nodes`, the fallback to the endpoints included |
| `DiscoveryBreaks` | an error of the discovery that is no `TalosError`: the refresh, or the setup, ends |
| `PollAnswers`, `PollFails` | one node's `_poll_node`: online, or offline or `TalosAuthError` as its call ended |
| `AuthFails`, `SetupFails` | `ConfigEntryAuthFailed` in a later, or in the first, refresh |
| `Assemble` | lines 129-153: node map, pruning, certificate issue |
| `Publish` | the return of `TalosData`, and the listeners that add entities |
| `Setup`, `Unload` | the entry's life; a reload may bring new credentials |
| `DeleteDevice` | the delete hook and the deletion it allows |
| `MembersChange`, `CertNears` | the world |

`chosen[m]` is `NotListed` for a machine without an entry, and for one whose entry
client.py:406-409 skips because it has no spec or no IPv4 address; else it is one of the
machine's IPv4 addresses (`IPv4[m]`), the one that client.py:410-411 picks, which depends
on what the entry gives and in which order. `MembersChange` changes it in any way: a machine
leaves, is skipped for a while without leaving, or comes to be listed under another
address, which may be one that was or still is another machine's. `Listable` is what a
discovery lists at a moment; `Listed` counts any list that is not empty as complete, as
coordinator.py:192-194 does. Which address is picked for which entry is the subject of
`Discovery` and `NodePoll`.

The branch `if not node_map: raise UpdateFailed` (coordinator.py:146) cannot be taken: the fallback
list is never empty (`creds.endpoints or [endpoint]`), so it is not an action.

### CpuSampling

Machines have counters that grow until they boot; addresses lead to machines and
may lead to others later; a refresh's list may name an address twice. `Read` is the
call's answer, `Finish` the computation after the gather: several answers may wait
at once and are finished in any order. A percentage is kept as a pair (busy over
total), which is what decides whether it is between 0 and 100; rounding is left out.

### ReleaseCheck, ReleaseAttempts and Updates

Time passes in ticks. `Tick` cannot pass the moment a timer or a timeout is due.
`AnswerFromCache`, `BeginFetch`, `FetchSucceeds`, `FetchUntagged` (an answer
without `tag_name`) and `FetchFails` are the paths of `_maybe_check_latest`;
`RefreshRefused` is a refresh that ends in an authentication error before it, after
which the timer is not armed, `RefreshBreaks` one that ends in another error;
`Reload` is a new coordinator, with or without a pinned version. `ReleaseAttempts` adds
the ages of the requests, which only the finding needs.

`Updates` adds a node with the version it runs and the upgrade under way. A
refresh polls its version (`PollVersion`, `PollFails`), awaits its stage
(`MachineStatus`, `StatusFails`), goes through the release check and publishes both.
`Install` is the entity's install, `UpgradeElsewhere` any other change of version, down
included; an upgrade ends well or not (`UpgradeEnds`). `Offered` and `InProgress` are the
entity's `installed_version`, `latest_version` and `in_progress` as Home Assistant shows
them. Every step of `Updates` is one of `ReleaseCheck` or leaves it alone.

### Writes and WritePolicy

A call is made in one step with its gate, because the code awaits nothing between
the first check and the call. The request itself may leave later, since grpclib connects
within the call if the channel is not connected (client.py:200): the time from the call to
the node's acting (`NodeActs`) has no bound but the timeout, and options, entry and
refreshes change in it. `KeepsPolicy` is about the moment of the call. "reboot" stands for the five writes that are gated
alike, "status" for `get_service_status`, which has no gate but a loaded entry and a
shown node. Buttons and entities can be used only while they are available
(`ClusterAvailable`, `NodeAvailable`): after a refresh that failed none is. A refresh is
asked for by the timer, the service, the cluster's button and every write that was
answered (`Request`), and asking during one changes nothing.

Once sent, a request reaches the node or not (`NodeActs`), the answer comes or not
(`Answered`, `CallFails`), and a connection closed by an unload does not stop a
request on its way. `WritePolicy` knows neither nodes nor refreshes: a write is
under way only if, when it was sent, the options and the role allowed it and the
connection was open. `Writes` implements it under
`connected <- entry # "closed"`, `writes <- [c |-> call[c].op]`.
`confirm_node` (services.py:104) compares two arguments of one call and is left out.

### Talosconfig, ConfigFlow and Entries

What the YAML parser makes of a text, base64 of a field and OpenSSL of bytes are
constants of `Talosconfig`; what `parse_talosconfig` does with them is modelled: which
context is active (`ActiveNames`), what is decoded and looked into when (`Decodes`: the
certificate at once, authority and key not before `BuildsSslContext`), and the label of
the key (`NormalizedKey`).

A flow's state while it awaits its validation is the entry it is about and the data
it would store; all reading of stored data happens before (`Submit...`) and all
writing after (`CreateEntry`, `UpdateEntry`) that one `await`. `Entries` gives each
entry a `stage`, one value per `await` of `async_setup_entry` and
`async_unload_entry`, and follows the services, the panel, the flags in
`hass.data` and the issue `missing_dependency`. `SetOptions` schedules a reload only if
the update listener is registered; `Update` always does, as
`async_update_reload_and_abort` does. `SetupFails` is a setup whose TLS context cannot be built, whose first refresh
fails, or whose forward to the platforms raises; `StaticFails` one whose static path is
refused (panel.py:56): listener and services are then registered already, and nothing takes
them back, which `abandoned` records. `DependencyMissing` is a setup while grpclib or the
stubs cannot be imported, `PackagesInstalled` and `Restart` are the two ways in which
that changes; a restart keeps what is stored and nothing else.

### Discovery, Mounts and NodePoll

`Reports` is what the Members resource can list for a machine: its own IPv4 address,
others, and on the control plane the shared one next to its own, in any order, or
nothing once the machine left. `ChosenAddress` is client.py:407-411, `Role` the member's
machine type, which the entries of the machines in `Untyped` may lack (client.py:416 gives
None then). A node without a listed name takes the host name in the answer for the version
(`Named`, coordinator.py:232): the machine's, or the targeted address, which is displayed
as no name is. A poll
(`PollNode`) reaches any machine that can be behind the address at that moment, which
the list, made before, does not decide; its reads may reach different machines, and
those after the version may each fail and leave their part empty (mounts, etcd
members). `PollFails` is a node that is offline. `DiscoveryFails` polls the endpoints
without names and roles, so that only etcd tells whether such a node is to be counted.
`Publish` joins
node map, pruning and the volume sensors' listener, because the one `await` between
them (the release check) is `Coordinator`'s and `ReleaseCheck`'s subject.
A mount's place is a number in the order of the strings; the system disk comes first.
A percentage is kept as used and size, so that a volume without a size would have the
wrong type. `IsVolumesOf` and `IsUsageOf` say without a loop what `_volumes` and
`_disk_percent` must return. Home Assistant refuses a second sensor with the unique id
of a first (`Added`), which two mount points with one slug have.

`OwnAddressesKnown` is the condition that client.py:394-397 takes for granted: the
talosconfig or the endpoint give every control-plane machine's own address, and the
shared address is none of them. Without it `NamedAfterItsMachine` and
`OneNodePerAddress` fail, as test_discovery.py does not try.

### What is assumed of Home Assistant, grpclib and Talos

Everything outside the repository is modelled from its use here and marked external:
one refresh of a coordinator at a time, and a request during one is dropped;
`ConfigEntryAuthFailed` stops the timer and starts a reauthentication; an error in
the first refresh fails the setup; listeners run after a publication; unloading
cancels a refresh; removing a device removes its entities; only available entities
are pressed and only entities with INSTALL install; an entry's own setups, unloads
and reloads are serialized, those of different entries are not; `on_unload`
callbacks run after a successful unload; a failed unload needs a restart; removing an
entry aborts the flows about it; every client call ends within its timeout
(`DEFAULT_CALL_TIMEOUT`, client.py:202 and 217).

## 3. What TLC checks

| Run | Module | Instance | States | Checks |
|---|---|---|---|---|
| `coordinator_safety` | `Coordinator` | 2 machines, 3 addresses, the endpoint listed in the talosconfig; each machine may be skipped or listed under either of two addresses, one of which both share | 2.1 M | `TypeOK`, `NoOrphanDevice`, `ShownHasEntities`, `NoFalseCertIssue`, `PruneIsJustified`, `RejectionChangesNothing` |
| `coordinator_liveness` | `Coordinator` | 2 machines, 2 addresses, no endpoints in the talosconfig; one machine may be listed under the other's address | 0.15 M | `RefreshEnds`, `Converges`, `SettlesUndisturbed` |
| `cpu_same_run` | `CpuSampling` | 1 address listed twice, 2 machines, counters to 2, 1 reboot | 0.37 M | `TypeOK`, `PctInRangeWithinRun` |
| `release_fresh` | `Updates` | 2 releases, interval 4, cycle 2, timeout 1, 1 node | 0.49 M | `TypeOK`, `FreshEnough`, `NodeTypeOK`, `ReleaseOffered`, `ShownIsTrue`, `SettlesUndisturbed` |
| `writes_policy` | `Writes` | 1 node, 2 schematics, 2 calls | 0.87 M | `TypeOK`, `KeepsPolicy`, `ImageIsFromShownRefresh` |
| `entries` | `Entries` | 2 entries, 2 flows, 2 clusters, 1 endpoint, 11 texts: one with several contexts, one without endpoints and without a name for its only context, one that cannot connect, seven that do not parse | 1.1 M | `TypeOK`, `OneEntryPerCluster`, `EntryKeepsCluster`, `StoredIsUsable`, `StoredDataInUse`, `LoadedHasServices`, `LoadedHasPanel`, `NothingLeftBehind`, `DependencyIssueTrue` |
| `node_poll` | `NodePoll` | 2 control-plane machines, one of whose entries may lack its type, 1 worker that the talosconfig does not name, 5 addresses (one shared, one IPv6), 3 mount points of which 2 share a slug, 3 mount lists | 1.1 M | `TypeOK`, `NamedAfterItsMachine`, `OneNodePerAddress`, `ControlPlaneCounted`, `UsagesAreOfMounts`, `EveryVolumeHasSensor` |

Five more runs end in a violation and are the findings of section 5. Deadlock is
checked in every run: none of the models can stop.

**Why the bounds are enough to be of interest.** The coordinator needs an
address that stays in the fallback (the endpoint) and two that do not, and machines that
come, go, are skipped and change places at them: two machines make every list of two nodes,
also of two that are not in the fallback, and may meet at one address or succeed each other
at it; a third would only poll next to them. One address listed twice with two machines has every
order of two readings; a second reboot or more jiffies repeats them. Two releases
and an interval longer than a cycle and a timeout make a release appear in every
phase of a check, and some refreshes answer from the cache while others fetch, so
that a node changes its version between its poll, either check and the publication.
Two calls and one node have every overlap of a write, a refresh, an
unload and a change of options; nodes do not interact in `Writes`. Two entries and
two flows are what it takes for one to disturb another, and the eleven texts take every
branch of the parser. Two control-plane
machines let the shared address move from one to the other between list and poll, and
the worker is the machine whose address nobody knows beforehand;
one control-plane machine's mounts are never read, and the others'
mount lists have a point mounted twice, in memory first, empty devices and two
points of one slug. Where a bound might still
hide something, the proofs of section 4 hold for all values. `MaxJiffies` and
`MaxBoots` bound the counters of `CpuSampling`, `MaxAddresses` the addresses of a
member, `MaxSize` the size of a mount; ages in `ReleaseCheck` stop at the
bound the code compares them with; nothing else is bounded.

**Symmetry** is used for the machines of `CpuSampling`, schematics and calls, entries
and flows, in runs without liveness properties.

**Fairness.** `Coordinator!LiveSpec`: each step of a refresh is weakly fair, because
every awaited call has a timeout and the event loop runs what is ready; whether a
call ends well is not assumed, nor anything about the Members resource, user and unloads. The timer
is fair while it is armed. `Converges` therefore speaks only of behaviours in which
disturbances end, some member can be listed by an IPv4 address and polling is not
suspended; the "members" of its conclusion are those that can be listed so: after a refusal nothing but a reload or
a user's request starts it again. `Updates!ULiveSpec`: time passes, a due refresh polls,
each call of a poll and each fetch ends, but an upgrade may last for ever. `ReleaseOffered`
and `ShownIsTrue` speak of behaviours whose disturbances end (`Disturbance`,
`NodeDisturbance`) and of a polling entry. The other specifications have no fairness; their
properties need none.

## 4. What TLAPS proves

For all values of the constants, from the `ASSUME`s of the modules only (the
endpoint is an address, bounds are naturals, `FetchTimeout < Interval`, no mount has
more free than its size, YAML,
base64 and OpenSSL give what their types say, names for "nothing" are apart from the
data):

| Theorem | States |
|---|---|
| `CoordinatorProofs!TypeCorrect`, `NoOrphanDeviceHolds`, `ShownHasEntitiesHolds`, `NoFalseCertIssueHolds` | the invariants of `coordinator_safety` |
| `CoordinatorProofs!PruneIsJustifiedHolds`, `RejectionChangesNothingHolds` | its action properties |
| `CoordinatorProofs!SettlesUndisturbedHolds` | the steps by which the view settles, none of which goes back undisturbed |
| `CpuSamplingProofs!TypeCorrect`, `PctInRangeWithinRunHolds` | CPU percentages |
| `ReleaseCheckProofs!TypeCorrect`, `FreshEnoughHolds` | age of the published release |
| `UpdatesProofs!KeepsReleaseCheck`, `FreshEnoughWithNode`, `NodeTypeCorrect` | `Updates` implements `ReleaseCheck`, so its freshness carries over; what is published of a node was polled to its end |
| `UpdatesProofs!SettlesUndisturbedHolds`, `SettledIsTrue` | the same of the update entity, and that a settled one says what is so |
| `WritesProofs!TypeCorrect`, `WritesKeepPolicy` | `Writes` implements `WritePolicy` |
| `WritesProofs!ImageIsFromShownRefreshHolds` | images come from the shown data |
| `EntriesProofs!TypeCorrect`, `OneEntryPerClusterHolds`, `EntryKeepsClusterHolds`, `StoredIsUsableHolds`, `StoredDataInUseHolds`, `LoadedHasServicesHolds`, `LoadedHasPanelHolds`, `NothingLeftBehindHolds`, `DependencyIssueTrueHolds` | the invariants of `entries` |
| `NodePollProofs!NamedAfterItsMachineHolds`, `OneNodePerAddressHolds`, `ControlPlaneCountedHolds` | names, addresses and count of nodes |
| `NodePollProofs!TypeCorrect`, `UsagesAreOfMountsHolds`, `EveryVolumeHasSensorHolds` | types, usages and volume sensors |
| `MountsProofs!VolumesCorrect`, `UsageCorrect` | `_volumes` and `_disk_percent` compute what the reference definitions say, for mount lists of every length |

The arguments:

- **Coordinator.** Whether a pruning is right was settled two awaits earlier.
  `IInv` carries that over: `unlisted` has every address under which no machine is to be
  listed now (`UnlistedCovers`), whatever `MembersChange` does; while the polls run it has
  every address missing from a complete list (`ListIsCluster`); after the pruning no device is left outside the list
  (`MapAssembled`); what is shown is known, and what is known has entities or had them
  removed with its device (`KnownAccounted`).
- **CpuSampling.** Idle and busy counters both only grow within a boot, so the
  readings the program holds of one run form a chain (`Chained`) below the machine's
  counters (`NotAhead`), and a difference along a chain has both parts in range.
- **ReleaseCheck.** While no check is missed the published version's age equals the
  age of the check until it comes of age, and after that grows only within the cycle
  and the request then under way (`Tracked`).
- **Updates.** A step publishes, begins or gives up only together with the step of
  `ReleaseCheck` it names, so each maps to that step or to a stutter (`CheckStep`); a
  theorem about `ReleaseCheck` is then one about `Updates`.
- **Writes.** A step that sends is a `Send` of the policy because its gate implies
  `Permitted`; every other step maps to a policy step or a stutter. For images,
  what a refresh has read is among what the node had since that refresh began
  (`ReadingsJustified`), and a publication turns one into the other. Types rest on it,
  since an image is taken from what is shown.
- **Entries.** Flows are about existing entries, and two entries with one unique id
  are one (`StoreInv`). A running entry has the stored data or a scheduled reload from
  the moment its setup begins (`RunningUpToDate`); services are there while an entry
  past the platforms is not overlooked, none are there without such an entry unless a late
  failure abandoned them, and the panel's flag is the panel's presence
  (`Registrations`). The issue of missing packages is up only if no entry has got past
  its connection since (`ImportsInv`: a connecting entry found the packages, and only a
  restart takes them away).
- **NodePoll.** Under `OwnAddressesKnown` the address chosen is the member's own in
  whatever order its addresses are listed (`OwnAddressChosen`: the first known one is
  not the shared one, and if none is known the machine is no control-plane machine and
  the first is its own). Only its machine is behind such an address
  (`OnlyOwnerBehind`), so what was polled (`AnsweredFromBehind`) and later shown under
  the name came from it. An etcd member list that is not empty comes from a control-plane
  machine behind the address, hence from its owner, and a role is its owner's or missing.
  A name that comes with an answer belongs to a node of the fallback, at a known address of
  its own; that no other node is at this address under another name needs that the list and
  the polled nodes never have it both (`PolledOnce`).

  `SensorInv` holds next to it and needs no such condition: what a poll brings has the
  type and the usages that the theorems of `MountsProofs` give its mount list; a volume that
  is shown is in `known` (`ShownIsKnown`), and each known one has a sensor of its unique
  id or had one until its device went (`KnownHasSensor`). Of volumes that are new
  together and share an id, the one with the least mount point gets the sensor
  (`NewHasSensor`); one that is removed is in `lost` from then on (`RemovedIsLost`).
- **Mounts.** The theorems are about data of any size, and the provers take no induction
  principle with an operator for a parameter. The proofs use one over sets of numbers
  instead, which follows from least elements (`LeastIndex`, `HoldsAll`). With it, the
  recursion by which the library defines a fold has a solution at every length
  (`FoldExists`), so a fold takes the mounts one after the other (`FoldSteps`), and after
  each the loop has collected a volume of each point's first qualifying mount
  (`CollectedNext`, `LoopCollects`). A list that is in order stays so with one more
  number put in its place (`OneMoreInOrder`), so every list has an order
  (`AlwaysInOrder`) and sorting finds one; points are different, so the order is
  strict (`SortedOrders`).
- **Settling.** `Converges` and `ShownIsTrue` need fairness, but most of what could be
  wrong with them does not: that a refresh with the cluster's list ends in the right view,
  that a right view survives the refresh already in flight, that the cache or a stage read
  late does not unsettle the entity. `SettlesUndisturbed` states this as steps, and is
  proved case by case over the undisturbed ones (`UndisturbedSteps`, `CourseKept`,
  `SettledKept`, `TruthSettles`). What is left to TLC is that the steps are taken.

Every safety invariant and every action property that a passing run checks is stated by
a theorem. Only model-checked: the liveness properties (`RefreshEnds`, `Converges`,
`ReleaseOffered`, `ShownIsTrue`; TLAPS proves no liveness under fairness here), and the
findings, which are counterexamples.
No module declares a `RECURSIVE` operator. `Mounts` has its own `Sorted` because the
library's sorting rests on an operator the provers cannot expand; parentheses around
`UNION` and `SUBSET` matter, since the prover's parser and TLC's bind them differently
next to `\cup` and `\`.

## 5. Findings

Each is a run that ends in a violation of what the repository says of itself.

1. `node_reappears`: a node that is shown again after its device was pruned (or deleted by
   the user) gets no entities until a reload, because `known` (entity.py:102) never
   forgets; entity.py:101 promises entities "for any that appear later".
2. `delete_during_fallback`: after a failed discovery the map lists only the
   endpoints, and the delete hook (`__init__.py:115`) allows deleting the device of a
   worker that could be listed all the time. `_discovery_complete` protects the pruning from this, not
   the hook. With finding 1, the worker then stays without entities.
3. `release_throttle`: a failed or untagged fetch does not count for the throttle
   (coordinator.py:346-349), so GitHub is asked at every refresh, against
   coordinator.py:330.
4. `cpu_reboot`: a node that boots and runs past its old total between two refreshes
   yields a percentage outside 0 to 100 (coordinator.py:280-289); `boot_time` is at hand
   but not compared.
5. `options_during_setup`: options saved after the coordinator is made and before
   the update listener is registered (`__init__.py:71-76`) are not applied.

Part of the models, without a run of its own: coordinator.py:117-119 says that a
failed discovery "can't remove healthy worker devices", and coordinator.py:200 that the
pruning removes those "no longer in the cluster". The second is not true of every device: a
machine that stays a member but whose entry has no spec or no IPv4 address when it is read
(client.py:406-409, test_discover_skips_members_without_ipv4), or gives another address
first, is missing from a list that counts as complete, and its device is pruned; by
finding 1 it then has no entities when it is listed again. The program has nothing but the
Members resource to tell such a machine from one that left, so `PruneIsJustified` promises
only what it can keep: no device goes whose address that resource gave for some machine, in
an entry that discovery can use, all through the refresh.

Seen while reading, without a run: README.md:55 says a service whose tier is
disabled is not registered, while services.py:215-242 registers all of them and
refuses at the call; README.md:55 asks `confirm_node` of every write, which buttons
and update entities cannot take; config_flow.py:164 keeps the stored endpoint
when the reauth form leaves it blank, while the form says it defaults to the
talosconfig; panel.py:39 says "idempotent", while two setups at once can both
register the static path; sensor.py:213 says a vanished volume reports
unavailable, while the entity stays available with an unknown value;
client.py:394-397 says the virtual IP is not a known address, which is false if it
is the endpoint. The services of an entry whose setup awaits the static path while
the last loaded entry unloads are gone once it is loaded; `LoadedHasServices` names
exactly that case (`overlooked`). A setup that fails at the static path leaves its services
registered though no entry is loaded (`__init__.py:77-78`; `NothingLeftBehind`,
`abandoned`); they refuse every call for an entry that is not loaded.

A node first shown after a failed discovery keeps its address for a name, though later
refreshes know better (entity.py:50, read only when an entity is added); an expired client certificate ends in
`TalosConnectionError` and asks for no reauthentication, which strings.json:15 promises
(client.py:207); an upgrade without a version may go down (services.py:174). These and
the other hazards without a property have the reason in their `note`: most rest on what
Home Assistant or the frontend does with a situation, which is outside the repository.

## 6. Not modelled

- **The channel.** One TLS channel per client, opened lazily by grpclib. `Entries` and
  `Writes` know only whether the client was closed. That a failed first refresh leaves
  one open (`__init__.py:72`) follows from reading and changes no state that a property
  of the program is about.
- **Reads that copy fields**: memory, services, architecture, platform, and the entities'
  value functions that only read a field; names of devices; rounding.
- **The websocket command and the panel's script.** `ws_get` copies and sorts what is
  published; the script fetches and renders.
- **Diagnostics, translations, service descriptions, constants**: no state. Values that
  matter (intervals, roles, timeouts) are parameters.
- **X.509, TLS, YAML, protocol buffers and the generated stubs**: libraries, given as
  constants in `Talosconfig` and as endings in `Calls`.
- **`confirm_node`**: compares two arguments of one call.
- A `NodePoll` in which the endpoint is the shared address, which no check in
  config_flow.py prevents: a node is then named at it and may be read from another
  machine. `OwnAddressesKnown` excludes it, and section 2 says what fails without.
