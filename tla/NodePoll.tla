------------------------------ MODULE NodePoll ------------------------------
(* What the polls of a refresh read and under which name and address it is    *)
(* shown, and the volume sensors that are added for it.  Composes Discovery   *)
(* and Mounts.  Each poll reaches whatever machine is behind its address when *)
(* it is made, which is not when the list was made.                           *)
EXTENDS Discovery, Mounts

CONSTANTS
  MountLists,   \* the mount lists each machine can answer with
  Slug,         \* slugify of a mount point, the same for "Data" and "data"
  Slugs         \* its values

ASSUME MountListsAssumption ==
  /\ DOMAIN MountLists = Machine
  /\ \A m \in Machine : \A s \in MountLists[m] :
       s \in Seq(Mount) /\ \A i \in DOMAIN s : s[i].available <= s[i].size
ASSUME SlugAssumption == Slug \in [MountPoint -> Slugs]

VARIABLES
  pc,         \* "idle", or "poll" while the polls are awaited
  complete,   \* coordinator._discovery_complete
  listing,    \* listed nodes whose poll is awaited
  polled,     \* what the other polls came to
  view,       \* coordinator.data.nodes, NoNode for a missing key
  known,      \* _register_volume_sensors' set of (address, mount point)
  sensors,    \* the volume sensors that exist, as (address, mount point)
  lost        \* history: known sensors removed with their node's device

vars == <<pc, complete, listing, polled, view, known, sensors, lost>>

NoNode == [none |-> TRUE]
Key == Address \X MountPoint
Roles == {"controlplane", "worker", "unknown"}

ListedNode == [address : Address, name : Machine \cup {NoName}, role : Roles]

\* name: NoName also where the targeted address is taken for a name, which is
\* displayed alike.  etcd: etcd_members is not empty.  from and mounts are
\* history: the machines that answered the calls of the poll, and the list of
\* mounts that came.
PolledNode ==
  [address : Address, name : Machine \cup {NoName}, role : Roles,
   online : BOOLEAN, etcd : BOOLEAN, from : SUBSET Machine,
   mounts : (UNION {MountLists[m] : m \in Machine}) \cup {<<>>},
   disk : Usage \cup {NoUsage}, volumes : Seq(Volume)]
ShownNode ==
  [name : Machine \cup {NoName}, role : Roles, online : BOOLEAN,
   etcd : BOOLEAN, from : SUBSET Machine, disk : Usage \cup {NoUsage},
   volumes : Seq(Volume)]

\* Machines that can be behind an address.
Behind(a) ==
  {m \in Machine : Own[m] = a} \cup (IF a = Vip THEN ControlPlane ELSE {})

-----------------------------------------------------------------------------
(* A refresh.                                                                 *)

Listing(nodes, fromCluster) ==
  /\ pc = "idle"
  /\ pc' = "poll"
  /\ complete' = fromCluster
  /\ listing' = nodes
  /\ polled' = {}
  /\ UNCHANGED <<view, known, sensors, lost>>

\* The members are read; a list without a node counts as a failure.
DiscoverNodes ==
  \E nodes \in DiscoveredLists \ {{}} : Listing(nodes, TRUE)

DiscoveryFails == Listing(FallbackNodes, FALSE)

Ends(node, machines, name, mounts, etcd) ==
  /\ node \in listing
  /\ listing' = listing \ {node}
  /\ polled' = polled \cup
       {[address |-> node.address, name |-> name, role |-> node.role,
         online |-> machines # {}, etcd |-> etcd, from |-> machines,
         mounts |-> mounts,
         disk |-> DiskUsage(mounts), volumes |-> Volumes(mounts)]}
  /\ UNCHANGED <<pc, complete, view, known, sensors, lost>>

\* The etcd members a machine lists: a worker has none.
EtcdMembers(m) == IF m \in ControlPlane THEN ControlPlane ELSE {}

\* The name of a node: the listed one, else the host name in the answer for the
\* version, which may be the machine's or, by way of apid, the address.
Named(node, hostname) == IF node.name # NoName THEN node.name ELSE hostname

\* The call for the version is answered.  Of the calls that follow at once,
\* each may fail, which leaves its part of the node empty, and each reaches
\* what is behind the address then.
PollNode(node) ==
  \E machines \in (SUBSET Behind(node.address)) \ {{}} :
    \E hostname \in machines \cup {NoName},
      mounts \in (UNION {MountLists[m] : m \in machines}) \cup {<<>>},
      members \in {EtcdMembers(m) : m \in machines} \cup {{}} :
        Ends(node, machines, Named(node, hostname), mounts, members # {})

\* The call for the version fails: the node is shown offline.
PollFails(node) == Ends(node, {}, node.name, <<>>, FALSE)

\* Some call was refused: the refresh is given up.
Refused ==
  /\ pc = "poll"
  /\ listing = {}
  /\ pc' = "idle"
  /\ polled' = {}
  /\ UNCHANGED <<complete, listing, view, known, sensors, lost>>

-----------------------------------------------------------------------------
(* The publication.                                                           *)

Shown(node) ==
  [name |-> node.name, role |-> node.role, online |-> node.online,
   etcd |-> node.etcd, from |-> node.from, disk |-> node.disk,
   volumes |-> node.volumes]

\* The node map is keyed by address: of two results the one further down the
\* list stays, which may be either.
NodeMap(nodes) ==
  [a \in Address |->
     IF \E n \in nodes : n.address = a
     THEN Shown(CHOOSE n \in nodes : n.address = a)
     ELSE NoNode]

NodeMaps ==
  {NodeMap(nodes) : nodes \in
     {kept \in SUBSET polled :
        /\ {n.address : n \in kept} = {n.address : n \in polled}
        /\ \A m, n \in kept : m.address = n.address => m = n}}

At(addresses, keys) == {k \in keys : k[1] \in addresses}

\* Whether _controlplane_count counts a shown node.
CountedByEtcd(node) == node.etcd
Counted(node) == node.etcd \/ node.role = "controlplane"

\* Addresses of the devices that are pruned with their entities.
Pruned == IF complete THEN Address \ {n.address : n \in polled} ELSE {}

\* The volumes of a node map that _discover has not met before.
NewPerNode(v) ==
  {k \in Key : /\ v[k[1]] # NoNode
               /\ \E i \in DOMAIN v[k[1]].volumes : v[k[1]].volumes[i].on = k[2]
               /\ \A j \in MountPoint : <<k[1], j>> \notin known}
NewVolumes(v) ==
  {k \in Key : /\ v[k[1]] # NoNode
               /\ \E i \in DOMAIN v[k[1]].volumes : v[k[1]].volumes[i].on = k[2]
               /\ k \notin known}

\* Home Assistant refuses a second sensor with one unique id.
SameId(j, k) == j[1] = k[1] /\ Slug[j[2]] = Slug[k[2]]
Added(new, present) ==
  {k \in new : /\ \A j \in present : ~SameId(j, k)
               /\ \A j \in new : j[2] < k[2] => ~SameId(j, k)}

Publish ==
  /\ pc = "poll"
  /\ listing = {}
  /\ pc' = "idle"
  /\ polled' = {}
  /\ \E v \in NodeMaps :
       LET present == sensors \ At(Pruned, sensors)
           new == NewVolumes(v)
       IN /\ view' = v
          /\ known' = known \cup new
          /\ sensors' = present \cup Added(new, present)
          /\ lost' = lost \cup At(Pruned, known)
  /\ UNCHANGED <<complete, listing>>

\* The user deletes the device of a node that is not shown.
DeleteDevice(a) ==
  /\ view[a] = NoNode
  /\ sensors' = sensors \ At({a}, sensors)
  /\ lost' = lost \cup At({a}, known)
  /\ UNCHANGED <<pc, complete, listing, polled, view, known>>

\* The entry is reloaded: coordinator, entities and known start anew.
Reload ==
  /\ pc' = "idle"
  /\ complete' = FALSE
  /\ listing' = {}
  /\ polled' = {}
  /\ view' = [a \in Address |-> NoNode]
  /\ known' = {}
  /\ sensors' = {}
  /\ lost' = {}

-----------------------------------------------------------------------------
Init ==
  /\ pc = "idle"
  /\ complete = FALSE
  /\ listing = {}
  /\ polled = {}
  /\ view = [a \in Address |-> NoNode]
  /\ known = {}
  /\ sensors = {}
  /\ lost = {}

Next ==
  \/ DiscoverNodes
  \/ DiscoveryFails
  \/ \E node \in listing : PollNode(node) \/ PollFails(node)
  \/ Refused
  \/ Publish
  \/ \E a \in Address : DeleteDevice(a)
  \/ Reload

Spec == Init /\ [][Next]_vars

-----------------------------------------------------------------------------
(* Properties.                                                                *)

\* Every variable holds a value of the program's type; a volume's size in
\* particular, by which its usage is divided, is not zero.
TypeOK ==
  /\ pc \in {"idle", "poll"}
  /\ complete \in BOOLEAN
  /\ listing \subseteq ListedNode
  /\ \A n \in polled : n \in PolledNode
  /\ \A a \in Address : view[a] \in ShownNode \cup {NoNode}
  /\ known \subseteq Key
  /\ sensors \subseteq known
  /\ lost \subseteq known

\* client.py:392-397, coordinator.py:230-232: all that is shown under a
\* machine's name, listed or answered, was read from that very machine, wherever
\* the shared address went in the meantime, as long as the own addresses of the
\* control plane are known.
NamedAfterItsMachine ==
  OwnAddressesKnown =>
    \A a \in Address :
      view[a] # NoNode /\ view[a].online /\ view[a].name # NoName
        => view[a].from = {view[a].name}

\* Under the same condition no two members get one address, so that none is
\* lost from the node map.
OneNodePerAddress ==
  OwnAddressesKnown =>
    \A m, n \in listing \cup polled : m.address = n.address => m.name = n.name

\* sensor.py:143: under the same condition every node that is counted for the
\* control plane is at the own address of one of its machines, so that none is
\* counted twice, and each of them that is shown with a role is counted, whether
\* or not it is reached and its etcd answers.
ControlPlaneCounted ==
  OwnAddressesKnown =>
    \A a \in Address : view[a] # NoNode =>
      /\ Counted(view[a]) => \E m \in ControlPlane : a = Own[m]
      /\ view[a].role # "unknown" /\ (\E m \in ControlPlane : a = Own[m])
           => Counted(view[a])

\* The usages of a poll are those of its mount list, whatever appears in it
\* twice, without a size or on no block device.
UsagesAreOfMounts ==
  \A n \in polled :
    IsVolumesOf(n.volumes, n.mounts) /\ IsUsageOf(n.disk, n.mounts)

\* sensor.py:211, "Add one disk sensor per Talos user/data volume, as volumes
\* appear": a shown volume has a sensor of its unique id, unless that was
\* added once and went with its device.
EveryVolumeHasSensor ==
  \A a \in Address : view[a] # NoNode =>
    \A i \in DOMAIN view[a].volumes :
      \E k \in sensors \cup lost : SameId(k, <<a, view[a].volumes[i].on>>)
=============================================================================
