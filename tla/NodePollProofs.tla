--------------------------- MODULE NodePollProofs ---------------------------
(* Proofs about what a refresh shows under which name and address, for any    *)
(* machines, addresses and orders in which the Members resource lists them.   *)
EXTENDS NodePoll, MountsProofs

-----------------------------------------------------------------------------
(* The choice of an address.                                                  *)

\* First picks an address of the list and of the set it is asked for.
LEMMA FirstIn ==
  ASSUME NEW s \in Seq(Address), NEW S, Has(s, S)
  PROVE  \E i \in DOMAIN s : First(s, S) = s[i] /\ s[i] \in S
<1>. DEFINE I == {i \in 1..Len(s) : s[i] \in S}
<1>1. DOMAIN s = 1..Len(s) /\ Len(s) \in Nat
  OBVIOUS
<1>2. I # {} /\ I \in SUBSET Nat
  BY <1>1 DEF Has
<1>3. Min(I) \in I
  BY <1>2, MinIsLeast, Zenon
<1>4. First(s, S) = s[Min(I)]
  BY <1>2 DEF First, SelectInSeq
<1>. HIDE DEF I
<1>5. Min(I) \in DOMAIN s /\ s[Min(I)] \in S
  BY <1>1, <1>3 DEF I
<1>. QED
  BY <1>4, <1>5

\* What a machine reports: addresses of its own, and the shared one only as a
\* control-plane node and next to its own.
LEMMA ReportedAddresses ==
  ASSUME NEW m \in Machine, NEW s \in Reports(m)
  PROVE  /\ s \in Seq(Address)
         /\ \A i \in DOMAIN s : s[i] \in IPv4 => s[i] \in {Own[m], Vip}
         /\ \A i \in DOMAIN s : s[i] = Vip =>
              m \in ControlPlane /\ \E j \in DOMAIN s : s[j] = Own[m]
<1>1. PICK k \in 0..MaxAddresses : s \in [1..k -> MayHave(m)]
  BY DEF Reports, SeqOf
<1>2. MayHave(m) \subseteq Address
  BY AddressAssumption DEF MayHave
<1>3. s \in Seq(Address)
  <2>1. k \in Nat /\ s \in [1..k -> Address]
    BY <1>1, <1>2, AddressAssumption
  <2>. QED
    BY <2>1
<1>4. \A i \in DOMAIN s : s[i] \in MayHave(m)
  BY <1>1
<1>5. \A i \in DOMAIN s : s[i] = Vip => \E j \in DOMAIN s : s[j] = Own[m]
  BY DEF Reports
<1>. QED
  BY <1>3, <1>4, <1>5, AddressAssumption DEF MayHave

\* client.py:407-411: under OwnAddressesKnown the address chosen for a member
\* is its own, in whatever order its addresses are listed.
LEMMA OwnAddressChosen ==
  ASSUME OwnAddressesKnown,
         NEW m \in Machine, NEW s \in Reports(m), Has(s, IPv4)
  PROVE  ChosenAddress(s) = Own[m]
<1>1. s \in Seq(Address)
  BY ReportedAddresses
<1>2. CASE Has(s, IPv4 \cap Known)
  <2>1. PICK i \in DOMAIN s :
          First(s, IPv4 \cap Known) = s[i] /\ s[i] \in IPv4 \cap Known
    BY <1>1, <1>2, FirstIn
  <2>2. s[i] # Vip
    BY <2>1 DEF OwnAddressesKnown, Known
  <2>. QED
    BY <1>2, <2>1, <2>2, ReportedAddresses DEF ChosenAddress
<1>3. CASE ~ Has(s, IPv4 \cap Known)
  <2>1. PICK i \in DOMAIN s : First(s, IPv4) = s[i] /\ s[i] \in IPv4
    BY <1>1, FirstIn
  <2>2. ASSUME s[i] = Vip PROVE FALSE
    <3>1. m \in ControlPlane /\ \E j \in DOMAIN s : s[j] = Own[m]
      BY <2>2, ReportedAddresses
    <3>2. Own[m] \in IPv4 \cap Known
      BY <3>1, AddressAssumption DEF OwnAddressesKnown, Known
    <3>. QED
      BY <1>3, <3>1, <3>2 DEF Has
  <2>. QED
    BY <1>3, <2>1, <2>2, ReportedAddresses DEF ChosenAddress
<1>. QED
  BY <1>2, <1>3

\* A member gets an address of the list it is in.
LEMMA ChosenIsAddress ==
  ASSUME NEW s \in Seq(Address), Has(s, IPv4)
  PROVE  ChosenAddress(s) \in Address
<1>1. CASE Has(s, IPv4 \cap Known)
  <2>1. PICK i \in DOMAIN s :
          First(s, IPv4 \cap Known) = s[i] /\ s[i] \in IPv4 \cap Known
    BY <1>1, FirstIn
  <2>. QED
    BY <1>1, <2>1, AddressAssumption DEF ChosenAddress
<1>2. CASE ~ Has(s, IPv4 \cap Known)
  <2>1. PICK i \in DOMAIN s : First(s, IPv4) = s[i] /\ s[i] \in IPv4
    BY FirstIn
  <2>. QED
    BY <1>2, <2>1, AddressAssumption DEF ChosenAddress
<1>. QED
  BY <1>1, <1>2

\* Both kinds of list are lists of nodes.
LEMMA ListTypes ==
  /\ \A nodes \in DiscoveredLists : nodes \subseteq ListedNode
  /\ FallbackNodes \subseteq ListedNode
<1>1. ASSUME NEW nodes \in DiscoveredLists, NEW n \in nodes PROVE n \in ListedNode
  <2>1. PICK r \in ClusterReports, untyped \in SUBSET Untyped :
          nodes = DiscoveredNodes(r, untyped)
    BY DEF DiscoveredLists
  <2>2. PICK m \in Machine :
          /\ Has(r[m], IPv4)
          /\ n = [address |-> ChosenAddress(r[m]), name |-> m,
                  role |-> Role(m, untyped)]
    BY <1>1, <2>1 DEF DiscoveredNodes
  <2>3. r[m] \in Seq(Address)
    BY ReportedAddresses DEF ClusterReports
  <2>4. ChosenAddress(r[m]) \in Address /\ Role(m, untyped) \in Roles
    BY <2>2, <2>3, ChosenIsAddress DEF Role, Roles
  <2>. QED
    BY <2>2, <2>4 DEF ListedNode
<1>2. FallbackNodes \subseteq ListedNode
  BY AddressAssumption DEF FallbackNodes, ListedNode, Roles
<1>. QED
  BY <1>1, <1>2

-----------------------------------------------------------------------------
(* The inductive invariant.                                                   *)

\* A named node is at its machine's own address, a nameless one at a known
\* address, and a role is that of the named machine.
OwnOrNameless(nodes) ==
  \A n \in nodes :
    /\ n.name # NoName => n.name \in Machine /\ n.address = Own[n.name]
    /\ n.name = NoName => n.address \in Known /\ n.role = "unknown"
    /\ n.role # "unknown" => n.role = Role(n.name, {})

ListNamesOwners == OwnOrNameless(listing \cup polled)

OneName(nodes) == \A m, n \in nodes : m.address = n.address => m.name = n.name

\* A nameless node's address is not both waiting and polled, so that the name
\* which an answer gives it stands alone.
PolledOnce ==
  /\ listing \subseteq ListedNode
  /\ \A m \in listing, n \in polled : m.name = NoName => m.address # n.address
  /\ OneName(listing \cup polled)

\* An online poll was answered by machines behind its address, and etcd only
\* by one of the control plane.
FromBehind(n) ==
  /\ n.from \subseteq Behind(n.address)
  /\ n.online => n.from # {}
  /\ n.etcd => n.from \cap ControlPlane # {}

AnsweredFromBehind == \A n \in polled : FromBehind(n)

IInv ==
  OwnAddressesKnown =>
    /\ ListNamesOwners
    /\ PolledOnce
    /\ AnsweredFromBehind
    /\ NamedAfterItsMachine
    /\ ControlPlaneCounted

\* Only its own machine is behind a machine's own address.
LEMMA OnlyOwnerBehind ==
  ASSUME NEW m \in Machine
  PROVE  Behind(Own[m]) = {m}
BY AddressAssumption DEF Behind

\* What one poll shows is as NamedAfterItsMachine and ControlPlaneCounted say.
LEMMA PolledIsOwn ==
  ASSUME OwnAddressesKnown, NEW nodes, OwnOrNameless(nodes),
         NEW n \in nodes, FromBehind(n)
  PROVE  /\ n.online /\ n.name # NoName => n.from = {n.name}
         /\ n.etcd \/ n.role = "controlplane" =>
              \E m \in ControlPlane : n.address = Own[m]
         /\ n.role # "unknown" /\ (\E m \in ControlPlane : n.address = Own[m])
              => n.role = "controlplane"
<1>1. CASE n.name # NoName
  <2>1. n.name \in Machine /\ n.address = Own[n.name]
    BY <1>1 DEF OwnOrNameless
  <2>2. Behind(n.address) = {n.name}
    BY <2>1, OnlyOwnerBehind
  <2>3. n.role # "unknown" => n.role = Role(n.name, {})
    BY DEF OwnOrNameless
  <2>4. \A m \in ControlPlane : n.address = Own[m] => m = n.name
    BY <2>1, AddressAssumption
  <2>. QED
    BY <2>1, <2>2, <2>3, <2>4 DEF FromBehind, Role
<1>2. CASE n.name = NoName
  <2>1. n.address \in Known /\ n.role = "unknown"
    BY <1>2 DEF OwnOrNameless
  <2>2. n.address # Vip
    BY <2>1 DEF OwnAddressesKnown, Known
  <2>3. n.etcd => \E m \in ControlPlane : n.address = Own[m]
    BY <2>2 DEF FromBehind, Behind
  <2>. QED
    BY <1>2, <2>1, <2>3
<1>. QED
  BY <1>1, <1>2

\* A list of members names each at its own address.
LEMMA DiscoveredNamesOwners ==
  ASSUME OwnAddressesKnown, NEW nodes \in DiscoveredLists
  PROVE  OwnOrNameless(nodes) /\ OneName(nodes)
<1>1. PICK r \in ClusterReports, untyped \in SUBSET Untyped :
        nodes = DiscoveredNodes(r, untyped)
  BY DEF DiscoveredLists
<1>2. \A m \in Machine : r[m] \in Reports(m)
  BY DEF ClusterReports
<1>3. \A n \in nodes :
        /\ n.name \in Machine /\ n.address = Own[n.name]
        /\ n.role # "unknown" => n.role = Role(n.name, {})
  <2>. SUFFICES ASSUME NEW n \in nodes
                PROVE  /\ n.name \in Machine /\ n.address = Own[n.name]
                       /\ n.role # "unknown" => n.role = Role(n.name, {})
    OBVIOUS
  <2>1. PICK m \in Machine :
          /\ Has(r[m], IPv4)
          /\ n = [address |-> ChosenAddress(r[m]), name |-> m,
                  role |-> Role(m, untyped)]
    BY <1>1 DEF DiscoveredNodes
  <2>2. n.address = ChosenAddress(r[m]) /\ n.name = m /\ n.role = Role(m, untyped)
    BY <2>1
  <2>3. ChosenAddress(r[m]) = Own[m]
    BY <1>2, <2>1, OwnAddressChosen
  <2>. QED
    BY <2>2, <2>3 DEF Role
<1>4. OneName(nodes)
  BY <1>3, AddressAssumption DEF OneName
<1>. QED
  BY <1>3, <1>4, NameAssumption DEF OwnOrNameless

\* The fallback has no names, and only known addresses.
LEMMA FallbackNameless == OwnOrNameless(FallbackNodes) /\ OneName(FallbackNodes)
<1>1. \A n \in FallbackNodes :
        n.name = NoName /\ n.address \in Known /\ n.role = "unknown"
  BY DEF FallbackNodes, Known
<1>. QED
  BY <1>1 DEF OwnOrNameless, OneName

-----------------------------------------------------------------------------
\* It holds when the entry is set up: there is nothing to be named.
LEMMA InitIInv == Init => IInv
BY DEF Init, IInv, ListNamesOwners, OwnOrNameless, PolledOnce, OneName,
       AnsweredFromBehind, NamedAfterItsMachine, ControlPlaneCounted

\* A new list keeps it if it is one of the two kinds.
LEMMA ListingIInv ==
  ASSUME IInv, NEW nodes, NEW b, Listing(nodes, b),
         nodes \subseteq ListedNode,
         OwnAddressesKnown => OwnOrNameless(nodes) /\ OneName(nodes)
  PROVE  IInv'
<1>. SUFFICES ASSUME OwnAddressesKnown
              PROVE  /\ ListNamesOwners' /\ PolledOnce' /\ AnsweredFromBehind'
                     /\ NamedAfterItsMachine' /\ ControlPlaneCounted'
  BY DEF IInv, OwnAddressesKnown
<1>1. listing' = nodes /\ polled' = {} /\ view' = view
  BY DEF Listing
<1>2. ListNamesOwners' /\ PolledOnce' /\ AnsweredFromBehind'
  BY <1>1 DEF ListNamesOwners, OwnOrNameless, PolledOnce, OneName,
     AnsweredFromBehind
<1>3. NamedAfterItsMachine' /\ ControlPlaneCounted'
  BY <1>1 DEF IInv, NamedAfterItsMachine, ControlPlaneCounted, OwnAddressesKnown
<1>. QED
  BY <1>2, <1>3

\* A poll keeps it: what is read under a member's name is read from behind the
\* member's own address.
LEMMA EndsIInv ==
  ASSUME IInv, NEW node, NEW machines, NEW name, NEW mounts, NEW etcd,
         Ends(node, machines, name, mounts, etcd),
         machines \subseteq Behind(node.address),
         name = node.name \/ (node.name = NoName /\ name \in machines),
         etcd => machines \cap ControlPlane # {}
  PROVE  IInv'
<1>. SUFFICES ASSUME OwnAddressesKnown
              PROVE  /\ ListNamesOwners' /\ PolledOnce' /\ AnsweredFromBehind'
                     /\ NamedAfterItsMachine' /\ ControlPlaneCounted'
  BY DEF IInv, OwnAddressesKnown
<1>. DEFINE new == [address |-> node.address, name |-> name,
                    role |-> node.role, online |-> machines # {},
                    etcd |-> etcd, from |-> machines, mounts |-> mounts,
                    disk |-> DiskUsage(mounts), volumes |-> Volumes(mounts)]
<1>1. /\ new.address = node.address /\ new.name = name
      /\ new.role = node.role /\ new.online = (machines # {})
      /\ new.etcd = etcd /\ new.from = machines
  OBVIOUS
<1>2. /\ node \in listing /\ listing' = listing \ {node}
      /\ polled' = polled \cup {new} /\ view' = view
  BY DEF Ends
<1>. HIDE DEF new
<1>3. ListNamesOwners'
  <2>1. OwnOrNameless(listing \cup polled)
    BY DEF IInv, ListNamesOwners
  <2>2. name \in machines /\ node.name = NoName
          => name \in Machine /\ node.address = Own[name]
    <3>1. node.name = NoName => node.address \in Known
      BY <1>2, <2>1 DEF OwnOrNameless
    <3>. QED
      BY <3>1 DEF Behind, OwnAddressesKnown, Known
  <2>3. OwnOrNameless({new})
    <3>1. CASE name = node.name
      BY <1>1, <1>2, <2>1, <3>1 DEF OwnOrNameless
    <3>2. CASE node.name = NoName /\ name \in machines
      BY <1>1, <1>2, <2>1, <2>2, <3>2, NameAssumption DEF OwnOrNameless
    <3>. QED
      BY <3>1, <3>2
  <2>4. OwnOrNameless(listing' \cup polled')
    BY <1>2, <2>1, <2>3 DEF OwnOrNameless
  <2>. QED
    BY <2>4 DEF ListNamesOwners, OwnOrNameless
<1>6. PolledOnce'
  <2>1. /\ listing \subseteq ListedNode
        /\ OneName(listing \cup polled) /\ OwnOrNameless(listing \cup polled)
        /\ \A m \in listing, n \in polled : m.name = NoName => m.address # n.address
    BY DEF IInv, PolledOnce, ListNamesOwners
  \* Another nameless node that waits is not at this one's address.
  <2>2. ASSUME NEW m \in listing', m.address = node.address
        PROVE  m.name = node.name /\ m.name # NoName
    <3>1. m \in listing /\ m # node /\ m.name = node.name
      BY <1>2, <2>1, <2>2 DEF OneName
    <3>2. ASSUME m.name = NoName PROVE FALSE
      <4>1. m.role = "unknown" /\ node.role = "unknown"
        BY <1>2, <2>1, <3>1, <3>2 DEF OwnOrNameless
      <4>2. m = node
        BY <1>2, <2>1, <2>2, <3>1, <4>1 DEF ListedNode
      <4>. QED
        BY <3>1, <4>2
    <3>. QED
      BY <3>1, <3>2
  <2>3. ASSUME NEW m \in listing', NEW n \in polled', m.name = NoName
        PROVE  m.address # n.address
    BY <1>1, <1>2, <2>1, <2>2, <2>3
  <2>4. ASSUME NEW m \in listing' \cup polled', m.address = new.address
        PROVE  m.name = new.name
    <3>1. CASE m \in listing'
      BY <1>1, <2>2, <2>4, <3>1
    <3>2. CASE m \in polled
      <4>1. m.address = node.address
        BY <1>1, <2>4
      <4>2. m.name = node.name /\ node.name # NoName
        BY <1>2, <2>1, <3>2, <4>1 DEF OneName
      <4>. QED
        BY <1>1, <4>2
    <3>. QED
      BY <1>2, <3>1, <3>2
  <2>5. OneName(listing' \cup polled')
    BY <1>2, <2>1, <2>4 DEF OneName
  <2>. QED
    BY <1>2, <2>1, <2>3, <2>5 DEF PolledOnce, OneName
<1>4. AnsweredFromBehind'
  <2>1. FromBehind(new)
    BY <1>1 DEF FromBehind
  <2>2. \A n \in polled' : FromBehind(n)
    BY <1>2, <2>1 DEF IInv, AnsweredFromBehind
  <2>. QED
    BY <2>2 DEF AnsweredFromBehind, FromBehind, Behind
<1>5. NamedAfterItsMachine' /\ ControlPlaneCounted'
  BY <1>2 DEF IInv, NamedAfterItsMachine, ControlPlaneCounted, OwnAddressesKnown
<1>. QED
  BY <1>3, <1>4, <1>5, <1>6

\* What a node map shows was polled.
LEMMA ShownWasPolled ==
  ASSUME NEW v \in NodeMaps, NEW a \in Address, v[a] # NoNode
  PROVE  \E n \in polled : n.address = a /\ v[a] = Shown(n)
<1>1. PICK kept \in SUBSET polled : v = NodeMap(kept)
  BY DEF NodeMaps
<1>2. \E n \in kept : n.address = a
  BY <1>1 DEF NodeMap
<1>3. v[a] = Shown(CHOOSE n \in kept : n.address = a)
  BY <1>1, <1>2 DEF NodeMap
<1>. QED
  BY <1>2, <1>3

\* A publication keeps it: what is shown is what was polled.
LEMMA PublishIInv ==
  ASSUME IInv, Publish
  PROVE  IInv'
<1>. SUFFICES ASSUME OwnAddressesKnown
              PROVE  /\ ListNamesOwners' /\ PolledOnce' /\ AnsweredFromBehind'
                     /\ NamedAfterItsMachine' /\ ControlPlaneCounted'
  BY DEF IInv, OwnAddressesKnown
<1>1. PICK v \in NodeMaps : view' = v
  BY DEF Publish
<1>2. polled' = {} /\ listing' = {}
  BY DEF Publish
<1>3. ListNamesOwners' /\ PolledOnce' /\ AnsweredFromBehind'
  BY <1>2 DEF ListNamesOwners, OwnOrNameless, PolledOnce, OneName,
     AnsweredFromBehind
<1>4. ASSUME NEW a \in Address, v[a] # NoNode
      PROVE  /\ v[a].online /\ v[a].name # NoName => v[a].from = {v[a].name}
             /\ Counted(v[a]) => \E m \in ControlPlane : a = Own[m]
             /\ v[a].role # "unknown" /\ (\E m \in ControlPlane : a = Own[m])
                  => Counted(v[a])
  <2>1. PICK n \in polled : n.address = a /\ v[a] = Shown(n)
    BY <1>4, ShownWasPolled
  <2>2. /\ v[a].name = n.name /\ v[a].online = n.online /\ v[a].from = n.from
        /\ v[a].role = n.role /\ v[a].etcd = n.etcd
    BY <2>1 DEF Shown
  <2>3. OwnOrNameless(listing \cup polled) /\ FromBehind(n)
    BY DEF IInv, ListNamesOwners, AnsweredFromBehind
  <2>4. n \in listing \cup polled
    OBVIOUS
  <2>5. /\ n.online /\ n.name # NoName => n.from = {n.name}
        /\ n.etcd \/ n.role = "controlplane" =>
             \E m \in ControlPlane : n.address = Own[m]
        /\ n.role # "unknown" /\ (\E m \in ControlPlane : n.address = Own[m])
             => n.role = "controlplane"
    BY <2>3, <2>4, PolledIsOwn
  <2>. QED
    BY <2>1, <2>2, <2>5 DEF Counted
<1>5. NamedAfterItsMachine' /\ ControlPlaneCounted'
  BY <1>1, <1>4 DEF NamedAfterItsMachine, ControlPlaneCounted, Counted
<1>. QED
  BY <1>3, <1>5

\* No step of the program breaks it.
LEMMA NextIInv == IInv /\ [Next]_vars => IInv'
<1>. SUFFICES ASSUME IInv, [Next]_vars PROVE IInv'
  OBVIOUS
<1>. USE DEF IInv, ListNamesOwners, OwnOrNameless, PolledOnce, OneName,
             AnsweredFromBehind, FromBehind, NamedAfterItsMachine, ControlPlaneCounted,
             OwnAddressesKnown, Behind
<1>1. CASE DiscoverNodes
  <2>1. PICK nodes \in DiscoveredLists : Listing(nodes, TRUE)
    BY <1>1 DEF DiscoverNodes
  <2>. QED
    BY ONLY <2>1, IInv, ListTypes, ListingIInv, DiscoveredNamesOwners
<1>2. CASE DiscoveryFails
  BY ONLY <1>2, IInv, ListTypes, ListingIInv, FallbackNameless DEF DiscoveryFails
<1>3. ASSUME NEW node \in listing, PollNode(node) \/ PollFails(node)
      PROVE  IInv'
  <2>1. CASE PollNode(node)
    <3>1. PICK machines \in (SUBSET Behind(node.address)) \ {{}} :
            \E hostname \in machines \cup {NoName},
              mounts \in (UNION {MountLists[m] : m \in machines}) \cup {<<>>},
              etcdMembers \in {EtcdMembers(m) : m \in machines} \cup {{}} :
                Ends(node, machines, Named(node, hostname), mounts,
                     etcdMembers # {})
      BY ONLY <2>1 DEF PollNode
    <3>2. \A e \in {EtcdMembers(m) : m \in machines} \cup {{}} :
            e # {} => machines \cap ControlPlane # {}
      BY ONLY DEF EtcdMembers
    <3>3. \A hostname \in machines \cup {NoName} :
            \/ Named(node, hostname) = node.name
            \/ node.name = NoName /\ Named(node, hostname) \in machines
      BY ONLY DEF Named
    <3>. QED
      BY ONLY <3>1, <3>2, <3>3, IInv, EndsIInv
  <2>2. CASE PollFails(node)
    BY ONLY <2>2, IInv, EndsIInv DEF PollFails
  <2>. QED
    BY <1>3, <2>1, <2>2
<1>4. CASE Refused
  BY <1>4 DEF Refused
<1>5. CASE Publish
  BY ONLY <1>5, IInv, PublishIInv
<1>6. ASSUME NEW a \in Address, DeleteDevice(a) PROVE IInv'
  BY <1>6 DEF DeleteDevice
<1>7. CASE Reload
  BY <1>7 DEF Reload
<1>8. CASE UNCHANGED vars
  BY <1>8 DEF vars
<1>. QED
  BY <1>1, <1>2, <1>3, <1>4, <1>5, <1>6, <1>7, <1>8 DEF Next

-----------------------------------------------------------------------------
\* client.py:392-397, coordinator.py:230-232, for any machines and addresses: if
\* the talosconfig or the endpoint gives the control plane's own addresses and
\* not the shared one, an online node under a machine's name was read from it.
THEOREM NamedAfterItsMachineHolds == Spec => []NamedAfterItsMachine
<1>1. IInv => NamedAfterItsMachine
  BY DEF IInv, NamedAfterItsMachine
<1>. QED
  BY <1>1, InitIInv, NextIInv, PTL DEF Spec

\* sensor.py:143, for any machines and addresses: under the same condition no
\* machine is counted twice for the control plane, and each of its members that
\* is shown with a role is counted, reached or not.
THEOREM ControlPlaneCountedHolds == Spec => []ControlPlaneCounted
<1>1. IInv => ControlPlaneCounted
  BY DEF IInv, ControlPlaneCounted
<1>. QED
  BY <1>1, InitIInv, NextIInv, PTL DEF Spec

\* And under that condition two members never share an address, so that the
\* node map, keyed by address, loses neither.
THEOREM OneNodePerAddressHolds == Spec => []OneNodePerAddress
<1>1. IInv => OneNodePerAddress
  BY DEF IInv, PolledOnce, OneName, OneNodePerAddress
<1>. QED
  BY <1>1, InitIInv, NextIInv, PTL DEF Spec

-----------------------------------------------------------------------------
(* Types, disks and volume sensors.                                           *)

\* Whatever list a poll brings, the provers of Mounts speak of it.
LEMMA ListsAreMountLists ==
  ASSUME NEW mounts \in (UNION {MountLists[m] : m \in Machine}) \cup {<<>>}
  PROVE  IsMountList(mounts)
<1>1. CASE mounts = <<>>
  BY <1>1 DEF IsMountList
<1>2. CASE mounts # <<>>
  <2>1. PICK m \in Machine : mounts \in MountLists[m]
    BY <1>2
  <2>2. mounts \in Seq(Mount)
    BY <2>1, MountListsAssumption
  <2>3. \A i \in DOMAIN mounts : mounts[i].available <= mounts[i].size
    BY <2>1, MountListsAssumption
  <2>. QED
    BY <2>2, <2>3 DEF IsMountList
<1>. QED
  BY <1>1, <1>2

\* A volume that is shown has been met, and for each that was met there is a
\* sensor of its unique id, or was one until its device went.
ShownIsKnown ==
  \A a \in Address : view[a] # NoNode =>
    \A i \in DOMAIN view[a].volumes : <<a, view[a].volumes[i].on>> \in known

HasSensor(k, there) == \E j \in there : SameId(j, k)

KnownHasSensor == \A k \in known : HasSensor(k, sensors \cup lost)

SensorInv == TypeOK /\ UsagesAreOfMounts /\ ShownIsKnown /\ KnownHasSensor

\* They hold when the entry is set up: nothing is shown or known.
LEMMA InitSensorInv == Init => SensorInv
BY DEF Init, SensorInv, TypeOK, UsagesAreOfMounts, ShownIsKnown,
       KnownHasSensor

\* A new list keeps them: it leaves what is shown alone.
LEMMA ListingSensorInv ==
  ASSUME SensorInv, NEW nodes, nodes \subseteq ListedNode,
         NEW b \in BOOLEAN, Listing(nodes, b)
  PROVE  SensorInv'
<1>1. /\ pc' = "poll" /\ complete' = b /\ listing' = nodes /\ polled' = {}
      /\ UNCHANGED <<view, known, sensors, lost>>
  BY DEF Listing
<1>2. TypeOK'
  BY <1>1 DEF SensorInv, TypeOK
<1>3. UsagesAreOfMounts'
  BY <1>1 DEF UsagesAreOfMounts
<1>4. ShownIsKnown' /\ KnownHasSensor'
  BY <1>1 DEF SensorInv, ShownIsKnown, KnownHasSensor, HasSensor
<1>. QED
  BY <1>2, <1>3, <1>4 DEF SensorInv

\* A poll keeps them: its usages are those of the list it brings.
LEMMA EndsSensorInv ==
  ASSUME SensorInv, NEW node, NEW machines, NEW name, NEW mounts,
         NEW etcd \in BOOLEAN, Ends(node, machines, name, mounts, etcd),
         machines \subseteq Behind(node.address),
         name \in machines \cup {node.name, NoName},
         mounts \in (UNION {MountLists[m] : m \in Machine}) \cup {<<>>}
  PROVE  SensorInv'
<1>. DEFINE new == [address |-> node.address, name |-> name,
                    role |-> node.role, online |-> machines # {},
                    etcd |-> etcd, from |-> machines, mounts |-> mounts,
                    disk |-> DiskUsage(mounts), volumes |-> Volumes(mounts)]
<1>1. /\ node \in listing /\ listing' \subseteq listing
      /\ polled' = polled \cup {new}
      /\ UNCHANGED <<pc, complete, view, known, sensors, lost>>
  BY DEF Ends
<1>2. /\ DiskUsage(mounts) \in Usage \cup {NoUsage}
      /\ IsUsageOf(DiskUsage(mounts), mounts)
      /\ Volumes(mounts) \in Seq(Volume)
      /\ IsVolumesOf(Volumes(mounts), mounts)
  BY ListsAreMountLists, VolumesCorrect, UsageCorrect
<1>3. new \in PolledNode
  <2>1. /\ node.address \in Address /\ node.name \in Machine \cup {NoName}
        /\ node.role \in Roles
    BY <1>1 DEF SensorInv, TypeOK, ListedNode
  <2>2. machines \in SUBSET Machine
    BY AddressAssumption DEF Behind
  <2>3. name \in Machine \cup {NoName}
    BY <2>1, <2>2
  <2>. QED
    BY <1>2, <2>1, <2>2, <2>3 DEF PolledNode
<1>4. IsVolumesOf(new.volumes, new.mounts) /\ IsUsageOf(new.disk, new.mounts)
  BY <1>2
<1>. HIDE DEF new
<1>5. TypeOK'
  BY <1>1, <1>3 DEF SensorInv, TypeOK
<1>6. UsagesAreOfMounts'
  BY <1>1, <1>4 DEF SensorInv, UsagesAreOfMounts
<1>7. ShownIsKnown' /\ KnownHasSensor'
  BY <1>1 DEF SensorInv, ShownIsKnown, KnownHasSensor, HasSensor
<1>. QED
  BY <1>5, <1>6, <1>7 DEF SensorInv

\* Of the volumes that are new together each gets a sensor, or shares the
\* unique id of one that is there or gets one.
LEMMA NewHasSensor ==
  ASSUME NEW present, NEW new \in SUBSET Key, NEW k \in new
  PROVE  HasSensor(k, present \cup Added(new, present))
<1>1. CASE HasSensor(k, present)
  BY <1>1 DEF HasSensor
<1>2. CASE ~ HasSensor(k, present)
  <2>. DEFINE I == {p \in MountPoint : \E j \in new : j[2] = p /\ SameId(j, k)}
  <2>1. I # {}
    <3>1. k[2] \in MountPoint /\ SameId(k, k)
      BY DEF Key, SameId
    <3>. QED
      BY <3>1
  <2>2. I \in SUBSET Nat
    BY MountAssumption
  <2>3. PICK p \in I : \A q \in I : p <= q
    BY <2>1, <2>2, LeastIndex, Zenon
  <2>4. PICK j \in new : j[2] = p /\ SameId(j, k)
    BY <2>3
  <2>5. ASSUME NEW i \in present PROVE ~ SameId(i, j)
    BY <1>2, <2>4 DEF HasSensor, SameId
  <2>6. ASSUME NEW i \in new, i[2] < j[2] PROVE ~ SameId(i, j)
    <3>1. SUFFICES ASSUME SameId(i, j) PROVE FALSE
      OBVIOUS
    <3>2. SameId(i, k) /\ i[2] \in MountPoint
      BY <2>4, <3>1 DEF SameId, Key
    <3>3. i[2] \in I
      BY <3>2
    <3>. QED
      BY <2>2, <2>3, <2>4, <2>6, <3>3
  <2>7. j \in Added(new, present)
    BY <2>5, <2>6 DEF Added
  <2>. QED
    BY <2>4, <2>7 DEF HasSensor
<1>. QED
  BY <1>1, <1>2

\* A sensor that is removed with its device is in lost from then on.
LEMMA RemovedIsLost ==
  ASSUME SensorInv, NEW addresses, NEW k \in known
  PROVE  HasSensor(k, (sensors \ At(addresses, sensors))
                        \cup (lost \cup At(addresses, known)))
<1>1. PICK j \in sensors \cup lost : SameId(j, k)
  BY DEF SensorInv, KnownHasSensor, HasSensor
<1>2. j \in known
  BY DEF SensorInv, TypeOK
<1>3. j \in (sensors \ At(addresses, sensors)) \cup (lost \cup At(addresses, known))
  BY <1>2 DEF At
<1>. QED
  BY <1>1, <1>3 DEF HasSensor

\* A publication keeps them.
LEMMA PublishSensorInv ==
  ASSUME SensorInv, Publish
  PROVE  SensorInv'
<1>. DEFINE present == sensors \ At(Pruned, sensors)
<1>1. PICK v \in NodeMaps :
        /\ view' = v
        /\ known' = known \cup NewVolumes(v)
        /\ sensors' = present \cup Added(NewVolumes(v), present)
        /\ lost' = lost \cup At(Pruned, known)
  BY DEF Publish
<1>2. /\ pc' = "idle" /\ polled' = {} /\ listing' = {}
      /\ complete' = complete
  BY DEF Publish
<1>3. ASSUME NEW a \in Address, v[a] # NoNode
      PROVE  /\ v[a] \in ShownNode
             /\ \A i \in DOMAIN v[a].volumes : v[a].volumes[i].on \in MountPoint
  <2>1. PICK n \in polled : n.address = a /\ v[a] = Shown(n)
    BY <1>3, ShownWasPolled
  <2>2. n \in PolledNode
    BY DEF SensorInv, TypeOK
  <2>3. v[a] \in ShownNode
    BY <2>1, <2>2 DEF Shown, PolledNode, ShownNode
  <2>4. v[a].volumes \in Seq(Volume)
    BY <2>3 DEF ShownNode
  <2>5. \A i \in DOMAIN v[a].volumes : v[a].volumes[i] \in Volume
    BY <2>4
  <2>. QED
    BY <2>3, <2>5 DEF Volume
<1>4. NewVolumes(v) \subseteq Key
  BY DEF NewVolumes
<1>5. TypeOK'
  <2>1. known' \subseteq Key
    BY <1>1, <1>4 DEF SensorInv, TypeOK
  <2>2. sensors' \subseteq known'
    BY <1>1 DEF SensorInv, TypeOK, Added
  <2>3. lost' \subseteq known'
    BY <1>1 DEF SensorInv, TypeOK, At
  <2>4. \A a \in Address : view'[a] \in ShownNode \cup {NoNode}
    BY <1>1, <1>3
  <2>. QED
    BY <1>2, <2>1, <2>2, <2>3, <2>4 DEF SensorInv, TypeOK
<1>6. UsagesAreOfMounts'
  BY <1>2 DEF UsagesAreOfMounts
<1>7. ShownIsKnown'
  <2>. SUFFICES ASSUME NEW a \in Address, v[a] # NoNode,
                       NEW i \in DOMAIN v[a].volumes
                PROVE  <<a, v[a].volumes[i].on>> \in known \cup NewVolumes(v)
    BY <1>1 DEF ShownIsKnown
  <2>. DEFINE k == <<a, v[a].volumes[i].on>>
  <2>1. k \in Key /\ k[1] = a /\ k[2] = v[a].volumes[i].on
    BY <1>3 DEF Key
  <2>. HIDE DEF k
  <2>2. k \notin known => k \in NewVolumes(v)
    BY <2>1 DEF NewVolumes
  <2>. QED
    BY <2>2 DEF k
<1>8. KnownHasSensor'
  <2>. SUFFICES ASSUME NEW k \in known' PROVE HasSensor(k, sensors' \cup lost')
    BY DEF KnownHasSensor, HasSensor, SameId
  <2>1. CASE k \in known
    <3>1. HasSensor(k, present \cup (lost \cup At(Pruned, known)))
      BY <2>1, RemovedIsLost
    <3>. QED
      BY <1>1, <3>1 DEF HasSensor
  <2>2. CASE k \in NewVolumes(v)
    <3>1. HasSensor(k, present \cup Added(NewVolumes(v), present))
      BY <1>4, <2>2, NewHasSensor
    <3>. QED
      BY <1>1, <3>1 DEF HasSensor
  <2>. QED
    BY <1>1, <2>1, <2>2
<1>. QED
  BY <1>5, <1>6, <1>7, <1>8 DEF SensorInv

\* No step of the program breaks them.
LEMMA NextSensorInv == SensorInv /\ [Next]_vars => SensorInv'
<1>. SUFFICES ASSUME SensorInv, [Next]_vars PROVE SensorInv'
  OBVIOUS
<1>1. CASE DiscoverNodes
  <2>1. PICK nodes \in DiscoveredLists : Listing(nodes, TRUE)
    BY <1>1 DEF DiscoverNodes
  <2>. QED
    BY <2>1, ListTypes, ListingSensorInv
<1>2. CASE DiscoveryFails
  BY <1>2, ListTypes, ListingSensorInv DEF DiscoveryFails
<1>3. ASSUME NEW node \in listing, PollNode(node) PROVE SensorInv'
  <2>1. PICK machines \in (SUBSET Behind(node.address)) \ {{}} :
          \E name \in machines \cup {node.name, NoName},
            mounts \in (UNION {MountLists[m] : m \in machines}) \cup {<<>>},
            etcd \in BOOLEAN : Ends(node, machines, name, mounts, etcd)
    BY <1>3 DEF PollNode, Named
  <2>2. machines \subseteq Machine
    BY AddressAssumption DEF Behind
  <2>3. UNION {MountLists[m] : m \in machines}
          \subseteq UNION {MountLists[m] : m \in Machine}
    BY <2>2
  <2>. QED
    BY <2>1, <2>3, EndsSensorInv
<1>4. ASSUME NEW node \in listing, PollFails(node) PROVE SensorInv'
  <2>1. Ends(node, {}, node.name, <<>>, FALSE)
    BY <1>4 DEF PollFails
  <2>2. <<>> \in (UNION {MountLists[m] : m \in Machine}) \cup {<<>>}
    OBVIOUS
  <2>. QED
    BY ONLY SensorInv, <2>1, <2>2, EndsSensorInv
<1>5. CASE Refused
  BY <1>5 DEF Refused, SensorInv, TypeOK, UsagesAreOfMounts, ShownIsKnown,
              KnownHasSensor, HasSensor
<1>6. CASE Publish
  BY <1>6, PublishSensorInv
<1>7. ASSUME NEW a \in Address, DeleteDevice(a) PROVE SensorInv'
  <2>1. /\ sensors' = sensors \ At({a}, sensors)
        /\ lost' = lost \cup At({a}, known)
        /\ UNCHANGED <<pc, complete, listing, polled, view, known>>
    BY <1>7 DEF DeleteDevice
  <2>2. TypeOK'
    BY <2>1 DEF SensorInv, TypeOK, At
  <2>3. UsagesAreOfMounts' /\ ShownIsKnown'
    BY <2>1 DEF SensorInv, UsagesAreOfMounts, ShownIsKnown
  <2>4. KnownHasSensor'
    <3>1. \A k \in known : HasSensor(k, sensors' \cup lost')
      BY <2>1, RemovedIsLost
    <3>. QED
      BY <2>1, <3>1 DEF KnownHasSensor, HasSensor, SameId
  <2>. QED
    BY <2>2, <2>3, <2>4 DEF SensorInv
<1>8. CASE Reload
  BY <1>8 DEF Reload, SensorInv, TypeOK, UsagesAreOfMounts, ShownIsKnown,
              KnownHasSensor
<1>9. CASE UNCHANGED vars
  BY <1>9 DEF vars, SensorInv, TypeOK, UsagesAreOfMounts, ShownIsKnown,
              KnownHasSensor, HasSensor
<1>. QED
  BY <1>1, <1>2, <1>3, <1>4, <1>5, <1>6, <1>7, <1>8, <1>9 DEF Next

\* So they always hold.
LEMMA SensorInvHolds == Spec => []SensorInv
BY InitSensorInv, NextSensorInv, PTL DEF Spec

\* coordinator.py:167-330, for any machines and mount lists: every variable
\* keeps its type; in particular a usage that is shown has a size to divide by.
THEOREM TypeCorrect == Spec => []TypeOK
<1>1. SensorInv => TypeOK
  BY DEF SensorInv
<1>. QED
  BY <1>1, SensorInvHolds, PTL

\* coordinator.py:291-327, for mount lists of any length: the usages of a poll
\* are those of the first mounts of its list that qualify.
THEOREM UsagesAreOfMountsHolds == Spec => []UsagesAreOfMounts
<1>1. SensorInv => UsagesAreOfMounts
  BY DEF SensorInv
<1>. QED
  BY <1>1, SensorInvHolds, PTL

\* sensor.py:211, for any nodes, volumes and slugs, and through any deletions
\* of devices: a shown volume has a sensor of its unique id, unless that was
\* added once and went with its device.
THEOREM EveryVolumeHasSensorHolds == Spec => []EveryVolumeHasSensor
<1>1. SensorInv => EveryVolumeHasSensor
  BY DEF SensorInv, ShownIsKnown, KnownHasSensor, HasSensor, EveryVolumeHasSensor
<1>. QED
  BY <1>1, SensorInvHolds, PTL
=============================================================================
