----------------------------- MODULE Discovery ------------------------------
(* TalosClient.discover_nodes: the address each member of the cluster gets.   *)
(* The Members resource lists a machine's addresses in no promised order, and *)
(* lists the shared address of the control plane with those of the machine    *)
(* that holds it; while it moves, perhaps with those of two.                  *)
(*                                                                            *)
(* A definition just before the one it resembles is a seeded fault, as in     *)
(* Coordinator.                                                               *)
EXTENDS Naturals, SequencesExt

CONSTANTS
  Machine,         \* machines of the cluster; a member is named after its id
  ControlPlane,    \* those that run etcd and can hold the shared address
  Address,         \* addresses, of either family
  IPv4,            \* addresses for which _is_ipv4 holds
  Own,             \* a machine's own IPv4 address
  Vip,             \* the control plane's shared address
  MaxAddresses,    \* bound on the addresses of one member
  Endpoint,        \* entry.data[CONF_ENDPOINT]
  CredEndpoints,   \* endpoints of the talosconfig's context, possibly none
  Untyped          \* machines whose entry may lack a machine type

ASSUME AddressAssumption ==
  /\ ControlPlane \subseteq Machine
  /\ IPv4 \subseteq Address
  /\ Own \in [Machine -> IPv4]
  /\ \A m, n \in Machine : Own[m] = Own[n] => m = n
  /\ Vip \in IPv4
  /\ \A m \in Machine : Own[m] # Vip
  /\ MaxAddresses \in Nat
  /\ Endpoint \in Address
  /\ CredEndpoints \subseteq Address
  /\ Untyped \subseteq Machine

NoName == "no name"
ASSUME NameAssumption == NoName \notin Machine

MayHave(m) ==
  {Own[m]} \cup (Address \ IPv4) \cup (IF m \in ControlPlane THEN {Vip} ELSE {})

\* What the Members resource can list for a machine: nothing once it left, and
\* the shared address only next to its own.
Reports(m) ==
  {s \in SeqOf(MayHave(m), MaxAddresses) :
     /\ \A i, j \in DOMAIN s : s[i] = s[j] => i = j
     /\ (\E i \in DOMAIN s : s[i] = Vip) => \E i \in DOMAIN s : s[i] = Own[m]}

\* All that a list of the Members resource can say.
ClusterReports ==
  {r \in [Machine -> UNION {Reports(m) : m \in Machine}] :
     \A m \in Machine : r[m] \in Reports(m)}

-----------------------------------------------------------------------------
\* Addresses of known nodes.
KnownByEndpoint == {Endpoint}
Known == CredEndpoints \cup {Endpoint}

Has(s, S) == \E i \in DOMAIN s : s[i] \in S
First(s, S) == s[SelectInSeq(s, LAMBDA a : a \in S)]

\* The first IPv4 address that is known, or else the first one.
FirstIPv4(s) == First(s, IPv4)
ChosenAddress(s) ==
  IF Has(s, IPv4 \cap Known) THEN First(s, IPv4 \cap Known) ELSE First(s, IPv4)

\* spec.machineType or spec.machine_type of a member, None for those of whom
\* neither is there.
Role(m, untyped) ==
  IF m \in untyped THEN "unknown"
  ELSE IF m \in ControlPlane THEN "controlplane" ELSE "worker"

\* A node for each member that has an IPv4 address.
DiscoveredNodes(reports, untyped) ==
  {[address |-> ChosenAddress(reports[m]), name |-> m,
    role |-> Role(m, untyped)] :
     m \in {n \in Machine : Has(reports[n], IPv4)}}

DiscoveredLists ==
  {DiscoveredNodes(r, untyped) :
     r \in ClusterReports, untyped \in SUBSET Untyped}

\* The coordinator's own list when that is empty.
FallbackNodes ==
  {[address |-> a, name |-> NoName, role |-> "unknown"] :
     a \in IF CredEndpoints = {} THEN {Endpoint} ELSE CredEndpoints}

-----------------------------------------------------------------------------
\* What client.py:394-397 takes for granted: the talosconfig, or the endpoint,
\* gives the own address of every machine that can hold the shared one, and
\* the shared one is none of them.
OwnAddressesKnown ==
  /\ \A m \in ControlPlane : Own[m] \in CredEndpoints \cup {Endpoint}
  /\ Vip \notin CredEndpoints \cup {Endpoint}
=============================================================================
