----------------------------- MODULE MCNodePoll -----------------------------
(* A small instance of NodePoll: two control-plane nodes with a shared        *)
(* address, both in the talosconfig, a worker that is not, and mount lists    *)
(* with a point mounted twice, an empty device, a file system in memory and   *)
(* two points of one slug.                                                    *)
EXTENDS NodePoll

CONSTANTS c1, c2, w, ip1, ip2, ip3, vip, v6

Machines == {c1, c2, w}
ControlPlanes == {c1, c2}
Addresses == {ip1, ip2, ip3, vip, v6}
V4 == {ip1, ip2, ip3, vip}
OwnAddress == (c1 :> ip1) @@ (c2 :> ip2) @@ (w :> ip3)
OwnAddresses == {ip1, ip2}
WithoutType == {c2}
Points == {1, 2, 3}
SlugOfPoint == <<"data", "data", "logs">>
SlugValues == {"data", "logs"}

Device(p, size, available) ==
  [on |-> p, device |-> TRUE, size |-> size, available |-> available]
Memory(p, size) ==
  [on |-> p, device |-> FALSE, size |-> size, available |-> size]

\* One control-plane node's volumes change, the other's are never read, and the
\* worker's do not change.
Lists ==
  (c1 :> {<<Memory(1, 1), Device(1, 2, 0), Device(1, 1, 1), Device(System, 1, 0)>>,
          <<Device(2, 0, 0), Device(3, 1, 0), Device(2, 2, 1)>>}) @@
  (c2 :> {}) @@
  (w  :> {<<Device(System, 0, 0), Device(System, 2, 1)>>})
=============================================================================
