--------------------------- MODULE MCCoordinator ---------------------------
(* Small instances of Coordinator.  Readdressed: two machines, of which one   *)
(* may be listed under the endpoint or another address, and the other under   *)
(* that one or a third.  SharedEndpoint: two machines of which one may also   *)
(* be listed under the other's address, the endpoint.                         *)
EXTENDS Coordinator, TLC

CONSTANTS cp, wa, a0, a1, a2

Machines == {cp, wa}
TwoAddresses == {a0, a1}
ThreeAddresses == {a0, a1, a2}
SharedEndpoint == (cp :> {a0}) @@ (wa :> {a0, a1})
Readdressed == (cp :> {a0, a1}) @@ (wa :> {a1, a2})
ControlPlane == {a0}
NoEndpoints == {}
=============================================================================
