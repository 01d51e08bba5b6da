------------------------------- MODULE Writes -------------------------------
(* What a user does with one config entry: the services, the buttons and the  *)
(* update entity, each with its own gate, while options change, the entry is  *)
(* reloaded and refreshes replace, or fail to replace, the data the gates and *)
(* the installer image are taken from.  Here "reboot" stands for the writes   *)
(* that are gated and sent alike: reboot_node, shutdown_node, apply_config    *)
(* and the two buttons of a node; "status" is get_service_status.  A call     *)
(* that is refused changes nothing and is no step.                            *)
EXTENDS FiniteSets

CONSTANTS
  Node,        \* addresses of nodes
  Schematic,   \* Image Factory schematics
  Call         \* calls that can be under way

VARIABLES
  options,     \* entry.options that are on, read at every call
  role,        \* role of coordinator.creds
  entry,       \* "loaded", "unloading" (platforms going), "closed"
  installable, \* the update entities were created with the INSTALL feature
  seen,        \* schematic in coordinator.data.nodes, Unknown, or Absent
  success,     \* coordinator.last_update_success
  refresh,     \* a refresh is in flight
  polled,      \* what that refresh has read of each node, or Pending
  call,        \* the calls under way
  actual,      \* the schematic each node runs
  hadSince,    \* history: schematics a node had since the published refresh
               \* began
  hadNow       \* history: the same for the refresh in flight

vars == <<options, role, entry, installable, seen, success, refresh, polled,
          call, actual, hadSince, hadNow>>
viewVars == <<installable, seen, success, refresh, polled, hadSince, hadNow>>

Options == {"destructive", "reset"}
Roles == {"reader", "operator", "admin"}
Ops == {"status", "reboot", "upgrade", "reset"}

Absent == "absent"
Unknown == "unknown"
Pending == "pending"
NoImage == "none"
NoCall == [op |-> "none"]

ASSUME SchematicAssumption ==
  Schematic \cap {Absent, Unknown, Pending, NoImage} = {}

\* A call under way.  image is the schematic of the installer it sent; fresh
\* is history: the image is one the node had since the shown data began to be
\* read.
Calls == [op : Ops, node : Node, image : Schematic \cup {NoImage},
          acted : BOOLEAN, alive : BOOLEAN, fresh : BOOLEAN]

Shown == {n \in Node : seen[n] # Absent}

-----------------------------------------------------------------------------
(* The gates.                                                                 *)

CanWrite == role \in {"operator", "admin"}
\* A definition just before the one it resembles is a seeded fault, as in
\* Coordinator.
CanResetLikeWrite == role \in {"operator", "admin"}
CanReset == role = "admin"

RequireDestructive == "destructive" \in options /\ CanWrite
RequireReset == "reset" \in options /\ CanReset

\* TalosUpdateEntity._install_allowed and TalosNodeButton.async_press.
EntityGate == "destructive" \in options /\ CanWrite

\* _resolve: a service reaches only a loaded entry.
ServiceResolves == entry = "loaded"

\* Entities live until the platforms are unloaded, and Home Assistant acts only
\* on those that are available: none after a failed refresh, and a node's only
\* while it is shown.
EntitiesExist == entry \in {"loaded", "unloading"}
ClusterAvailable == EntitiesExist /\ success
NodeAvailable(n) == ClusterAvailable /\ n \in Shown

\* An installer image needs the node's schematic (and a target version, which
\* is given or known).
HasSchematic(n) == seen[n] \in Schematic

-----------------------------------------------------------------------------
(* A call is made.  Nothing of the integration runs between its gate and the  *)
(* call.  The request itself leaves later if the channel must first connect,  *)
(* which grpclib does inside the call: until its answer, a call sent here may *)
(* still be on its way or already be acted upon.                              *)

Sent(c, op, n, image) ==
  /\ call[c] = NoCall
  /\ call' = [call EXCEPT ![c] =
       [op |-> op, node |-> n, image |-> image, acted |-> FALSE, alive |-> TRUE,
        fresh |-> image = NoImage \/ image \in hadSince[n]]]
  /\ UNCHANGED <<options, role, entry, viewVars, actual>>

\* _async_get_service_status reads, and has no gate.
ServiceStatus(c, n) ==
  /\ ServiceResolves
  /\ n \in Shown
  /\ Sent(c, "status", n, NoImage)

\* _async_reboot, _async_shutdown, _async_apply_config.
ServiceReboot(c, n) ==
  /\ ServiceResolves
  /\ RequireDestructive
  /\ n \in Shown
  /\ Sent(c, "reboot", n, NoImage)

ServiceUpgrade(c, n) ==
  /\ ServiceResolves
  /\ RequireDestructive
  /\ n \in Shown
  /\ HasSchematic(n)
  /\ Sent(c, "upgrade", n, seen[n])

ServiceReset(c, n) ==
  /\ ServiceResolves
  /\ RequireReset
  /\ n \in Shown
  /\ Sent(c, "reset", n, NoImage)

PressButton(c, n) ==
  /\ NodeAvailable(n)
  /\ EntityGate
  /\ Sent(c, "reboot", n, NoImage)

\* Home Assistant installs only with the INSTALL feature.
Install(c, n) ==
  /\ NodeAvailable(n)
  /\ installable
  /\ EntityGate
  /\ HasSchematic(n)
  /\ Sent(c, "upgrade", n, seen[n])

-----------------------------------------------------------------------------
(* The node and the answer.                                                   *)

\* A node runs another image from now on.
Reimaged(n, s) ==
  /\ actual' = [actual EXCEPT ![n] = s]
  /\ hadSince' = [hadSince EXCEPT ![n] = @ \cup {s}]
  /\ hadNow' = [hadNow EXCEPT ![n] = @ \cup {s}]

\* The request reaches the node, which does as it is told, also when the
\* connection is closed behind it.
NodeActs(c) ==
  /\ call[c] # NoCall
  /\ ~call[c].acted
  /\ call' = [call EXCEPT ![c].acted = TRUE]
  /\ IF call[c].op = "upgrade"
     THEN Reimaged(call[c].node, call[c].image)
     ELSE UNCHANGED <<actual, hadSince, hadNow>>
  /\ UNCHANGED <<options, role, entry, installable, seen, success, refresh,
                 polled>>

\* A refresh is requested: it starts now, or later, or is dropped because one
\* is in flight.
Request ==
  \/ /\ refresh = FALSE
     /\ refresh' = TRUE
     /\ polled' = [n \in Node |-> Pending]
     /\ hadNow' = [n \in Node |-> {actual[n]}]
  \/ UNCHANGED <<refresh, polled, hadNow>>

\* The node's answer arrives: after a write a refresh is requested, and the
\* call returns.
Answered(c) ==
  /\ call[c] # NoCall
  /\ call[c].alive
  /\ call[c].acted
  /\ call' = [call EXCEPT ![c] = NoCall]
  /\ IF call[c].op = "status"
     THEN UNCHANGED <<refresh, polled, hadNow>>
     ELSE Request
  /\ UNCHANGED <<options, role, entry, installable, seen, success, actual,
                 hadSince>>

\* The call fails or times out, whether the node acted or not: an error.
CallFails(c) ==
  /\ call[c] # NoCall
  /\ call' = [call EXCEPT ![c] = NoCall]
  /\ UNCHANGED <<options, role, entry, viewVars, actual>>

\* The node is upgraded by other means.
Reimage(n) ==
  /\ \E s \in Schematic \ {actual[n]} : Reimaged(n, s)
  /\ UNCHANGED <<options, role, entry, installable, seen, success, refresh,
                 polled, call>>

-----------------------------------------------------------------------------
(* The refresh.                                                               *)

\* By the timer.
BeginRefresh ==
  /\ entry # "closed"
  /\ ~refresh
  /\ Request
  /\ UNCHANGED <<options, role, entry, installable, seen, success, call, actual,
                 hadSince>>

\* By a user, with the service or with the cluster's button.
ServiceRefresh ==
  /\ ServiceResolves
  /\ Request
  /\ UNCHANGED <<options, role, entry, installable, seen, success, call, actual,
                 hadSince>>

PressRefresh ==
  /\ ClusterAvailable
  /\ Request
  /\ UNCHANGED <<options, role, entry, installable, seen, success, call, actual,
                 hadSince>>

\* What a listed node's extensions say: the schematic is one of them, if they
\* can be read at all.
Readings(n) == {actual[n], Unknown}

\* A node is polled, or is not listed.
PollNode(n) ==
  /\ refresh
  /\ polled[n] = Pending
  /\ \E r \in Readings(n) \cup {Absent} : polled' = [polled EXCEPT ![n] = r]
  /\ UNCHANGED <<options, role, entry, installable, seen, success, refresh, call,
                 actual, hadSince, hadNow>>

\* The refresh is given up, before the polls or after: the data stays.
RefreshFails ==
  /\ refresh
  /\ \A m, n \in Node : polled[m] = Pending => polled[n] = Pending
  /\ refresh' = FALSE
  /\ success' = FALSE
  /\ polled' = [n \in Node |-> Pending]
  /\ UNCHANGED <<options, role, entry, installable, seen, call, actual, hadSince,
                 hadNow>>

NoneAwaited == TRUE
AllPolled == \A n \in Node : polled[n] # Pending

\* The schematics of the new payload: each is this refresh's or missing.
CarriedOver == [n \in Node |-> IF polled[n] = Unknown THEN seen[n] ELSE polled[n]]
NewView == polled

Publish ==
  /\ refresh
  /\ AllPolled
  /\ refresh' = FALSE
  /\ success' = TRUE
  /\ seen' = NewView
  /\ hadSince' = hadNow
  /\ polled' = [n \in Node |-> Pending]
  /\ UNCHANGED <<options, role, entry, installable, call, actual, hadNow>>

-----------------------------------------------------------------------------
(* Options and the entry.                                                     *)

\* The options flow stores them at once; the reload follows.
SetOptions ==
  /\ options' \in SUBSET Options
  /\ UNCHANGED <<role, entry, viewVars, call, actual>>

BeginUnload ==
  /\ entry = "loaded"
  /\ entry' = "unloading"
  /\ UNCHANGED <<options, role, viewVars, call, actual>>

\* The platforms are gone: the client is closed and its calls are cut off.
Close ==
  /\ entry = "unloading"
  /\ entry' = "closed"
  /\ call' = [c \in Call |->
       IF call[c] = NoCall THEN NoCall ELSE [call[c] EXCEPT !.alive = FALSE]]
  /\ installable' = FALSE
  /\ seen' = [n \in Node |-> Absent]
  /\ success' = TRUE
  /\ refresh' = FALSE
  /\ polled' = [n \in Node |-> Pending]
  /\ UNCHANGED <<options, role, actual, hadSince, hadNow>>

\* Setup with its first refresh, and the entities made from it.
Setup ==
  /\ entry = "closed"
  /\ entry' = "loaded"
  /\ role' \in Roles
  /\ seen' \in {f \in [Node -> Schematic \cup {Unknown, Absent}] :
                  \A n \in Node : f[n] \in Readings(n) \cup {Absent}}
  /\ hadSince' = [n \in Node |-> {actual[n]}]
  /\ installable' = ("destructive" \in options /\ role' \in {"operator", "admin"})
  /\ UNCHANGED <<options, success, refresh, polled, call, actual, hadNow>>

-----------------------------------------------------------------------------
Init ==
  /\ options \in SUBSET Options
  /\ role \in Roles
  /\ entry = "closed"
  /\ installable = FALSE
  /\ seen = [n \in Node |-> Absent]
  /\ success = TRUE
  /\ refresh = FALSE
  /\ polled = [n \in Node |-> Pending]
  /\ call = [c \in Call |-> NoCall]
  /\ actual \in [Node -> Schematic]
  /\ hadSince = [n \in Node |-> {actual[n]}]
  /\ hadNow = [n \in Node |-> {actual[n]}]

Next ==
  \/ \E c \in Call, n \in Node :
       \/ ServiceStatus(c, n)
       \/ ServiceReboot(c, n)
       \/ ServiceUpgrade(c, n)
       \/ ServiceReset(c, n)
       \/ PressButton(c, n)
       \/ Install(c, n)
  \/ \E c \in Call : NodeActs(c) \/ Answered(c) \/ CallFails(c)
  \/ \E n \in Node : Reimage(n) \/ PollNode(n)
  \/ BeginRefresh
  \/ ServiceRefresh
  \/ PressRefresh
  \/ RefreshFails
  \/ Publish
  \/ SetOptions
  \/ BeginUnload
  \/ Close
  \/ Setup

Spec == Init /\ [][Next]_vars

-----------------------------------------------------------------------------
(* Properties.                                                                *)

\* Every variable holds a value of the program's type.
TypeOK ==
  /\ options \subseteq Options
  /\ role \in Roles
  /\ entry \in {"loaded", "unloading", "closed"}
  /\ installable \in BOOLEAN
  /\ seen \in [Node -> Schematic \cup {Unknown, Absent}]
  /\ success \in BOOLEAN
  /\ refresh \in BOOLEAN
  /\ polled \in [Node -> Schematic \cup {Unknown, Absent, Pending}]
  /\ call \in [Call -> Calls \cup {NoCall}]
  /\ actual \in [Node -> Schematic]
  /\ hadSince \in [Node -> SUBSET Schematic]
  /\ hadNow \in [Node -> SUBSET Schematic]

\* Services, buttons and update entities all keep the policy, whatever is
\* revoked or unloaded while calls are under way.
Policy == INSTANCE WritePolicy WITH
  connected <- entry # "closed",
  writes <- [c \in Call |-> call[c].op]

KeepsPolicy == Policy!Spec

\* An upgrade is sent only for a schematic that the node had at some time
\* since the refresh began whose data is shown: a node whose extensions could
\* not be read is not upgraded from an older reading.
ImageIsFromShownRefresh ==
  \A c \in Call : call[c] # NoCall => call[c].fresh
=============================================================================
