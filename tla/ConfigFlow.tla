----------------------------- MODULE ConfigFlow -----------------------------
(* The config flows and the entries they store.  A user pastes a talosconfig  *)
(* and may override its endpoint; the flow connects and reads a version, and  *)
(* when that succeeds it creates an entry, or updates the one whose           *)
(* reauthentication or reconfiguration it is.  Between the form and the       *)
(* answer other flows run, so each works on what it read at the form.         *)
(*                                                                            *)
(* A definition just before the one it resembles is a seeded fault, as in     *)
(* Coordinator.                                                               *)
EXTENDS Talosconfig

CONSTANTS
  Entry,        \* identities of config entries
  Flow          \* flows that can be awaiting their validation

NoEndpoint == "no endpoint"
NoCluster == "no cluster"
NoEntry == "no entry"
NoData == [none |-> TRUE]
NoFlow == [none |-> TRUE]

ASSUME FlowAssumption ==
  /\ NoEndpoint \notin Endpoint
  /\ NoCluster \notin Bytes
  /\ NoEntry \notin Entry

VARIABLES
  data,       \* entry.data of each entry, NoData when there is no such entry
  uniqueId,   \* entry.unique_id
  flow,       \* the flows awaiting connect and version
  importable  \* grpclib and the generated stubs can be imported

EntryData == [config : Valid, endpoint : Endpoint]
\* entry is the one to update, NoEntry in a flow that creates one.
Flows == [entry : Entry \cup {NoEntry}, data : EntryData]

Existing == {e \in Entry : data[e] # NoData}

\* _cluster_id: a cluster is told by its CA.
ClusterOf == [c \in Valid |-> Parsed[c].ca]
ClusterId(f) == ClusterOf[flow[f].data.config]

OwnEndpoint ==
  [c \in Valid |-> IF Parsed[c].endpoints = <<>> THEN NoEndpoint
                   ELSE Head(Parsed[c].endpoints)]

-----------------------------------------------------------------------------
\* The endpoint of _validate: the override, or else the talosconfig's first.
Resolved(config, override) ==
  IF override # NoEndpoint THEN override ELSE OwnEndpoint[config]

\* _load_grpclib and _load_stubs, with which client.connect begins.
Imports == importable

\* The check on it: a talosconfig without endpoints needs an override.
EndpointUnchecked(config, override) == TRUE
HasEndpoint(config, override) == Resolved(config, override) # NoEndpoint

\* A form is submitted and _validate begins to connect.  If the talosconfig
\* does not parse, gives no endpoint, or grpclib is missing, the form is shown
\* again, which changes nothing.
Submitted(f, e, config, override) ==
  /\ flow[f] = NoFlow
  /\ config \in Valid
  /\ HasEndpoint(config, override)
  /\ Imports
  /\ flow' = [flow EXCEPT ![f] =
       [entry |-> e,
        data |-> [config |-> config, endpoint |-> Resolved(config, override)]]]
  /\ UNCHANGED <<data, uniqueId>>

SubmitUser(f) ==
  \E c \in Config, o \in Endpoint \cup {NoEndpoint} :
    Submitted(f, NoEntry, c, o)

SubmitReconfigure(f) ==
  \E e \in Existing, c \in Config, o \in Endpoint \cup {NoEndpoint} :
    Submitted(f, e, c, o)

\* The input is merged over the stored data, so an endpoint left out of the
\* form is the stored one, as it is now.
SubmitReauth(f) ==
  \E e \in Existing, c \in Config, o \in Endpoint \cup {NoEndpoint} :
    Submitted(f, e, c, IF o # NoEndpoint THEN o ELSE data[e].endpoint)

\* connect or version fails: the form is shown again, or, for an error that is
\* no TalosError, as those of OpenSSL, Home Assistant's own message.
ValidationFails(f) ==
  /\ flow[f] # NoFlow
  /\ flow' = [flow EXCEPT ![f] = NoFlow]
  /\ UNCHANGED <<data, uniqueId>>

-----------------------------------------------------------------------------
(* Validation succeeded.  From there to the stored entry nothing is awaited.  *)

\* client.connect made its TLS context (and client.version returned).
ConnectsUnchecked(f) == flow[f] # NoFlow
Validated(f) ==
  /\ flow[f] # NoFlow
  /\ flow[f].data.config \in Connectable

\* _abort_if_unique_id_configured and _abort_if_unique_id_mismatch.
NeverConfigured(f) == FALSE
AlreadyConfigured(f) == \E e \in Existing : uniqueId[e] = ClusterId(f)
NeverMismatched(f) == FALSE
UniqueIdMismatch(f) == uniqueId[flow[f].entry] # ClusterId(f)

Aborts(f) ==
  /\ Validated(f)
  /\ IF flow[f].entry = NoEntry THEN AlreadyConfigured(f) ELSE UniqueIdMismatch(f)
  /\ flow' = [flow EXCEPT ![f] = NoFlow]
  /\ UNCHANGED <<data, uniqueId>>

CreateEntry(f, e) ==
  /\ Validated(f)
  /\ flow[f].entry = NoEntry
  /\ ~AlreadyConfigured(f)
  /\ e \notin Existing
  /\ data' = [data EXCEPT ![e] = flow[f].data]
  /\ uniqueId' = [uniqueId EXCEPT ![e] = ClusterId(f)]
  /\ flow' = [flow EXCEPT ![f] = NoFlow]

\* async_update_reload_and_abort; the reload is Entries' part.
UpdateEntry(f) ==
  /\ Validated(f)
  /\ flow[f].entry # NoEntry
  /\ ~UniqueIdMismatch(f)
  /\ data' = [data EXCEPT ![flow[f].entry] = flow[f].data]
  /\ flow' = [flow EXCEPT ![f] = NoFlow]
  /\ UNCHANGED uniqueId

\* Home Assistant removes an entry and aborts the flows about it.
DeleteEntry(e) ==
  /\ e \in Existing
  /\ data' = [data EXCEPT ![e] = NoData]
  /\ uniqueId' = [uniqueId EXCEPT ![e] = NoCluster]
  /\ flow' = [f \in Flow |->
       IF flow[f] # NoFlow /\ flow[f].entry = e THEN NoFlow ELSE flow[f]]

FlowInit ==
  /\ data = [e \in Entry |-> NoData]
  /\ uniqueId = [e \in Entry |-> NoCluster]
  /\ flow = [f \in Flow |-> NoFlow]
  /\ importable \in BOOLEAN

-----------------------------------------------------------------------------
(* Properties.                                                                *)

FlowTypeOK ==
  /\ data \in [Entry -> EntryData \cup {NoData}]
  /\ uniqueId \in [Entry -> Bytes \cup {NoCluster}]
  /\ flow \in [Flow -> Flows \cup {NoFlow}]
  /\ importable \in BOOLEAN

\* config_flow.py:49, "Stable per-cluster id from the CA, so re-adding a
\* cluster dedupes": whichever flows race, no cluster has two entries.
OneEntryPerCluster ==
  \A d, e \in Existing :
    ClusterOf[data[d].config] = ClusterOf[data[e].config] => d = e

\* __init__.py:48-51 and client.py:108: what an entry stores has parsed and
\* built a TLS context once, whichever flow stored it, so that a setup cannot
\* fail over it.
StoredIsUsable ==
  \A e \in Existing : data[e].config \in Connectable
=============================================================================
