--------------------------- MODULE EntriesProofs ----------------------------
(* Proofs about ConfigFlow and Entries, for any entries, flows and            *)
(* talosconfigs, with and without a frontend.                                 *)
EXTENDS Entries, TLAPS

-----------------------------------------------------------------------------
(* Stored entries.  A flow keeps the entry it is about over its awaits, so    *)
(* what has to be inductive is that this entry still exists; and clusters are *)
(* compared through unique ids, so those have to be told apart.               *)

FlowsAboutExisting ==
  \A f \in Flow : flow[f] # NoFlow => flow[f].entry \in Existing \cup {NoEntry}

UniqueIdsDiffer ==
  \A d, e \in Existing : uniqueId[d] = uniqueId[e] => d = e

StoreInv ==
  /\ FlowTypeOK
  /\ FlowsAboutExisting
  /\ EntryKeepsCluster
  /\ UniqueIdsDiffer
  /\ StoredIsUsable

StoreStep ==
  /\ importable' \in BOOLEAN
  /\ \/ \E f \in Flow : SubmitUser(f) \/ SubmitReconfigure(f) \/ SubmitReauth(f)
                        \/ ValidationFails(f) \/ Aborts(f) \/ UpdateEntry(f)
     \/ \E f \in Flow, e \in Entry : CreateEntry(f, e)
     \/ \E e \in Entry : DeleteEntry(e)
     \/ UNCHANGED <<data, uniqueId>> /\ flow' = [f \in Flow |-> NoFlow]
     \/ UNCHANGED flowVars

\* What parse_talosconfig returns, as far as the flows and the entries use it.
LEMMA ParsedTypes ==
  ASSUME NEW c \in Valid
  PROVE  Parsed[c].ca \in Bytes /\ Parsed[c].endpoints \in Seq(Endpoint)
<1> DEFINE yaml == SafeLoad[c]
<1>1. IsLoaded(yaml) /\ Parses(yaml)
  BY TextAssumption DEF Valid
<1>2. PICK n \in DOMAIN yaml.contexts : Active(yaml) = yaml.contexts[n]
  <2>1. ActiveNames(yaml) # {} /\ ActiveNames(yaml) \subseteq DOMAIN yaml.contexts
    BY <1>1 DEF Parses, ActiveNames
  <2> QED
    BY <2>1 DEF Active
<1>3. Active(yaml) \in Context
  BY <1>1, <1>2 DEF IsLoaded
<1>4. Parsed[c] = Credentials(Active(yaml))
  BY DEF Parsed
<1>5. Active(yaml).ca \in Bytes
  BY <1>1 DEF Parses, Decodes
<1> QED
  BY <1>3, <1>4, <1>5 DEF Credentials, Context

LEMMA OwnEndpointType ==
  ASSUME NEW c \in Valid
  PROVE  OwnEndpoint[c] \in Endpoint \cup {NoEndpoint}
<1>1. Parsed[c].endpoints \in Seq(Endpoint)
  BY ParsedTypes
<1> QED
  BY <1>1 DEF OwnEndpoint

\* Records of data and of flows are not the records that stand for none.
LEMMA NoneApart == NoData \notin EntryData /\ NoFlow \notin Flows
<1>1. NoData \notin EntryData
  <2> SUFFICES ASSUME NoData \in EntryData PROVE FALSE
    OBVIOUS
  <2>1. DOMAIN NoData = {"none"}
    BY DEF NoData
  <2>2. "config" \in DOMAIN NoData
    BY DEF EntryData
  <2> QED
    BY <2>1, <2>2
<1>2. NoFlow \notin Flows
  <2> SUFFICES ASSUME NoFlow \in Flows PROVE FALSE
    OBVIOUS
  <2>1. DOMAIN NoFlow = {"none"}
    BY DEF NoFlow
  <2>2. "entry" \in DOMAIN NoFlow
    BY DEF Flows
  <2> QED
    BY <2>1, <2>2
<1> QED
  BY <1>1, <1>2

\* What is stored by a submitted form is an entry's data.
LEMMA SubmittedStep ==
  ASSUME StoreInv, NEW f \in Flow, NEW e \in Existing \cup {NoEntry},
         NEW c \in Config, NEW o \in Endpoint \cup {NoEndpoint},
         Submitted(f, e, c, o), importable' \in BOOLEAN
  PROVE  StoreInv'
<1> DEFINE new == [entry |-> e,
                   data |-> [config |-> c, endpoint |-> Resolved(c, o)]]
<1>1. Resolved(c, o) \in Endpoint
  BY OwnEndpointType, FlowAssumption DEF Submitted, HasEndpoint, Resolved
<1>2. new \in Flows
  BY <1>1 DEF Submitted, Flows, EntryData, Existing
<1>3. flow' = [flow EXCEPT ![f] = new] /\ UNCHANGED <<data, uniqueId>>
  BY DEF Submitted
<1>4. FlowTypeOK'
  BY <1>2, <1>3 DEF StoreInv, FlowTypeOK
<1>5. FlowsAboutExisting'
  <2>1. new.entry \in Existing \cup {NoEntry}
    OBVIOUS
  <2> HIDE DEF new
  <2> QED
    BY <1>3, <2>1 DEF StoreInv, FlowTypeOK, FlowsAboutExisting, Existing
<1> QED
  BY <1>3, <1>4, <1>5 DEF StoreInv, EntryKeepsCluster, StoredIsUsable,
     UniqueIdsDiffer, Existing

LEMMA StoreStepInv == StoreInv /\ StoreStep => StoreInv'
<1> SUFFICES ASSUME StoreInv, StoreStep PROVE StoreInv'
  OBVIOUS
<1> USE DEF StoreInv
<1>0. importable' \in BOOLEAN
  BY DEF StoreStep
<1>1. ASSUME NEW f \in Flow, SubmitUser(f) PROVE StoreInv'
  BY <1>0, <1>1, SubmittedStep DEF SubmitUser
<1>2. ASSUME NEW f \in Flow, SubmitReconfigure(f) PROVE StoreInv'
  BY <1>0, <1>2, SubmittedStep DEF SubmitReconfigure
<1>3. ASSUME NEW f \in Flow, SubmitReauth(f) PROVE StoreInv'
  <2>1. PICK e \in Existing : \E c \in Config, o \in Endpoint \cup {NoEndpoint} :
          Submitted(f, e, c, IF o # NoEndpoint THEN o ELSE data[e].endpoint)
    BY <1>3 DEF SubmitReauth
  <2>2. PICK c \in Config, o \in Endpoint \cup {NoEndpoint} :
          Submitted(f, e, c, IF o # NoEndpoint THEN o ELSE data[e].endpoint)
    BY <2>1
  <2>3. data[e].endpoint \in Endpoint
    BY DEF FlowTypeOK, Existing, EntryData
  <2> QED
    BY <1>0, <2>2, <2>3, SubmittedStep
<1>4. ASSUME NEW f \in Flow, ValidationFails(f) \/ Aborts(f) PROVE StoreInv'
  BY <1>0, <1>4 DEF ValidationFails, Aborts, FlowTypeOK, FlowsAboutExisting,
     EntryKeepsCluster, UniqueIdsDiffer, StoredIsUsable, Existing
<1>5. ASSUME NEW f \in Flow, UpdateEntry(f) PROVE StoreInv'
  <2>1. flow[f] \in Flows /\ flow[f].entry \in Existing
    BY <1>5 DEF UpdateEntry, Validated, FlowTypeOK, FlowsAboutExisting
  <2>2. flow[f].data \in EntryData /\ flow[f].data # NoData
    BY <2>1, NoneApart DEF Flows
  <2>3. Existing' = Existing
    BY <1>5, <2>1, <2>2 DEF UpdateEntry, FlowTypeOK, Existing
  <2>4. FlowTypeOK'
    BY <1>0, <1>5, <2>2 DEF UpdateEntry, FlowTypeOK
  <2>5. FlowsAboutExisting'
    BY <1>5, <2>3 DEF UpdateEntry, FlowTypeOK, FlowsAboutExisting
  <2>6. EntryKeepsCluster'
    BY <1>5, <2>1, <2>3
    DEF UpdateEntry, UniqueIdMismatch, ClusterId, FlowTypeOK, EntryKeepsCluster,
        Existing
  <2>7. UniqueIdsDiffer'
    BY <1>5, <2>3 DEF UpdateEntry, UniqueIdsDiffer
  <2>8. StoredIsUsable'
    BY <1>5, <2>1, <2>3 DEF UpdateEntry, Validated, FlowTypeOK, StoredIsUsable,
       Existing
  <2> QED
    BY <2>4, <2>5, <2>6, <2>7, <2>8
<1>6. ASSUME NEW f \in Flow, NEW e \in Entry, CreateEntry(f, e) PROVE StoreInv'
  <2>1. flow[f] \in Flows
    BY <1>6 DEF CreateEntry, Validated, FlowTypeOK
  <2>2. /\ flow[f].data \in EntryData /\ flow[f].data # NoData
        /\ ClusterId(f) \in Bytes
    BY <2>1, NoneApart, ParsedTypes DEF Flows, EntryData, ClusterId, ClusterOf
  <2>3. Existing' = Existing \cup {e}
    BY <1>6, <2>2 DEF CreateEntry, FlowTypeOK, Existing
  <2>4. FlowTypeOK'
    BY <1>0, <1>6, <2>2 DEF CreateEntry, FlowTypeOK
  <2>5. FlowsAboutExisting'
    BY <1>6, <2>3 DEF CreateEntry, FlowTypeOK, FlowsAboutExisting
  <2>6. EntryKeepsCluster'
    BY <1>6, <2>3 DEF CreateEntry, ClusterId, FlowTypeOK, EntryKeepsCluster,
       Existing
  <2>7. UniqueIdsDiffer'
    BY <1>6, <2>3 DEF CreateEntry, AlreadyConfigured, FlowTypeOK,
       UniqueIdsDiffer, Existing
  <2>8. StoredIsUsable'
    BY <1>6, <2>3 DEF CreateEntry, Validated, FlowTypeOK, StoredIsUsable,
       Existing
  <2> QED
    BY <2>4, <2>5, <2>6, <2>7, <2>8
<1>7. ASSUME NEW e \in Entry, DeleteEntry(e) PROVE StoreInv'
  <2>1. Existing' = Existing \ {e}
    BY <1>7 DEF DeleteEntry, FlowTypeOK, Existing
  <2>2. FlowTypeOK'
    BY <1>0, <1>7 DEF DeleteEntry, FlowTypeOK
  <2>3. FlowsAboutExisting'
    BY <1>7, <2>1 DEF DeleteEntry, FlowTypeOK, FlowsAboutExisting
  <2>4. EntryKeepsCluster' /\ UniqueIdsDiffer' /\ StoredIsUsable'
    BY <1>7, <2>1 DEF DeleteEntry, FlowTypeOK, EntryKeepsCluster,
       UniqueIdsDiffer, StoredIsUsable, Existing
  <2> QED
    BY <2>2, <2>3, <2>4
<1>8. CASE UNCHANGED <<data, uniqueId>> /\ flow' = [f \in Flow |-> NoFlow]
  BY <1>0, <1>8 DEF FlowTypeOK, FlowsAboutExisting, EntryKeepsCluster,
     UniqueIdsDiffer, StoredIsUsable, Existing
<1>9. CASE UNCHANGED flowVars
  BY <1>0, <1>9 DEF flowVars, FlowTypeOK, FlowsAboutExisting, EntryKeepsCluster,
     UniqueIdsDiffer, StoredIsUsable, Existing
<1> QED
  BY <1>1, <1>2, <1>3, <1>4, <1>5, <1>6, <1>7, <1>8, <1>9 DEF StoreStep

\* Every step of Entries is, for what is stored, one of ConfigFlow's.
LEMMA NextStores == StoreInv /\ [Next]_vars => StoreStep
<1> SUFFICES ASSUME StoreInv, [Next]_vars PROVE StoreStep
  OBVIOUS
<1>1. importable \in BOOLEAN
  BY DEF StoreInv, FlowTypeOK
<1>2. importable' \in BOOLEAN
  BY <1>1 DEF Next, vars, domainVars, importVars, BeginSetup, DependencyMissing,
     Connected, SetupFails, FirstRefreshed, Forwarded, StaticFails,
     StaticRegistered,
     BeginUnload, UnloadFails, Unloaded, SetOptions, Remove, Create, Update,
     FlowStep, PackagesInstalled, Restart
<1> QED
  BY <1>2 DEF Next, vars, StoreStep, flowVars, BeginSetup, DependencyMissing,
     Connected, SetupFails, FirstRefreshed, Forwarded, StaticFails,
     StaticRegistered,
     BeginUnload, UnloadFails, Unloaded, SetOptions, Remove, Create, Update,
     FlowStep, PackagesInstalled, Restart

LEMMA StoreInit == Init => StoreInv
BY DEF Init, FlowInit, StoreInv, FlowTypeOK, FlowsAboutExisting,
   EntryKeepsCluster, UniqueIdsDiffer, StoredIsUsable, Existing

LEMMA StoreInvariance == Spec => []StoreInv
BY StoreInit, StoreStepInv, NextStores, PTL DEF Spec

\* config_flow.py:133-197: an entry never holds a talosconfig of another
\* cluster than the one it was created for.
THEOREM EntryKeepsClusterHolds == Spec => []EntryKeepsCluster
BY StoreInvariance, PTL DEF StoreInv

\* config_flow.py:48-50, 133-151: however flows interleave, no cluster has two
\* entries.
THEOREM OneEntryPerClusterHolds == Spec => []OneEntryPerCluster
<1>1. StoreInv => OneEntryPerCluster
  BY DEF StoreInv, EntryKeepsCluster, UniqueIdsDiffer, OneEntryPerCluster
<1> QED
  BY <1>1, StoreInvariance, PTL

\* client.py:108, config_flow.py:71-91: no flow stores credentials of which no
\* TLS context can be built.
THEOREM StoredIsUsableHolds == Spec => []StoredIsUsable
BY StoreInvariance, PTL DEF StoreInv

-----------------------------------------------------------------------------
(* What runs.  The entry's own stages between the reading of its data and the *)
(* unload, and the shared registrations while some entry is past its          *)
(* platforms.                                                                 *)

RunTypeOK ==
  /\ stage \in [Entry -> Stages]
  /\ running \in [Entry -> EntryData \cup {NoData}]
  /\ optionsChanged \in [Entry -> BOOLEAN]
  /\ listening \in [Entry -> BOOLEAN]
  /\ reload \in [Entry -> BOOLEAN]
  /\ services \in BOOLEAN
  /\ panel \in BOOLEAN
  /\ panelRegistered \in BOOLEAN
  /\ staticRegistered \in BOOLEAN
  /\ overlooked \subseteq Entry
  /\ abandoned \in BOOLEAN
  /\ dependencyIssue \in BOOLEAN

\* The data read at the beginning of the setup stays in use, or goes stale
\* together with a scheduled reload.
RunningUpToDate ==
  \A e \in Entry : stage[e] # "down" => running[e] = data[e] \/ reload[e]

Past == {e \in Entry : stage[e] \in {"static", "loaded", "unload", "stuck"}}

\* The registrations: who relies on them, and that nothing stays without an
\* entry past its platforms but what a late failure left.
Registrations ==
  /\ panel = panelRegistered
  /\ services => Past # {} \/ abandoned
  /\ panel => {e \in Past : stage[e] # "static"} # {}
  /\ \A e \in Entry :
       stage[e] = "static" => Frontend /\ (services \/ e \in overlooked)
  /\ \A e \in Loaded : services \/ e \in overlooked
  /\ Loaded # {} /\ Frontend => panel

RunInv == StoreInv /\ RunTypeOK /\ RunningUpToDate /\ Registrations

LEMMA RunInit == Init => RunInv
BY StoreInit, FrontendAssumption
DEF Init, RunInv, RunTypeOK, RunningUpToDate, Registrations, Past, Loaded,
    Stages

\* A step that moves no entry and leaves the registrations alone: the store,
\* a changed option, a scheduled reload.
LEMMA QuietStep ==
  ASSUME RunInv, UNCHANGED <<stage, sharedVars>>
  PROVE  Registrations'
BY DEF RunInv, Registrations, sharedVars, Past, Loaded

LEMMA RunStep == RunInv /\ [Next]_vars => RunInv'
<1> SUFFICES ASSUME RunInv, [Next]_vars PROVE RunInv'
  OBVIOUS
<1>0. StoreInv'
  BY StoreStepInv, NextStores DEF RunInv
<1> USE DEF RunInv
<1>1. ASSUME NEW e \in Entry, BeginSetup(e) PROVE RunInv'
  <2>1. data[e] \in EntryData \cup {NoData}
    BY DEF StoreInv, FlowTypeOK
  <2>2. RunTypeOK'
    BY <1>1, <2>1 DEF BeginSetup, To, domainVars, sharedVars, importVars,
       RunTypeOK, Stages
  <2>3. RunningUpToDate'
    BY <1>1 DEF BeginSetup, To, flowVars, RunTypeOK, RunningUpToDate
  <2>4. Registrations'
    BY <1>1 DEF BeginSetup, Starts, To, domainVars, sharedVars, RunTypeOK,
       Registrations, Past, Loaded
  <2> QED
    BY <1>0, <2>2, <2>3, <2>4
<1>2. ASSUME NEW e \in Entry,
             \/ Connected(e) \/ SetupFails(e) \/ FirstRefreshed(e)
             \/ BeginUnload(e) \/ UnloadFails(e)
      PROVE  RunInv'
  <2> USE DEF Connected, SetupFails, FirstRefreshed, BeginUnload, UnloadFails, To
  <2>1. RunTypeOK'
    BY <1>2 DEF domainVars, sharedVars, importVars, IssueDeleted, RunTypeOK,
       Stages
  <2>2. RunningUpToDate'
    BY <1>2 DEF flowVars, RunTypeOK, RunningUpToDate
  <2>3. Registrations'
    <3>1. CASE Connected(e) \/ SetupFails(e) \/ FirstRefreshed(e)
      BY <3>1 DEF domainVars, sharedVars, RunTypeOK, Registrations, Past, Loaded
    <3>2. CASE BeginUnload(e) \/ UnloadFails(e)
      BY <3>2 DEF domainVars, sharedVars, RunTypeOK, Registrations, Past, Loaded
    <3> QED
      BY <1>2, <3>1, <3>2
  <2> QED
    BY <1>0, <2>1, <2>2, <2>3
<1>3. ASSUME NEW e \in Entry, Forwarded(e) PROVE RunInv'
  <2>1. RunTypeOK'
    BY <1>3, FrontendAssumption DEF Forwarded, SetupServices, RegisterPanel, To,
       importVars, RunTypeOK, Stages
  <2>2. RunningUpToDate'
    BY <1>3 DEF Forwarded, RegisterPanel, To, flowVars, RunTypeOK, RunningUpToDate
  <2>3. Registrations'
    <3>1. e \in Past'
      BY <1>3 DEF Forwarded, RegisterPanel, To, RunTypeOK, Past
    <3>2. panel' = panelRegistered'
      BY <1>3, FrontendAssumption
      DEF Forwarded, RegisterPanel, RunTypeOK, Registrations
    <3>3. \A d \in Entry : stage'[d] = "static" => Frontend
      BY <1>3
      DEF Forwarded, AwaitsStatic, RegisterPanel, To, RunTypeOK, Registrations
    <3>4. Loaded' # {} /\ Frontend => panel'
      <4>1. CASE RegisterPanel(e)
        BY <4>1, <3>2 DEF RegisterPanel
      <4>2. CASE To(e, "static") /\ UNCHANGED panel
        BY <4>2 DEF To, RunTypeOK, Registrations, Loaded
      <4> QED
        BY <1>3, <4>1, <4>2 DEF Forwarded
    <3>5. services'
      BY <1>3 DEF Forwarded, SetupServices
    <3>6. panel' => {d \in Past' : stage'[d] # "static"} # {}
      <4>1. CASE RegisterPanel(e)
        <5>1. stage'[e] = "loaded"
          BY <4>1 DEF RegisterPanel, To, RunTypeOK
        <5> QED
          BY <3>1, <5>1
      <4>2. CASE To(e, "static") /\ UNCHANGED panel
        <5> SUFFICES ASSUME panel
                     PROVE  {d \in Past' : stage'[d] # "static"} # {}
          BY <4>2
        <5>1. PICK d \in Past : stage[d] # "static"
          BY DEF Registrations
        <5>2. stage'[d] = stage[d]
          BY <1>3, <4>2, <5>1 DEF Forwarded, To, RunTypeOK, Past
        <5>3. d \in Past'
          BY <5>1, <5>2 DEF Past
        <5> QED
          BY <5>1, <5>2, <5>3
      <4> QED
        BY <1>3, <4>1, <4>2 DEF Forwarded
    <3> QED
      BY <3>1, <3>2, <3>3, <3>4, <3>5, <3>6 DEF Registrations, Loaded
  <2> QED
    BY <1>0, <2>1, <2>2, <2>3
<1>4. ASSUME NEW e \in Entry, StaticRegistered(e) PROVE RunInv'
  <2>1. RunTypeOK'
    BY <1>4, FrontendAssumption
    DEF StaticRegistered, RegisterPanel, To, importVars, RunTypeOK, Stages
  <2>2. RunningUpToDate'
    BY <1>4
    DEF StaticRegistered, RegisterPanel, To, flowVars, RunTypeOK, RunningUpToDate
  <2>3. Registrations'
    BY <1>4, FrontendAssumption
    DEF StaticRegistered, RegisterPanel, To, RunTypeOK, Registrations, Past,
        Loaded
  <2> QED
    BY <1>0, <2>1, <2>2, <2>3
<1>15. ASSUME NEW e \in Entry, StaticFails(e) PROVE RunInv'
  <2>1. RunTypeOK'
    BY <1>15 DEF StaticFails, To, importVars, RunTypeOK, Stages
  <2>2. RunningUpToDate'
    BY <1>15 DEF StaticFails, To, flowVars, RunTypeOK, RunningUpToDate
  <2>3. Registrations'
    BY <1>15 DEF StaticFails, To, RunTypeOK, Registrations, Past, Loaded
  <2> QED
    BY <1>0, <2>1, <2>2, <2>3
<1>5. ASSUME NEW e \in Entry, Unloaded(e) PROVE RunInv'
  <2>1. RunTypeOK'
    BY <1>5 DEF Unloaded, UnloadServices, PanelFlag, To, importVars, RunTypeOK,
       Stages
  <2>2. RunningUpToDate'
    BY <1>5 DEF Unloaded, To, flowVars, RunTypeOK, RunningUpToDate
  <2>3. Registrations'
    BY <1>5 DEF Unloaded, UnloadServices, Others, PanelFlag, To, RunTypeOK,
       Registrations, Past, Loaded
  <2> QED
    BY <1>0, <2>1, <2>2, <2>3
<1>6. ASSUME NEW e \in Entry, SetOptions(e) PROVE RunInv'
  <2>1. RunTypeOK' /\ RunningUpToDate'
    BY <1>6 DEF SetOptions, flowVars, domainVars, sharedVars, importVars,
       RunTypeOK, RunningUpToDate
  <2> QED
    BY <1>0, <1>6, <2>1, QuietStep DEF SetOptions, domainVars
<1>7. ASSUME NEW e \in Entry, Remove(e) PROVE RunInv'
  <2>1. RunTypeOK' /\ RunningUpToDate'
    BY <1>7 DEF Remove, DeleteEntry, StoreInv, FlowTypeOK, domainVars,
       sharedVars, importVars, RunTypeOK, RunningUpToDate
  <2> QED
    BY <1>0, <1>7, <2>1, QuietStep DEF Remove, domainVars
<1>8. ASSUME NEW f \in Flow, NEW e \in Entry, Create(f, e) PROVE RunInv'
  <2>1. RunTypeOK' /\ RunningUpToDate'
    BY <1>8 DEF Create, CreateEntry, StoreInv, FlowTypeOK, entryVars,
       domainVars, sharedVars, importVars, RunTypeOK, RunningUpToDate
  <2> QED
    BY <1>0, <1>8, <2>1, QuietStep DEF Create, entryVars, domainVars
<1>9. ASSUME NEW f \in Flow, Update(f) PROVE RunInv'
  <2>1. RunTypeOK' /\ RunningUpToDate'
    BY <1>9 DEF Update, UpdateEntry, ReloadScheduled, StoreInv, FlowTypeOK,
       domainVars, sharedVars, importVars, RunTypeOK, RunningUpToDate
  <2> QED
    BY <1>0, <1>9, <2>1, QuietStep DEF Update, domainVars
<1>10. ASSUME NEW f \in Flow, FlowStep(f) PROVE RunInv'
  <2>1. UNCHANGED <<data, entryVars, domainVars>>
    BY <1>10 DEF FlowStep, SubmitUser, SubmitReconfigure, SubmitReauth,
       Submitted, HasEndpoint, ValidationFails, Aborts
  <2>2. RunTypeOK' /\ RunningUpToDate'
    BY <2>1 DEF entryVars, domainVars, sharedVars, importVars, RunTypeOK,
       RunningUpToDate
  <2> QED
    BY <1>0, <2>1, <2>2, QuietStep DEF entryVars, domainVars
<1>11. CASE Restart
  <2>1. RunTypeOK' /\ RunningUpToDate' /\ Registrations'
    BY <1>11 DEF Restart, RunTypeOK, RunningUpToDate, Registrations, Past,
       Loaded, Stages
  <2> QED
    BY <1>0, <2>1
<1>12. CASE UNCHANGED vars
  <2>1. RunTypeOK' /\ RunningUpToDate'
    BY <1>12 DEF vars, flowVars, entryVars, domainVars, sharedVars, importVars,
       RunTypeOK, RunningUpToDate
  <2> QED
    BY <1>0, <1>12, <2>1, QuietStep DEF vars, entryVars, domainVars
<1>13. ASSUME NEW e \in Entry, DependencyMissing(e) PROVE RunInv'
  <2>1. RunTypeOK' /\ RunningUpToDate'
    BY <1>13 DEF DependencyMissing, Starts, flowVars, sharedVars, RunTypeOK,
       RunningUpToDate
  <2> QED
    BY <1>0, <1>13, <2>1, QuietStep DEF DependencyMissing
<1>14. CASE PackagesInstalled
  <2>1. RunTypeOK' /\ RunningUpToDate'
    BY <1>14 DEF PackagesInstalled, flowVars, entryVars, sharedVars, RunTypeOK,
       RunningUpToDate
  <2> QED
    BY <1>0, <1>14, <2>1, QuietStep DEF PackagesInstalled, entryVars
<1> QED
  BY <1>1, <1>2, <1>3, <1>4, <1>5, <1>6, <1>7, <1>8, <1>9, <1>10, <1>11, <1>12,
     <1>13, <1>14, <1>15
  DEF Next

LEMMA RunInvariance == Spec => []RunInv
BY RunInit, RunStep, PTL DEF Spec

\* Types of every variable of Entries and of the flows.
THEOREM TypeCorrect == Spec => []TypeOK
<1>1. RunInv => TypeOK
  BY DEF RunInv, StoreInv, RunTypeOK, TypeOK
<1> QED
  BY <1>1, RunInvariance, PTL

\* config_flow.py:153-197, __init__.py:46-79: a stored talosconfig or endpoint
\* that a loaded entry does not work with has its reload scheduled.
THEOREM StoredDataInUseHolds == Spec => []StoredDataInUse
<1>1. RunInv => StoredDataInUse
  BY DEF RunInv, RunningUpToDate, StoredDataInUse, Loaded
<1> QED
  BY <1>1, RunInvariance, PTL

\* services.py:215-257, __init__.py:82-95: the services stay while an entry is
\* loaded, but for one that was awaiting the static path.
THEOREM LoadedHasServicesHolds == Spec => []LoadedHasServices
<1>1. RunInv => LoadedHasServices
  BY DEF RunInv, Registrations, LoadedHasServices
<1> QED
  BY <1>1, RunInvariance, PTL

\* panel.py:38-82: the panel is there while an entry is loaded.
THEOREM LoadedHasPanelHolds == Spec => []LoadedHasPanel
<1>1. RunInv => LoadedHasPanel
  BY DEF RunInv, Registrations, LoadedHasPanel
<1> QED
  BY <1>1, RunInvariance, PTL

\* services.py:246, panel.py:78: services and panel go with the last entry, but
\* for services whose registering setup then failed.
THEOREM NothingLeftBehindHolds == Spec => []NothingLeftBehind
<1>1. RunInv => NothingLeftBehind
  BY DEF RunInv, RunTypeOK, Registrations, Past, Stages, NothingLeftBehind
<1> QED
  BY <1>1, RunInvariance, PTL

-----------------------------------------------------------------------------
(* The missing packages.  Whoever has begun its setup found them, and they    *)
(* stay until the next restart; whoever has connected withdrew the issue.     *)

ImportsInv ==
  \A e \in Entry :
    /\ stage[e] # "down" => importable
    /\ stage[e] \notin {"down", "connect"} => ~dependencyIssue

LEMMA ImportsStep == RunTypeOK /\ ImportsInv /\ [Next]_vars => ImportsInv'
<1> SUFFICES ASSUME RunTypeOK, ImportsInv, [Next]_vars PROVE ImportsInv'
  OBVIOUS
<1> USE DEF ImportsInv, RunTypeOK
<1>1. ASSUME NEW e \in Entry, BeginSetup(e) \/ DependencyMissing(e) PROVE ImportsInv'
  BY <1>1
  DEF BeginSetup, DependencyMissing, Starts, Imports, To, domainVars, importVars
<1>2. ASSUME NEW e \in Entry, Connected(e) PROVE ImportsInv'
  BY <1>2 DEF Connected, To, IssueDeleted
<1>3. ASSUME NEW e \in Entry,
             \/ SetupFails(e) \/ FirstRefreshed(e) \/ BeginUnload(e)
             \/ UnloadFails(e) \/ Unloaded(e)
      PROVE  ImportsInv'
  BY <1>3 DEF SetupFails, FirstRefreshed, BeginUnload, UnloadFails, Unloaded, To,
     domainVars, importVars
<1>4. ASSUME NEW e \in Entry, Forwarded(e) \/ StaticRegistered(e) \/ StaticFails(e)
      PROVE  ImportsInv'
  BY <1>4
  DEF Forwarded, StaticRegistered, StaticFails, RegisterPanel, To, importVars
<1>5. CASE UNCHANGED <<stage, importVars>>
  BY <1>5 DEF importVars
<1>6. CASE PackagesInstalled \/ Restart
  BY <1>6 DEF PackagesInstalled, Restart, entryVars
<1> QED
  BY <1>1, <1>2, <1>3, <1>4, <1>5, <1>6
  DEF Next, vars, entryVars, domainVars, SetOptions, Remove, Create, Update,
      FlowStep

LEMMA ImportsInvariance == Spec => []ImportsInv
<1>1. Init => ImportsInv
  BY DEF Init, ImportsInv
<1>2. RunInv => RunTypeOK
  BY DEF RunInv
<1> QED
  BY <1>1, <1>2, RunInvariance, ImportsStep, PTL DEF Spec

\* __init__.py:56-69: while an entry is loaded the repair issue about missing
\* packages is not there, whichever entry's setup raised it.
THEOREM DependencyIssueTrueHolds == Spec => []DependencyIssueTrue
<1>1. ImportsInv => DependencyIssueTrue
  BY DEF ImportsInv, DependencyIssueTrue, Loaded
<1> QED
  BY <1>1, ImportsInvariance, PTL
=============================================================================
