------------------------------ MODULE Entries -------------------------------
(* The config entries of the domain over their lives: setup and unload of     *)
(* each, which interleave at every await, the services and the sidebar panel  *)
(* they share, and the reloads that bring a stored change into use.  Composes *)
(* ConfigFlow, whose flows create and update the entries.                     *)
(*                                                                            *)
(* stage says where an entry is:                                              *)
(*    down      not set up: new, failed, waiting for a retry, unloaded        *)
(*    connect   awaiting client.connect                                       *)
(*    refresh   awaiting the first refresh                                    *)
(*    forward   awaiting the setup of the platforms                           *)
(*    static    awaiting the registration of the panel's static path          *)
(*    loaded    state LOADED                                                  *)
(*    unload    awaiting the unload of the platforms                          *)
(*    stuck     the unload failed, until Home Assistant restarts              *)
EXTENDS ConfigFlow

CONSTANT Frontend   \* http, frontend and panel_custom are loaded
ASSUME FrontendAssumption == Frontend \in BOOLEAN

VARIABLES
  stage,             \* where each entry is
  running,           \* the data that its client and coordinator were made of
  optionsChanged,    \* entry.options changed since its coordinator was made
  listening,         \* its update listener is registered
  reload,            \* a reload of it is scheduled
  services,          \* the domain's services are registered
  panel,             \* the sidebar panel is registered
  panelRegistered,   \* hass.data[DOMAIN]["panel_registered"]
  staticRegistered,  \* hass.data[DOMAIN]["static_registered"]
  dependencyIssue,   \* the repair issue missing_dependency exists
  overlooked,        \* history: entries that had found the services and were
                     \* still in setup when the services were removed
  abandoned          \* history: a setup that failed late left the services

flowVars == <<data, uniqueId, flow>>
entryVars == <<stage, running, optionsChanged, listening, reload>>
sharedVars == <<services, panel, panelRegistered, staticRegistered, overlooked,
                abandoned>>
importVars == <<importable, dependencyIssue>>
domainVars == <<sharedVars, importVars>>
vars == <<flowVars, entryVars, domainVars>>

Stages == {"down", "connect", "refresh", "forward", "static", "loaded",
           "unload", "stuck"}

Loaded == {e \in Entry : stage[e] = "loaded"}

To(e, place) == stage' = [stage EXCEPT ![e] = place]

-----------------------------------------------------------------------------
(* Setup, async_setup_entry.                                                  *)

\* The entry is started, retried or reloaded; its data is read and parsed.
\* Were it not to parse, the setup would end here.
Starts(e) ==
  /\ e \in Existing
  /\ stage[e] = "down"
  /\ data[e].config \in Valid

\* client.connect imports grpclib and the stubs before it waits for anything.
BeginSetup(e) ==
  /\ Starts(e)
  /\ Imports
  /\ To(e, "connect")
  /\ running' = [running EXCEPT ![e] = data[e]]
  /\ reload' = [reload EXCEPT ![e] = FALSE]
  /\ UNCHANGED <<flowVars, optionsChanged, listening, domainVars>>

\* TalosDependencyError: the setup fails and a repair issue says so.
DependencyMissing(e) ==
  /\ Starts(e)
  /\ ~Imports
  /\ dependencyIssue' = TRUE
  /\ reload' = [reload EXCEPT ![e] = FALSE]
  /\ UNCHANGED <<flowVars, stage, running, optionsChanged, listening,
                 sharedVars, importable>>

\* The TLS context is built, the repair issue is withdrawn and the coordinator
\* is made, with the interval the options give.
IssueKept == dependencyIssue
IssueDeleted == FALSE

Connected(e) ==
  /\ stage[e] = "connect"
  /\ running[e].config \in Connectable
  /\ To(e, "refresh")
  /\ optionsChanged' = [optionsChanged EXCEPT ![e] = FALSE]
  /\ dependencyIssue' = IssueDeleted
  /\ UNCHANGED <<flowVars, running, listening, reload, sharedVars, importable>>

\* The TLS context cannot be built, the first refresh fails or is refused, or
\* the forward raises.
SetupFails(e) ==
  /\ stage[e] \in {"connect", "refresh", "forward"}
  /\ To(e, "down")
  /\ running' = [running EXCEPT ![e] = NoData]
  /\ optionsChanged' = [optionsChanged EXCEPT ![e] = FALSE]
  /\ UNCHANGED <<flowVars, listening, reload, domainVars>>

FirstRefreshed(e) ==
  /\ stage[e] = "refresh"
  /\ To(e, "forward")
  /\ UNCHANGED <<flowVars, running, optionsChanged, listening, reload,
                 domainVars>>

\* async_register_panel waits only for a static path not yet registered.
AwaitsStatic == Frontend /\ ~staticRegistered

\* The rest of async_register_panel, and the entry is LOADED.
RegisterPanel(e) ==
  /\ To(e, "loaded")
  /\ panelRegistered' = (panelRegistered \/ Frontend)
  /\ panel' = (panel \/ (Frontend /\ ~panelRegistered))

\* async_setup_services, which registers them once.
SetupServices == services' = TRUE

\* The platforms are set up: the listener and the services are registered.
Forwarded(e) ==
  /\ stage[e] = "forward"
  /\ listening' = [listening EXCEPT ![e] = TRUE]
  /\ SetupServices
  /\ \/ /\ AwaitsStatic
        /\ To(e, "static")
        /\ UNCHANGED <<panel, panelRegistered>>
     \/ /\ ~AwaitsStatic
        /\ RegisterPanel(e)
  /\ UNCHANGED <<flowVars, running, optionsChanged, reload,
                 staticRegistered, overlooked, abandoned, importVars>>

\* The static path is refused: the setup fails, and neither the listener nor
\* the services it registered are taken back.
StaticFails(e) ==
  /\ stage[e] = "static"
  /\ To(e, "down")
  /\ running' = [running EXCEPT ![e] = NoData]
  /\ optionsChanged' = [optionsChanged EXCEPT ![e] = FALSE]
  /\ overlooked' = overlooked \ {e}
  /\ abandoned' = (abandoned \/ services)
  /\ UNCHANGED <<flowVars, listening, reload, services, panel, panelRegistered,
                 staticRegistered, importVars>>

StaticRegistered(e) ==
  /\ stage[e] = "static"
  /\ staticRegistered' = TRUE
  /\ RegisterPanel(e)
  /\ UNCHANGED <<flowVars, running, optionsChanged, listening, reload,
                 services, overlooked, abandoned, importVars>>

-----------------------------------------------------------------------------
(* Unload, async_unload_entry.                                                *)

\* For a reload, or because the user disables or removes the entry.
BeginUnload(e) ==
  /\ stage[e] = "loaded"
  /\ To(e, "unload")
  /\ UNCHANGED <<flowVars, running, optionsChanged, listening, reload,
                 domainVars>>

UnloadFails(e) ==
  /\ stage[e] = "unload"
  /\ To(e, "stuck")
  /\ UNCHANGED <<flowVars, running, optionsChanged, listening, reload,
                 domainVars>>

\* The entries for whose sake the services and the panel stay.
NoOthers(e) == {}
OthersUnderWay(e) == {o \in Entry \ {e} : stage[o] # "down"}
Others(e) == Loaded \ {e}

\* async_unload_services
UnloadServices == services' = FALSE

\* async_unregister_panel
PanelFlagKept == panelRegistered
PanelFlag == FALSE

\* The platforms are gone; nothing is awaited from here on.
Unloaded(e) ==
  /\ stage[e] = "unload"
  /\ To(e, "down")
  /\ running' = [running EXCEPT ![e] = NoData]
  /\ optionsChanged' = [optionsChanged EXCEPT ![e] = FALSE]
  /\ listening' = [listening EXCEPT ![e] = FALSE]
  /\ IF Others(e) = {}
     THEN /\ UnloadServices
          /\ panel' = (panel /\ ~panelRegistered)
          /\ panelRegistered' = PanelFlag
          /\ overlooked' = {o \in Entry : stage[o] = "static"}
          /\ abandoned' = FALSE
     ELSE /\ overlooked' = overlooked \ {e}
          /\ UNCHANGED <<services, panel, panelRegistered, abandoned>>
  /\ UNCHANGED <<flowVars, reload, staticRegistered, importVars>>

-----------------------------------------------------------------------------
(* Changes of the stored entries.                                             *)

\* The options flow; the update listener, once registered, reloads the entry.
SetOptions(e) ==
  /\ e \in Existing
  /\ optionsChanged' =
       [optionsChanged EXCEPT ![e] = stage[e] \notin {"down", "connect"}]
  /\ reload' = [reload EXCEPT ![e] = @ \/ listening[e]]
  /\ UNCHANGED <<flowVars, stage, running, listening, domainVars>>

Create(f, e) ==
  /\ stage[e] = "down"
  /\ CreateEntry(f, e)
  /\ UNCHANGED <<entryVars, domainVars>>

\* The flow schedules a reload whether a listener is registered or not.
ReloadByListener(e) == listening[e]
ReloadScheduled(e) == TRUE

Update(f) ==
  LET e == flow[f].entry
  IN /\ UpdateEntry(f)
     /\ reload' = [reload EXCEPT ![e] = @ \/ ReloadScheduled(e)]
     /\ UNCHANGED <<stage, running, optionsChanged, listening, domainVars>>

Remove(e) ==
  /\ stage[e] = "down"
  /\ DeleteEntry(e)
  /\ reload' = [reload EXCEPT ![e] = FALSE]
  /\ UNCHANGED <<stage, running, optionsChanged, listening, domainVars>>

FlowStep(f) ==
  /\ \/ SubmitUser(f)
     \/ SubmitReconfigure(f)
     \/ SubmitReauth(f)
     \/ ValidationFails(f)
     \/ Aborts(f)
  /\ UNCHANGED <<entryVars, domainVars>>

\* The missing packages are installed while Home Assistant runs.
PackagesInstalled ==
  /\ ~importable
  /\ importable' = TRUE
  /\ UNCHANGED <<flowVars, entryVars, sharedVars, dependencyIssue>>

\* Home Assistant restarts, perhaps updated and without some package: what is
\* stored stays, all else is lost.
Restart ==
  /\ stage' = [e \in Entry |-> "down"]
  /\ running' = [e \in Entry |-> NoData]
  /\ optionsChanged' = [e \in Entry |-> FALSE]
  /\ listening' = [e \in Entry |-> FALSE]
  /\ reload' = [e \in Entry |-> FALSE]
  /\ flow' = [f \in Flow |-> NoFlow]
  /\ services' = FALSE
  /\ panel' = FALSE
  /\ panelRegistered' = FALSE
  /\ staticRegistered' = FALSE
  /\ overlooked' = {}
  /\ abandoned' = FALSE
  /\ dependencyIssue' = FALSE
  /\ importable' \in BOOLEAN
  /\ UNCHANGED <<data, uniqueId>>

-----------------------------------------------------------------------------
Init ==
  /\ FlowInit
  /\ stage = [e \in Entry |-> "down"]
  /\ running = [e \in Entry |-> NoData]
  /\ optionsChanged = [e \in Entry |-> FALSE]
  /\ listening = [e \in Entry |-> FALSE]
  /\ reload = [e \in Entry |-> FALSE]
  /\ services = FALSE
  /\ panel = FALSE
  /\ panelRegistered = FALSE
  /\ staticRegistered = FALSE
  /\ overlooked = {}
  /\ abandoned = FALSE
  /\ dependencyIssue = FALSE

Next ==
  \/ \E e \in Entry :
       \/ BeginSetup(e)
       \/ DependencyMissing(e)
       \/ Connected(e)
       \/ SetupFails(e)
       \/ FirstRefreshed(e)
       \/ Forwarded(e)
       \/ StaticFails(e)
       \/ StaticRegistered(e)
       \/ BeginUnload(e)
       \/ UnloadFails(e)
       \/ Unloaded(e)
       \/ SetOptions(e)
       \/ Remove(e)
  \/ \E f \in Flow, e \in Entry : Create(f, e)
  \/ \E f \in Flow : Update(f) \/ FlowStep(f)
  \/ PackagesInstalled
  \/ Restart

Spec == Init /\ [][Next]_vars

-----------------------------------------------------------------------------
(* Properties.                                                                *)

\* Every variable holds a value of the program's type.
TypeOK ==
  /\ FlowTypeOK
  /\ stage \in [Entry -> Stages]
  /\ running \in [Entry -> EntryData \cup {NoData}]
  /\ optionsChanged \in [Entry -> BOOLEAN]
  /\ listening \in [Entry -> BOOLEAN]
  /\ reload \in [Entry -> BOOLEAN]
  /\ services \in BOOLEAN
  /\ panel \in BOOLEAN
  /\ panelRegistered \in BOOLEAN
  /\ staticRegistered \in BOOLEAN
  /\ overlooked \subseteq Entry
  /\ abandoned \in BOOLEAN
  /\ dependencyIssue \in BOOLEAN

\* An update never gives an entry another cluster: what runs, and what is
\* stored, is of the cluster the entry was created for.
EntryKeepsCluster ==
  \A e \in Existing : ClusterOf[data[e].config] = uniqueId[e]

\* A loaded entry works with the stored talosconfig and endpoint, or a reload
\* is scheduled: an update that meets a setup in progress is not lost.
StoredDataInUse ==
  \A e \in Loaded : running[e] = data[e] \/ reload[e]

\* While an entry is loaded the services are there, whichever entries come and
\* go, unless it was awaiting the static path when the last loaded one left.
LoadedHasServices == Loaded \subseteq overlooked \/ services

\* While an entry is loaded the sidebar has the panel.
LoadedHasPanel == Loaded # {} /\ Frontend => panel

\* services.py:246 and panel.py:78: when the last entry is down, or on its way
\* up but not yet past its platforms, no service and no panel is left behind,
\* unless a setup failed after it had registered the services.
NothingLeftBehind ==
  (\A e \in Entry : stage[e] \in {"down", "connect", "refresh", "forward"})
    => (services => abandoned) /\ ~panel

\* __init__.py:57-58, "A missing Python dependency is environment-wide, not
\* per-cluster": the repair issue that one entry's setup raised is gone once
\* any entry has connected, and none comes back while one is loaded.
DependencyIssueTrue == dependencyIssue => Loaded = {}

\* __init__.py:99, "Reload when options change": a loaded entry's coordinator
\* was made with the options as they are, or a reload is scheduled.
OptionsInUse == \A e \in Loaded : optionsChanged[e] => reload[e]
=============================================================================
